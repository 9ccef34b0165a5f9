------------------------ MODULE LeaderElection_proofs ------------------------
(* Theorems about LeaderElection, for every set of pods, every expiry time   *)
(* and every number of faults.                                               *)
EXTENDS LeaderElection, TLAPS

USE EnabledAssumption, ExpireAssumption, FaultsAssumption, NoLeaseAssumption

-----------------------------------------------------------------------------
(* Lemmas about the helpers *)

\* A lease that ages stays a lease of the same holder, or stays absent.
LEMMA AgedType ==
  \A l \in Leases \cup {NoLease} :
    /\ Aged(l) \in Leases \cup {NoLease}
    /\ (Aged(l) = NoLease) <=> (l = NoLease)
    /\ l # NoLease => Aged(l).holder = l.holder
    /\ Expired(l) => Expired(Aged(l))
<1> SUFFICES ASSUME NEW l \in Leases \cup {NoLease}
             PROVE /\ Aged(l) \in Leases \cup {NoLease}
                   /\ (Aged(l) = NoLease) <=> (l = NoLease)
                   /\ l # NoLease => Aged(l).holder = l.holder
                   /\ Expired(l) => Expired(Aged(l))
  OBVIOUS
<1>1. CASE l = NoLease BY <1>1 DEF Aged, Expired
<1>2. CASE l # NoLease /\ l.age \notin 0 .. ExpireAfter
  BY <1>2 DEF Aged
<1>3. CASE l # NoLease /\ l.age \in 0 .. ExpireAfter
  <2>1. l \in Leases /\ Aged(l) = [l EXCEPT !.age = l.age + 1]
    BY <1>3 DEF Aged
  <2>2. [l EXCEPT !.age = l.age + 1] \in Leases
    BY <2>1, <1>3 DEF Leases, Ages, NeverRenewed
  <2>3. [l EXCEPT !.age = l.age + 1].holder = l.holder
    BY <2>1 DEF Leases
  <2>4. Aged(l) # NoLease BY <2>1, <2>2
  <2>5. ~Expired(l) BY <1>3 DEF Expired
  <2> QED BY <1>3, <2>1, <2>2, <2>3, <2>4, <2>5
<1> QED BY <1>1, <1>2, <1>3

\* The lease that a pod creates for itself is a lease.
LEMMA NewLeaseType == \A p \in Pods : NewLease(p) \in Leases
BY DEF NewLease, Leases, Ages, NeverRenewed

\* A lease that the refresh loop renews stays a lease of the same holder.
LEMMA RenewedType ==
  \A l \in Leases : /\ [l EXCEPT !.age = 0] \in Leases
                   /\ [l EXCEPT !.age = 0].holder = l.holder
BY DEF Leases, Ages, NeverRenewed

-----------------------------------------------------------------------------
(* Type correctness *)

\* The types hold initially.
LEMMA TypeInit == Init => TypeOK
BY DEF Init, TypeOK, States, Awaiting, Active, Causes

\* Every step keeps the types.
LEMMA TypeStep == TypeOK /\ [Next]_vars => TypeOK'
<1> SUFFICES ASSUME TypeOK, [Next]_vars PROVE TypeOK'
  OBVIOUS
<1> USE DEF TypeOK, States, Awaiting, Active, Causes, Goto, Blame, Fault
<1>1. ASSUME NEW p \in Pods, Main(p) PROVE TypeOK'
  <2>1. CASE Start(p) BY <2>1 DEF Start
  <2>2. CASE GetPod(p) BY <2>2 DEF GetPod
  <2>3. CASE CreateLease(p) BY <2>3, NewLeaseType DEF CreateLease
  <2>4. CASE GetLease(p) BY <2>4 DEF GetLease, Copy, Forget
  <2>5. CASE Decide(p) BY <2>5 DEF Decide, Grant, Forget
  <2>6. CASE DeleteLease(p) BY <2>6 DEF DeleteLease, Grant, Forget, Remove
  <2>7. CASE Wake(p) BY <2>7 DEF Wake
  <2>8. CASE CancelClaim(p) BY <2>8 DEF CancelClaim, Forget
  <2>9. CASE GateRun(p) BY <2>9 DEF GateRun
  <2>10. CASE GateExit(p) BY <2>10 DEF GateExit, Stop, Forget
  <2>11. CASE ListCrds(p)
    <3>1. CASE Goto(p, "running") BY <2>11, <3>1 DEF ListCrds, Stop, Forget
    <3>2. CASE Stop(p) BY <2>11, <3>2 DEF ListCrds, Stop, Forget
    <3> QED BY <2>11, <3>1, <3>2 DEF ListCrds
  <2>12. CASE Drained(p) BY <2>12 DEF Drained, Stop, Forget
  <2> QED
    BY <1>1, <2>1, <2>2, <2>3, <2>4, <2>5, <2>6, <2>7, <2>8, <2>9, <2>10,
       <2>11, <2>12 DEF Main
<1>2. ASSUME NEW p \in Pods, Refresher(p) PROVE TypeOK'
  <2>1. CASE RefreshGet(p) BY <2>1, RenewedType DEF RefreshGet, Copy, Forget
  <2>2. CASE RefreshReplace(p) BY <2>2 DEF RefreshReplace, Forget
  <2>3. CASE RefreshCancel(p) BY <2>3 DEF RefreshCancel, Forget
  <2> QED BY <1>2, <2>1, <2>2, <2>3 DEF Refresher
<1>3. ASSUME NEW p \in Pods, Environment(p) PROVE TypeOK'
  <2>1. ASSUME NEW d \in BOOLEAN, Signal(p, d) PROVE TypeOK'
    BY <2>1 DEF Signal
  <2>2. CASE Kill(p) BY <2>2 DEF Kill, Stop, Forget
  <2>3. CASE NodeLost(p) BY <2>3 DEF NodeLost, Stop, Forget
  <2>4. CASE PodGone(p) BY <2>4 DEF PodGone
  <2> QED BY <1>3, <2>1, <2>2, <2>3, <2>4 DEF Environment
<1>4. CASE Tick BY <1>4, AgedType DEF Tick
<1>5. CASE CollectLease BY <1>5 DEF CollectLease
<1>6. CASE UNCHANGED vars BY <1>6 DEF vars
<1> QED BY <1>1, <1>2, <1>3, <1>4, <1>5, <1>6 DEF Next

\* Every variable keeps its type in every reachable state.
THEOREM TypeCorrect == Spec => []TypeOK
<1>1. Init => TypeOK BY TypeInit
<1>2. TypeOK /\ [Next]_vars => TypeOK' BY TypeStep
<1> QED BY <1>1, <1>2, PTL DEF Spec

-----------------------------------------------------------------------------
(* The inductive invariant *)

\* The invariant holds initially: nobody has a lease or a refresh loop.
LEMMA InvInit == Init => Inv
BY TypeInit DEF Init, Inv, LeaseGuarded, LeadersRefresh, CopiesFollowLease,
   OldCopiesLost, Phases, Leaders, Active

\* Every step keeps the invariant; only the steps that touch the lease, a copy
\* of it or a refresh loop have anything to show.
LEMMA InvStep == Inv /\ [Next]_vars => Inv'
<1> SUFFICES ASSUME Inv, [Next]_vars PROVE Inv'
  OBVIOUS
<1> DEFINE Core == /\ LeaseGuarded /\ LeadersRefresh /\ CopiesFollowLease
                   /\ OldCopiesLost /\ Phases
<1>0. TypeOK /\ TypeOK' /\ Core BY TypeStep DEF Inv
<1>q. SUFFICES Core' BY <1>0 DEF Inv
<1> USE <1>0 DEF TypeOK, States, Awaiting, Active, Goto, Blame, Leaders, Held,
        LeaseGuarded, LeadersRefresh, CopiesFollowLease, OldCopiesLost, Phases
<1>1. ASSUME NEW p \in Pods, Main(p) PROVE Core'
  <2>1. CASE Start(p) BY <2>1 DEF Start
  <2>2. CASE GetPod(p) BY <2>2 DEF GetPod
  <2>3. CASE CreateLease(p) BY <2>3 DEF CreateLease, NewLease
  <2>4. CASE GetLease(p) BY <2>4 DEF GetLease, Copy, Forget
  <2>5. CASE Decide(p) BY <2>5 DEF Decide, Grant, Forget
  <2>6. CASE DeleteLease(p)
    \* The stored lease is deleted without blame only when it had expired and
    \* p had read it as it is: nobody has a refresh loop on it.
    <3>1. CASE lease # NoLease /\ Remove(p)
      <4>1. cause' = "none" => p \in current /\ seen[p] = lease /\ Expired(lease)
        BY <2>6, <3>1 DEF DeleteLease, Remove
      <4>2. cause' = "none" => \A q \in Pods : refresh[q] = "none"
        BY <2>6, <3>1, <4>1 DEF DeleteLease
      <4>3. cause' = "none" => refresh' = refresh
        BY <2>6, <3>1, <4>1 DEF DeleteLease, Grant, Remove
      <4> QED BY <2>6, <3>1, <4>2, <4>3 DEF DeleteLease, Grant, Remove
    <3>2. CASE Forget(p) /\ UNCHANGED <<lease, refresh, cause>>
      BY <2>6, <3>2 DEF DeleteLease, Forget, Remove
    <3> QED BY <2>6, <3>1, <3>2 DEF DeleteLease
  <2>7. CASE Wake(p) BY <2>7 DEF Wake
  <2>8. CASE CancelClaim(p) BY <2>8 DEF CancelClaim, Forget
  <2>9. CASE GateRun(p) BY <2>9 DEF GateRun
  <2>10. CASE GateExit(p) BY <2>10 DEF GateExit, Stop, Forget
  <2>11. CASE ListCrds(p) BY <2>11 DEF ListCrds, Stop, Forget
  <2>12. CASE Drained(p) BY <2>12 DEF Drained, Stop, Forget
  <2> QED BY <1>1, <2>1, <2>2, <2>3, <2>4, <2>5, <2>6, <2>7, <2>8, <2>9, <2>10, <2>11, <2>12 DEF Main
<1>2. ASSUME NEW p \in Pods, Refresher(p) PROVE Core'
  <2>1. CASE RefreshGet(p)
    <3> DEFINE copy == [lease EXCEPT !.age = 0]
    <3>1. pc[p] \notin {"decide", "delete"} BY <2>1 DEF RefreshGet
    <3>2. CASE lease # NoLease /\ Copy(p, copy) /\ refresh'[p] = "replace"
      <4>1. copy # NoLease /\ copy.holder = lease.holder
        BY <3>2, RenewedType
      <4>2. seen' = [seen EXCEPT ![p] = copy] /\ current' = current \cup {p}
        BY <3>2 DEF Copy
      <4> HIDE DEF copy
      <4> QED BY <2>1, <3>1, <3>2, <4>1, <4>2 DEF RefreshGet
    <3>3. CASE refresh'[p] = "ended" /\ UNCHANGED <<seen, current>>
      BY <2>1, <3>1, <3>3 DEF RefreshGet
    <3> QED BY <2>1, <3>2, <3>3 DEF RefreshGet
  <2>2. CASE RefreshReplace(p)
    \* An accepted copy names the stored holder, which is p before any cause.
    <3>1. CASE /\ Accepts(p) /\ lease' = seen[p] /\ current' = {}
               /\ seen' = [seen EXCEPT ![p] = NoLease]
               /\ Blame("expired", Expired(seen[p]))
      <4>1. seen[p] # NoLease /\ seen[p].holder = lease.holder
        BY <3>1 DEF Accepts
      <4>2. cause' = "none" => lease'.holder = p /\ ~Expired(lease')
        BY <2>2, <3>1, <4>1 DEF RefreshReplace, Expired
      <4> QED BY <2>2, <3>1, <4>1, <4>2 DEF RefreshReplace
    <3>2. CASE UNCHANGED lease /\ Forget(p)
      BY <2>2, <3>2 DEF RefreshReplace, Forget
    <3> QED BY <2>2, <3>1, <3>2 DEF RefreshReplace
  <2>3. CASE RefreshCancel(p) BY <2>3 DEF RefreshCancel, Forget
  <2> QED BY <1>2, <2>1, <2>2, <2>3 DEF Refresher
<1>3. ASSUME NEW p \in Pods, Environment(p) PROVE Core'
  <2>1. ASSUME NEW d \in BOOLEAN, Signal(p, d) PROVE Core'
    BY <2>1 DEF Signal
  <2>2. CASE Kill(p) BY <2>2 DEF Kill, Stop, Forget
  <2>3. CASE NodeLost(p) BY <2>3 DEF NodeLost, Stop, Forget
  <2>4. CASE PodGone(p) BY <2>4 DEF PodGone
  <2> QED BY <1>3, <2>1, <2>2, <2>3, <2>4 DEF Environment
<1>4. CASE Tick BY <1>4, AgedType DEF Tick
<1>5. CASE CollectLease BY <1>5 DEF CollectLease
<1>6. CASE UNCHANGED vars BY <1>6 DEF vars
<1> QED BY <1>1, <1>2, <1>3, <1>4, <1>5, <1>6 DEF Next

\* Until the first cause, leadership is tied to the one Lease: the invariant
\* that the other safety theorems follow from.
THEOREM Invariant == Spec => []Inv
<1>1. Init => Inv BY InvInit
<1>2. Inv /\ [Next]_vars => Inv' BY InvStep
<1> QED BY <1>1, <1>2, PTL DEF Spec

-----------------------------------------------------------------------------
(* What follows from it *)

\* Two elected pods run their controllers together only after one of the five
\* causes: before that, both would have to hold the one lease.
THEOREM SplitBrain == Spec => []SplitBrainHasCause
<1>1. Inv => SplitBrainHasCause
  <2> SUFFICES ASSUME Inv, cause = "none",
                      NEW p \in Leaders \cap Enabled, NEW q \in Leaders \cap Enabled
               PROVE p = q
    BY DEF SplitBrainHasCause
  <2>1. refresh[p] # "none" /\ refresh[q] # "none"
    BY DEF Inv, LeadersRefresh
  <2>2. lease.holder = p /\ lease.holder = q
    BY <2>1 DEF Inv, LeaseGuarded
  <2> QED BY <2>2
<1> QED BY <1>1, Invariant, PTL

\* No step replaces the lease by one of another holder: a replace needs a copy
\* with the stored version, and such a copy names the stored holder.
LEMMA HolderStep ==
  Inv /\ [Next]_vars
    => (lease # NoLease /\ lease' # NoLease => lease'.holder = lease.holder)
<1> SUFFICES ASSUME Inv, [Next]_vars, lease # NoLease, lease' # NoLease
             PROVE lease'.holder = lease.holder
  OBVIOUS
<1> USE DEF Inv, TypeOK
<1>1. ASSUME NEW p \in Pods, Main(p) PROVE lease'.holder = lease.holder
  BY <1>1 DEF Main, Start, GetPod, CreateLease, GetLease, Decide, DeleteLease,
     Remove, Wake, CancelClaim, GateRun, GateExit, ListCrds, Drained
<1>2. ASSUME NEW p \in Pods, Refresher(p) PROVE lease'.holder = lease.holder
  <2>1. CASE RefreshReplace(p)
    BY <2>1 DEF RefreshReplace, Accepts, CopiesFollowLease
  <2> QED BY <1>2, <2>1 DEF Refresher, RefreshGet, RefreshCancel
<1>3. ASSUME NEW p \in Pods, Environment(p) PROVE lease'.holder = lease.holder
  BY <1>3 DEF Environment, Signal, Kill, NodeLost, PodGone
<1>4. CASE Tick BY <1>4, AgedType DEF Tick
<1> QED BY <1>1, <1>2, <1>3, <1>4 DEF Next, CollectLease, vars

\* A replace never puts a former holder back, whatever failed before.
THEOREM HolderKept == Spec => HolderNeverOverwritten
<1>1. Inv /\ [Next]_vars
       => [lease # NoLease /\ lease' # NoLease => lease'.holder = lease.holder]_vars
  BY HolderStep
<1> QED BY <1>1, Invariant, PTL DEF Spec, HolderNeverOverwritten

\* The history variable remembers the first cause for good.
LEMMA CauseStep == [Next]_vars /\ cause' = "none" => cause = "none"
BY DEF Next, Main, Start, GetPod, CreateLease, GetLease, Decide, DeleteLease,
   Wake, CancelClaim, GateRun, GateExit, ListCrds, Drained, Refresher,
   RefreshGet, RefreshReplace, RefreshCancel, Environment, Signal, Kill,
   NodeLost, PodGone, Tick, CollectLease, Blame, vars

\* A renewal before the first cause finds the lease of its own pod.
LEMMA RenewStep ==
  Inv /\ [Next]_vars
    => \A p \in Pods : refresh[p] = "replace" /\ refresh'[p] = "tick"
         => cause' # "none" \/ (lease # NoLease /\ lease.holder = p)
<1> SUFFICES ASSUME Inv, [Next]_vars, NEW p \in Pods,
                    refresh[p] = "replace", cause' = "none"
             PROVE lease # NoLease /\ lease.holder = p
  OBVIOUS
<1>1. cause = "none" BY CauseStep
<1> QED BY <1>1 DEF Inv, LeaseGuarded

\* Until the first cause, a renewal renews the lease of its own pod, although
\* the loop never looks at the holder.
THEOREM RenewalsOwn == Spec => RenewsOwnLease
<1>1. Inv /\ [Next]_vars
       => [\A p \in Pods : refresh[p] = "replace" /\ refresh'[p] = "tick"
            => cause' # "none" \/ (lease # NoLease /\ lease.holder = p)]_vars
  BY RenewStep
<1> QED BY <1>1, Invariant, PTL DEF Spec, RenewsOwnLease

-----------------------------------------------------------------------------
(* The lease implements the lock *)

\* Who is at work after main of p went to s.
LEMMA WorkersAfter ==
  ASSUME TypeOK, NEW p \in Pods, NEW s \in States, Goto(p, s)
  PROVE (Leaders \cap Enabled)' = IF p \in Enabled /\ s \in Active
                                    THEN (Leaders \cap Enabled) \cup {p}
                                    ELSE (Leaders \cap Enabled) \ {p}
<1>1. \A q \in Pods : pc'[q] = IF q = p THEN s ELSE pc[q]
  BY DEF Goto, TypeOK
<1> QED BY <1>1 DEF Leaders

\* The initial state of the election is one of the lock.
LEMMA LockInit == Init => Lock!Init
BY DEF Init, Lock!Init, Leaders, Active

\* Every step of the election is a step of the lock, or none.
LEMMA LockStep == Inv /\ Inv' /\ [Next]_vars => [Lock!Next]_(Lock!vars)
<1> SUFFICES ASSUME Inv, Inv', [Next]_vars PROVE [Lock!Next]_(Lock!vars)
  OBVIOUS
<1> DEFINE O == IF lease = NoLease THEN NoLease ELSE lease.holder
           W == Leaders \cap Enabled
<1>a. TypeOK /\ TypeOK' BY DEF Inv
<1>b. CASE cause' # "none"
  <2>1. O' \in Pods \cup {NoLease} BY <1>a DEF TypeOK, Leases
  <2>2. W' \in SUBSET Pods BY DEF Leaders
  <2> QED BY <1>b, <2>1, <2>2 DEF Lock!Next, Lock!Broken
<1>c. CASE cause' = "none"
  <2>1. cause = "none" BY <1>c, CauseStep
  <2>2. \A p \in W : refresh[p] # "none" /\ lease # NoLease /\ lease.holder = p
    BY <2>1 DEF Inv, LeadersRefresh, LeaseGuarded
  <2> DEFINE Stutter == O' = O /\ W' = W
             Moves == Stutter \/ Lock!Kept
  <2>q. SUFFICES Moves BY <1>c, <2>1 DEF Lock!Next, Lock!vars
  <2>r. ASSUME O' = O, NEW p \in W, W' = W \ {p} PROVE Moves
    BY <1>c, <2>1, <2>r DEF Lock!Kept, Lock!End, Leaders
  <2>s. ASSUME O' = NoLease, W' = W, \A p \in W : O # p PROVE Moves
    BY <1>c, <2>1, <2>s DEF Lock!Kept, Lock!Release
  <2>t. ASSUME UNCHANGED lease, NEW p \in Pods, NEW s \in States \ Active,
               Goto(p, s) PROVE Moves
    BY <1>a, <2>r, <2>t, WorkersAfter
  <2>u. ASSUME UNCHANGED <<lease, pc>> PROVE Moves
    BY <2>u DEF Leaders
  <2> USE DEF States, Awaiting, Active
  <2>3. ASSUME NEW p \in Pods, Main(p) PROVE Moves
    <3>1. CASE Start(p) BY <3>1, <2>t DEF Start
    <3>2. CASE GetPod(p) BY <3>2, <2>t DEF GetPod
    <3>3. CASE CreateLease(p)
      <4>1. W' = W
        BY <1>a, <3>3, WorkersAfter DEF CreateLease, Leaders
      <4>2. CASE lease = NoLease /\ lease' = NewLease(p)
        <5>1. O = NoLease /\ O' = p
          BY <4>2, NewLeaseType, NoLeaseAssumption DEF NewLease
        <5> QED BY <1>c, <2>1, <4>1, <5>1 DEF Lock!Kept, Lock!Acquire
      <4>3. CASE lease' = lease BY <4>1, <4>3
      <4> QED BY <3>3, <4>2, <4>3 DEF CreateLease
    <3>4. CASE GetLease(p) BY <3>4, <2>t DEF GetLease
    <3>5. CASE Decide(p) BY <3>5, <2>t DEF Decide, Grant
    <3>6. CASE DeleteLease(p)
      <4>1. CASE lease # NoLease /\ Remove(p)
        <5>1. Expired(lease)
          BY <1>c, <2>1, <3>6, <4>1
          DEF DeleteLease, Remove, Blame, Inv, CopiesFollowLease, Phases
        <5>2. W = {}
          BY <2>1, <2>2, <5>1 DEF Inv, LeaseGuarded, Leaders
        <5>3. W' = W
          <6>1. Goto(p, "gate") \/ Goto(p, "sleep")
            BY <3>6 DEF DeleteLease, Grant
          <6> QED BY <1>a, <5>2, <6>1, WorkersAfter
        <5>4. O' = NoLease BY <4>1 DEF Remove
        <5> QED BY <2>s, <5>2, <5>3, <5>4
      <4>2. CASE UNCHANGED lease /\ Goto(p, "sleep") BY <4>2, <2>t
      <4> QED BY <3>6, <4>1, <4>2 DEF DeleteLease
    <3>7. CASE Wake(p) BY <3>7, <2>t DEF Wake
    <3>8. CASE CancelClaim(p) BY <3>8, <2>t DEF CancelClaim
    <3>9. CASE GateRun(p)
      <4>1. CASE p \in Enabled
        <5>1. refresh[p] # "none" /\ lease # NoLease /\ lease.holder = p
          BY <1>c, <2>1, <3>9, <4>1 DEF GateRun, Blame, Inv, LeaseGuarded
        <5>2. O' = O /\ O = p BY <3>9, <5>1 DEF GateRun
        <5>3. W' = W \cup {p} BY <1>a, <3>9, <4>1, WorkersAfter DEF GateRun
        <5> QED BY <1>c, <2>1, <5>2, <5>3 DEF Lock!Kept, Lock!Begin
      <4>2. CASE p \notin Enabled
        BY <1>a, <3>9, <4>2, WorkersAfter DEF GateRun
      <4> QED BY <4>1, <4>2
    <3>10. CASE GateExit(p) BY <3>10, <2>t DEF GateExit, Stop
    <3>11. CASE ListCrds(p)
      <4>1. CASE Goto(p, "running")
        BY <1>a, <3>11, <4>1, WorkersAfter DEF ListCrds, Leaders
      <4>2. CASE Stop(p) BY <3>11, <4>2, <2>t DEF ListCrds, Stop
      <4> QED BY <3>11, <4>1, <4>2 DEF ListCrds
    <3>12. CASE Drained(p) BY <3>12, <2>t DEF Drained, Stop
    <3> QED
      BY <2>3, <3>1, <3>2, <3>3, <3>4, <3>5, <3>6, <3>7, <3>8, <3>9, <3>10,
         <3>11, <3>12 DEF Main
  <2>4. ASSUME NEW p \in Pods, Refresher(p) PROVE Moves
    <3>1. CASE RefreshGet(p) BY <3>1, <2>u DEF RefreshGet
    <3>2. CASE RefreshReplace(p)
      <4>1. O' = O
        BY <3>2 DEF RefreshReplace, Accepts, Inv, CopiesFollowLease
      <4> QED BY <3>2, <4>1 DEF RefreshReplace, Leaders
    <3>3. CASE RefreshCancel(p) BY <3>3, <2>u DEF RefreshCancel
    <3> QED BY <2>4, <3>1, <3>2, <3>3 DEF Refresher
  <2>5. ASSUME NEW p \in Pods, Environment(p) PROVE Moves
    <3>1. ASSUME NEW d \in BOOLEAN, Signal(p, d) PROVE Moves
      <4>1. Leaders' = Leaders BY <1>a, <3>1 DEF Signal, Leaders, TypeOK
      <4> QED BY <3>1, <4>1 DEF Signal
    <3>2. CASE Kill(p) BY <3>2, <2>t DEF Kill, Stop
    <3>3. CASE NodeLost(p) BY <3>3, <2>t DEF NodeLost, Stop
    <3>4. CASE PodGone(p) BY <3>4, <2>u DEF PodGone
    <3> QED BY <2>5, <3>1, <3>2, <3>3, <3>4 DEF Environment
  <2>6. CASE Tick
    <3>1. O' = O BY <1>a, <2>6, AgedType DEF Tick, TypeOK
    <3> QED BY <2>6, <3>1 DEF Tick, Leaders
  <2>7. CASE CollectLease
    <3>1. lease.holder \notin W
      BY <2>7 DEF CollectLease, Inv, Phases, Leaders
    <3> QED BY <2>7, <2>s, <3>1 DEF CollectLease, Leaders
  <2>8. CASE UNCHANGED vars BY <2>8, <2>u DEF vars
  <2> QED BY <2>3, <2>4, <2>5, <2>6, <2>7, <2>8 DEF Next
<1> QED BY <1>b, <1>c

\* Until the first cause, the operator's lease protocol implements the lock.
THEOREM LockImplemented == Spec => ImplementsLock
<1>1. Init => Lock!Init BY LockInit
<1>2. Inv /\ Inv' /\ [Next]_vars => [Lock!Next]_(Lock!vars) BY LockStep
<1> QED BY <1>1, <1>2, Invariant, PTL DEF Spec, ImplementsLock, Lock!Spec
=============================================================================
