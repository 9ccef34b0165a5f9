--------------------------- MODULE Operator_proofs ---------------------------
(* Theorems about Operator, for all sets of pods, claims and files and every *)
(* number of changes and faults.                                             *)
EXTENDS Operator, TLAPS

P == INSTANCE Claims_proofs

-----------------------------------------------------------------------------
(* What is proved of the claims alone, in the names of Operator *)

\* What Claims_proofs assumes of the constants holds of Operator's.
LEMMA ClaimsAssumed ==
  /\ MaxChanges \in Nat /\ MaxFaults \in Nat
  /\ IsFiniteSet(Claims) /\ Claims \cap Keys = {}
  /\ NoTarget \notin P!Targets
  /\ P!IsFiniteSet(Claims)
<1>1. P!Targets = C!Targets
  BY DEF P!Targets, C!Targets, P!Field, C!Field, P!Versions, C!Versions,
         P!Managers, C!Managers, P!Edited, C!Edited
<1>2. P!IsFiniteSet(Claims)
  BY ClaimsAssumption DEF P!IsFiniteSet, IsFiniteSet
<1> QED BY <1>1, <1>2, ClaimsAssumption, BoundsAssumption

\* The two instances of Claims talk of the same state ...
LEMMA SameState ==
  /\ P!TypeOK <=> C!TypeOK
  /\ P!TypeOK' <=> C!TypeOK'
  /\ \A t : (P!Guarded(t) <=> C!Guarded(t)) /\ (P!Guarded(t)' <=> C!Guarded(t)')
  /\ P!Idle = C!Idle /\ P!Absent = C!Absent /\ P!Empty = C!Empty
  /\ P!Jobs = C!Jobs
  /\ \A w, c : P!Written(w, c) = C!Written(w, c)
<1>1. P!Targets = C!Targets
  BY DEF P!Targets, C!Targets, P!Field, C!Field, P!Versions, C!Versions,
         P!Managers, C!Managers, P!Edited, C!Edited
<1>2. P!Jobs = C!Jobs /\ P!Copies = C!Copies
  BY DEF P!Jobs, C!Jobs, P!Copies, C!Copies, P!Contents, C!Contents,
         P!Composed, C!Composed, P!Phases, C!Phases, P!Versions, C!Versions,
         P!Edited, C!Edited
<1>3. (P!TypeOK <=> C!TypeOK) /\ (P!TypeOK' <=> C!TypeOK')
  BY <1>1, <1>2 DEF P!TypeOK, C!TypeOK, P!Versions, C!Versions
<1>4. \A t : (P!Guarded(t) <=> C!Guarded(t)) /\ (P!Guarded(t)' <=> C!Guarded(t)')
  BY DEF P!Guarded, C!Guarded, P!Holds, C!Holds, P!Leaving, C!Leaving
<1>5. P!Idle = C!Idle /\ P!Absent = C!Absent /\ P!Empty = C!Empty
  BY DEF P!Idle, C!Idle, P!Absent, C!Absent, P!Empty, C!Empty
<1>6. ASSUME NEW w, NEW c PROVE P!Written(w, c) = C!Written(w, c)
  BY DEF P!Written, C!Written, P!Manifest, C!Manifest, P!Applied, C!Applied,
         P!Posted, C!Posted, P!Valid, C!Valid, P!Owners, C!Owners, P!Empty, C!Empty,
         P!Cardinality, C!Cardinality
<1> QED BY <1>2, <1>3, <1>4, <1>5, <1>6

\* ... and of the same steps.
LEMMA SameSteps ==
  /\ \A t : P!Watch(t) \/ P!Reconciler(t) <=> C!Watch(t) \/ C!Reconciler(t)
  /\ \A c : C!CreateClaim(c) \/ C!ChangeSpec(c) \/ C!DeleteClaim(c)
            <=> P!CreateClaim(c) \/ P!ChangeSpec(c) \/ P!DeleteClaim(c)
  /\ \A k : C!ChangeStore(k) \/ C!EditTarget(k) <=> P!ChangeStore(k) \/ P!EditTarget(k)
  /\ P!DeleteTarget \/ P!Collect <=> C!DeleteTarget \/ C!Collect
<1>1. \A t : P!Watch(t) <=> C!Watch(t)
  BY DEF P!Watch, C!Watch, P!Requeue, C!Requeue
<1>2. ASSUME NEW t PROVE P!Reconciler(t) <=> C!Reconciler(t)
  <2> USE SameState DEF P!Fault, C!Fault, P!Return, C!Return, P!Requeue, C!Requeue,
                        P!AwaitChange, C!AwaitChange
  <2>1. P!Begin(t) <=> C!Begin(t)
    BY DEF P!Begin, C!Begin, P!EventOf, C!EventOf, P!EventAtOnce, C!EventAtOnce
  <2>2. P!AddFinalizer(t) <=> C!AddFinalizer(t)
    BY DEF P!AddFinalizer, C!AddFinalizer, P!Finalized, C!Finalized
  <2>3. P!GetTarget(t) <=> C!GetTarget(t)
    BY DEF P!GetTarget, C!GetTarget, P!Data, C!Data
  <2>4. P!ComposeFile(t) <=> C!ComposeFile(t)
    BY DEF P!ComposeFile, C!ComposeFile, P!FilesLeft, C!FilesLeft
  <2>5. P!Write(t) <=> C!Write(t)
    BY DEF P!Write, C!Write, P!FilesLeft, C!FilesLeft, P!Differs, C!Differs
  <2>6. P!NothingToWrite(t) <=> C!NothingToWrite(t)
    BY DEF P!NothingToWrite, C!NothingToWrite, P!FilesLeft, C!FilesLeft,
           P!Differs, C!Differs
  <2>7. P!Cleanup(t) <=> C!Cleanup(t)
    BY DEF P!Cleanup, C!Cleanup, P!Goto, C!Goto
  <2>8. P!RemoveFinalizer(t) <=> C!RemoveFinalizer(t)
    BY DEF P!RemoveFinalizer, C!RemoveFinalizer, P!Released, C!Released
  <2> QED BY <2>1, <2>2, <2>3, <2>4, <2>5, <2>6, <2>7, <2>8
          DEF P!Reconciler, C!Reconciler
<1>3. \A c : C!CreateClaim(c) \/ C!ChangeSpec(c) \/ C!DeleteClaim(c)
            <=> P!CreateClaim(c) \/ P!ChangeSpec(c) \/ P!DeleteClaim(c)
  BY DEF C!CreateClaim, C!ChangeSpec, C!DeleteClaim, C!Change,
         P!CreateClaim, P!ChangeSpec, P!DeleteClaim, P!Change
<1>4. \A k : C!ChangeStore(k) \/ C!EditTarget(k) <=> P!ChangeStore(k) \/ P!EditTarget(k)
  BY DEF C!ChangeStore, C!EditTarget, C!Change, C!Edited,
         P!ChangeStore, P!EditTarget, P!Change, P!Edited
<1>5. P!DeleteTarget \/ P!Collect <=> C!DeleteTarget \/ C!Collect
  BY DEF P!DeleteTarget, C!DeleteTarget, P!Change, C!Change, P!Collect, C!Collect,
         P!Owners, C!Owners
<1> QED BY <1>1, <1>2, <1>3, <1>4, <1>5

-----------------------------------------------------------------------------
(* Types, and what pods at rest have under way *)

\* What a pod starts from.
LEMMA StartType ==
  /\ C!Absent \in C!Copies /\ C!Idle \in C!Jobs /\ C!Idle.desired = C!Empty
  /\ DOMAIN C!Empty = {} /\ C!Idle.pc = "idle"
<1>1. P!Absent \in P!Copies /\ P!Idle \in P!Jobs /\ DOMAIN P!Empty = {}
  BY ClaimsAssumed, P!StartType
<1>2. P!Copies = C!Copies
  BY DEF P!Copies, C!Copies, P!Phases, C!Phases
<1> QED BY <1>1, <1>2, SameState DEF C!Idle

\* Types, what a task at rest has composed, and pods that do not work.
Basis == TypeOK /\ P!Rested /\ Resting

\* The operator starts with all three.
LEMMA BasisInit == Init => Basis
<1> SUFFICES ASSUME Init PROVE Basis
  OBVIOUS
<1>1. P!Init
  BY SameState DEF Init, C!Init, P!Init, P!Edited, C!Edited
<1>2. P!TypeOK BY <1>1, ClaimsAssumed, P!TypeInit
<1>3. P!Rested BY StartType, SameState DEF Init, C!Init, P!Rested
<1> QED BY <1>2, <1>3, SameState DEF Init, C!Init, L!Init, Basis, TypeOK, Resting

\* A step of the tasks keeps the types of the claims.
LEMMA WorkStep ==
  ASSUME C!TypeOK, P!Rested, NEW t \in Procs \X Claims,
         C!Watch(t) \/ C!Reconciler(t)
  PROVE  C!TypeOK' /\ P!Rested'
BY SameState, SameSteps, ClaimsAssumed, P!TaskStep

\* So does a step of the users, the stores and the garbage collector.
LEMMA WorldStep ==
  ASSUME C!TypeOK, P!Rested, World
  PROVE  C!TypeOK' /\ P!Rested'
<1>1. P!Environment \/ P!Collect
  BY SameSteps DEF World, P!Environment
<1> QED BY <1>1, SameState, ClaimsAssumed, P!EnvironmentStep

\* A step of the tasks changes one task, and what that task may change.
LEMMA WorkIsLocal ==
  ASSUME C!TypeOK, NEW t \in Procs \X Claims, C!Watch(t) \/ C!Reconciler(t)
  PROVE  \A u \in Procs \X Claims : u # t => cache'[u] = cache[u] /\ work'[u] = work[u]
BY SameState, SameSteps, ClaimsAssumed, P!StepIsLocal

\* It leaves the target and what it has composed alone, or composes one more
\* file from its store, or ends - perhaps with the write, which gives the
\* composed files and nothing else new contents.
LEMMA WorkEffects ==
  ASSUME C!TypeOK, NEW t \in Procs \X Claims, C!Watch(t) \/ C!Reconciler(t)
  PROVE  /\ UNCHANGED store
         /\ \/ UNCHANGED target /\ work'[t].desired = work[t].desired
            \/ /\ UNCHANGED target
               /\ \E k \in Keys : work'[t].desired =
                    [f \in DOMAIN work[t].desired \cup {k} |->
                       IF f = k THEN store[k] ELSE work[t].desired[f]]
            \/ /\ work'[t] = C!Idle
               /\ target' # target => \A k \in Keys \cap DOMAIN target' :
                    IF k \in DOMAIN work[t].desired
                    THEN target'[k].val = work[t].desired[k]
                    ELSE /\ target # NoTarget /\ k \in DOMAIN target
                         /\ target'[k].val = target[k].val
<1>1. CASE UNCHANGED target
  BY <1>1, SameState, SameSteps, ClaimsAssumed, P!StepOfTask
<1>2. CASE target' # target
  <2>1. P!TypeOK /\ UNCHANGED store /\ work'[t] = C!Idle
        /\ target' = P!Written(work[t], t[2])
    BY <1>2, SameState, SameSteps, ClaimsAssumed, P!StepOfTask
  <2> QED BY <1>2, <2>1, ClaimsAssumed, P!WrittenFiles
<1> QED BY <1>1, <1>2

\* A process that starts lists the claims there are, and writes nothing.
LEMMA StartStep ==
  ASSUME Basis, NEW p \in Procs, Begin(p)
  PROVE  /\ Basis'
         /\ working' = working \cup {p} /\ p \notin working
         /\ UNCHANGED <<claim, target, store, work, broken, owner>>
         /\ \A t \in Procs \X Claims :
              cache'[t] \in {cache[t], claim[t[2]], C!Absent}
<1> USE DEF Basis, TypeOK
<1>1. /\ working' = working \cup {p} /\ p \notin working
      /\ UNCHANGED <<claim, target, store, work, broken, owner, changes, faults>>
  BY DEF Begin, Starts, L!Begin
<1>2. \A t \in Procs \X Claims : t[1] \in Procs /\ t[2] \in Claims
  OBVIOUS
<1>3. cache' = [t \in Procs \X Claims |-> IF t[1] # p THEN cache[t]
                 ELSE IF t[2] \in Listed THEN claim[t[2]] ELSE C!Absent]
  BY DEF Begin, Starts
<1>4. cache' \in [Procs \X Claims -> C!Copies]
  BY <1>2, <1>3, StartType DEF C!TypeOK
<1>5. due' \subseteq Procs \X Claims
  BY DEF Begin, Starts, Listed, C!TypeOK
<1>6. C!TypeOK' BY <1>1, <1>4, <1>5 DEF C!TypeOK
<1>7. P!Rested' BY <1>1 DEF P!Rested
<1>8. Resting' BY <1>1, <1>3 DEF Resting
<1> QED BY <1>1, <1>3, <1>6, <1>7, <1>8

\* An ended process loses its copies and tasks; the claims stay.
LEMMA EndStep ==
  ASSUME Basis, NEW p \in Procs, End(p)
  PROVE  /\ Basis'
         /\ working' = working \ {p}
         /\ UNCHANGED <<claim, target, store, broken, owner>>
         /\ \A t \in Procs \X Claims :
              \/ work'[t] = C!Idle /\ cache'[t] = C!Absent
              \/ work'[t] = work[t] /\ cache'[t] = cache[t]
<1> USE DEF Basis, TypeOK
<1>1. /\ working' = working \ {p}
      /\ UNCHANGED <<claim, target, store, broken, owner, changes>>
  BY DEF End, L!End
<1>2. /\ cache' = [t \in Procs \X Claims |-> IF t[1] = p THEN C!Absent ELSE cache[t]]
      /\ work' = [t \in Procs \X Claims |-> IF t[1] = p THEN C!Idle ELSE work[t]]
  BY DEF End
<1>3. due' \subseteq Procs \X Claims /\ faults' \in 0 .. MaxFaults
  BY BoundsAssumption DEF End, C!Fault, C!TypeOK
<1>4. /\ cache' \in [Procs \X Claims -> C!Copies]
      /\ work' \in [Procs \X Claims -> C!Jobs]
  BY <1>2, StartType DEF C!TypeOK
<1>5. \A t \in Procs \X Claims : work'[t] \in {C!Idle, work[t]} BY <1>2
<1>6. \A t \in Procs \X Claims : DOMAIN work'[t].desired \subseteq work'[t].claim.spec
  BY <1>5, StartType DEF C!TypeOK
<1>7. C!TypeOK' BY <1>1, <1>3, <1>4, <1>6 DEF C!TypeOK
<1>8. P!Rested' BY <1>1, <1>5, StartType, SameState DEF P!Rested
<1>9. Resting' BY <1>1, <1>2 DEF Resting
<1> QED BY <1>1, <1>2, <1>7, <1>8, <1>9

\* The types, in every state.
THEOREM BasisKept == Spec => []Basis
<1>1. Init => Basis BY BasisInit
<1>2. Basis /\ [Next]_vars => Basis'
  <2> SUFFICES ASSUME Basis, [Next]_vars PROVE Basis'
    OBVIOUS
  <2>1. ASSUME UNCHANGED claimVars, owner' \in Procs \cup {Nobody},
               UNCHANGED <<working, broken>>
        PROVE  Basis'
    BY <2>1 DEF Basis, TypeOK, Resting, C!TypeOK, P!Rested, claimVars
  <2>2. CASE Release \/ \E p \in Procs : Acquire(p)
    BY <2>1, <2>2 DEF Release, Acquire, L!Release, L!Acquire
  <2>3. CASE Break
    <3>1. faults' \in 0 .. MaxFaults
      BY <2>3, BoundsAssumption DEF Break, C!Fault, Basis, TypeOK, C!TypeOK
    <3> QED BY <2>3, <3>1 DEF Break, Basis, TypeOK, C!TypeOK, P!Rested, Resting
  <2>4. CASE World
    <3>1. C!TypeOK' /\ P!Rested' BY <2>4, WorldStep DEF Basis, TypeOK
    <3>2. UNCHANGED <<cache, work>>
      BY <2>4 DEF World, C!CreateClaim, C!ChangeSpec, C!DeleteClaim, C!ChangeStore,
                  C!EditTarget, C!DeleteTarget, C!Collect
    <3> QED BY <2>4, <3>1, <3>2 DEF World, lockVars, Basis, TypeOK, Resting
  <2>5. ASSUME NEW p \in Procs, Work(p) PROVE Basis'
    <3>1. PICK c \in Claims : C!Watch(<<p, c>>) \/ C!Reconciler(<<p, c>>)
      BY <2>5 DEF Work
    <3>2. C!TypeOK' /\ P!Rested' BY <3>1, WorkStep DEF Basis, TypeOK
    <3>3. Resting'
      BY <2>5, <3>1, WorkIsLocal DEF Work, lockVars, Basis, TypeOK, Resting
    <3> QED BY <2>5, <3>2, <3>3 DEF Work, lockVars, Basis, TypeOK
  <2>6. CASE UNCHANGED vars BY <2>1, <2>6 DEF vars, lockVars, Basis, TypeOK
  <2> QED BY <2>2, <2>3, <2>4, <2>5, <2>6, StartStep, EndStep DEF Next
<1> QED BY <1>1, <1>2, PTL DEF Spec

\* Every variable of the operator keeps its type.
THEOREM TypeCorrect == Spec => []TypeOK
<1>1. Basis => TypeOK BY DEF Basis
<1> QED BY <1>1, BasisKept, PTL

-----------------------------------------------------------------------------
(* Until the lock breaks, its owner works alone *)

\* No step makes a second pod work, or a task and its finalizer fall apart.
LEMMA LockedStep ==
  ASSUME Basis, ~broken => Locked, [Next]_vars
  PROVE  ~broken' => Locked'
<1> SUFFICES ASSUME ~broken' PROVE Locked'
  OBVIOUS
<1> USE DEF Basis, TypeOK
<1>1. ~broken /\ Locked
  BY DEF Next, Release, Acquire, Begin, Starts, End, Break, Work, World, lockVars, vars
<1>2. ASSUME UNCHANGED <<claim, cache, work>>
      PROVE  \A t \in Procs \X Claims : C!Guarded(t)'
  BY <1>1, <1>2 DEF Locked, C!Guarded, C!Holds, C!Leaving
<1>3. CASE Release \/ Break \/ (\E p \in Procs : Acquire(p)) \/ UNCHANGED vars
  <2>1. working' \subseteq {owner'}
    BY <1>1, <1>3, NobodyAssumption
    DEF Locked, Release, Break, Acquire, L!Release, L!Acquire, vars, lockVars
  <2> QED BY <1>2, <1>3, <2>1
          DEF Locked, Release, Break, Acquire, vars, claimVars
<1>4. ASSUME NEW p \in Procs, Begin(p) PROVE Locked'
  <2>1. working' \subseteq {owner'}
    BY <1>1, <1>4 DEF Locked, Begin, Starts, L!Begin
  <2>2. ASSUME NEW t \in Procs \X Claims PROVE C!Guarded(t)'
    <3>1. /\ cache'[t] \in {cache[t], claim[t[2]], C!Absent}
          /\ UNCHANGED <<claim, work>>
      BY <1>4, StartStep
    <3>2. C!Absent.phase = "absent" BY DEF C!Absent
    <3>3. CASE cache'[t] = cache[t]
      BY <1>1, <3>1, <3>3 DEF Locked, C!Guarded, C!Holds, C!Leaving
    <3>4. CASE cache'[t] # cache[t]
      <4>1. t[1] \notin working /\ work[t].pc = "idle"
        BY <1>4, <3>4, StartType DEF Begin, Starts, Resting
      <4> QED BY <3>1, <3>2, <3>4, <4>1 DEF C!Guarded, C!Holds, C!Leaving
    <3> QED BY <3>3, <3>4
  <2> QED BY <2>1, <2>2 DEF Locked
<1>5. ASSUME NEW p \in Procs, End(p) PROVE Locked'
  <2>1. working' \subseteq {owner'} BY <1>1, <1>5, EndStep DEF Locked
  <2>2. ASSUME NEW t \in Procs \X Claims PROVE C!Guarded(t)'
    <3>1. C!Absent.phase = "absent" /\ ~C!Absent.finalizer BY DEF C!Absent
    <3> QED BY <1>1, <1>5, <3>1, EndStep, StartType
            DEF Locked, C!Guarded, C!Holds, C!Leaving
  <2> QED BY <2>1, <2>2 DEF Locked
<1>6. CASE World
  <2>1. P!Environment \/ P!Collect BY <1>6, SameSteps DEF World, P!Environment
  <2>2. \A t \in Procs \X Claims : C!Guarded(t)'
    BY <1>1, <2>1, SameState, ClaimsAssumed, P!GuardedEnvironment DEF Locked
  <2> QED BY <1>1, <1>6, <2>2 DEF World, lockVars, Locked
<1>7. ASSUME NEW p \in Procs, Work(p) PROVE Locked'
  <2>1. PICK c \in Claims : C!Watch(<<p, c>>) \/ C!Reconciler(<<p, c>>)
    BY <1>7 DEF Work
  <2>2. P!Alone(<<p, c>>)
    <3>1. \A u \in (Procs \X Claims) \ {<<p, c>>} :
            u[2] = c => u[1] \notin working
      BY <1>1, <1>7 DEF Locked, Work
    <3> QED BY <3>1, StartType, SameState DEF P!Alone, Resting
  <2>3. \A t \in Procs \X Claims : C!Guarded(t)'
    BY <1>1, <2>1, <2>2, SameState, SameSteps, ClaimsAssumed, P!GuardedTask DEF Locked
  <2> QED BY <1>1, <1>7, <2>3 DEF Work, lockVars, Locked
<1> QED BY <1>3, <1>4, <1>5, <1>6, <1>7 DEF Next

-----------------------------------------------------------------------------
(* Contents only get newer *)

\* What a task has fetched, and what is written, is a content of its store.
LEMMA ServedStep ==
  ASSUME Basis, Fetched, Served, [Next]_vars
  PROVE  Fetched' /\ Served'
<1> USE DEF Basis, TypeOK
<1>1. /\ store \in [Keys -> 0 .. MaxChanges]
      /\ \A t \in Procs \X Claims : \A k \in DOMAIN work[t].desired :
           k \in Keys /\ work[t].desired[k] \in 0 .. MaxChanges
  BY DEF C!TypeOK, C!Versions, C!Jobs, C!Composed
<1>2. target # NoTarget =>
        \A k \in DOMAIN target : target[k].val \in (0 .. MaxChanges) \cup {-1}
  BY DEF C!TypeOK, C!Targets, C!Field, C!Versions, C!Edited
<1>3. ASSUME UNCHANGED <<target, store>>,
             \A t \in Procs \X Claims : work'[t] \in {work[t], C!Idle}
      PROVE  Fetched' /\ Served'
  BY <1>3, StartType DEF Fetched, Served
<1>4. CASE Release \/ Break \/ (\E p \in Procs : Acquire(p)) \/ UNCHANGED vars
  BY <1>3, <1>4 DEF Release, Break, Acquire, vars, claimVars
<1>5. CASE \E p \in Procs : Begin(p) \/ End(p)
  BY <1>3, <1>5, StartStep, EndStep
<1>6. CASE World
  <2>1. CASE \E c \in Claims : C!CreateClaim(c) \/ C!ChangeSpec(c) \/ C!DeleteClaim(c)
    BY <1>3, <2>1 DEF C!CreateClaim, C!ChangeSpec, C!DeleteClaim
  <2>2. ASSUME NEW k \in Keys, C!ChangeStore(k) PROVE Fetched' /\ Served'
    <3>1. /\ store' = [store EXCEPT ![k] = store[k] + 1]
          /\ UNCHANGED <<target, work>>
      BY <2>2 DEF C!ChangeStore
    <3>2. \A f \in Keys : store'[f] \in Int /\ store[f] \in Int /\ store[f] <= store'[f]
      BY <1>1, <3>1, BoundsAssumption
    <3>3. Fetched' BY <1>1, <3>1, <3>2 DEF Fetched
    <3>4. Served' BY <1>2, <3>1, <3>2 DEF Served
    <3> QED BY <3>3, <3>4
  <2>3. ASSUME NEW k \in Keys, C!EditTarget(k) PROVE Fetched' /\ Served'
    <3>1. /\ target # NoTarget /\ UNCHANGED <<store, work>>
          /\ \A f \in DOMAIN target' :
               \/ target'[f].val = -1
               \/ f \in DOMAIN target /\ target'[f] = target[f]
      BY <2>3 DEF C!EditTarget, C!Edited
    <3>2. Fetched' BY <3>1 DEF Fetched
    <3>3. Served' BY <1>1, <3>1 DEF Served
    <3> QED BY <3>2, <3>3
  <2>4. CASE C!DeleteTarget \/ C!Collect
    BY <2>4 DEF C!DeleteTarget, C!Collect, Fetched, Served
  <2> QED BY <1>6, <2>1, <2>2, <2>3, <2>4 DEF World
<1>7. ASSUME NEW p \in Procs, Work(p) PROVE Fetched' /\ Served'
  <2>1. PICK c \in Claims : C!Watch(<<p, c>>) \/ C!Reconciler(<<p, c>>)
    BY <1>7 DEF Work
  <2> DEFINE t == <<p, c>>
  <2>2. t \in Procs \X Claims /\ (C!Watch(t) \/ C!Reconciler(t)) BY <2>1
  <2> HIDE DEF t
  <2>3. UNCHANGED store BY <2>2, WorkEffects
  <2>4. \A u \in (Procs \X Claims) \ {t} : work'[u] = work[u]
    BY <2>2, WorkIsLocal
  <2>5. \A k \in DOMAIN work'[t].desired : work'[t].desired[k] <= store[k]
    <3>1. CASE work'[t].desired = work[t].desired BY <2>2, <3>1 DEF Fetched
    <3>2. CASE work'[t].desired = C!Empty BY <3>2, StartType
    <3>3. ASSUME NEW f \in Keys,
                 work'[t].desired = [k \in DOMAIN work[t].desired \cup {f} |->
                   IF k = f THEN store[f] ELSE work[t].desired[k]]
          PROVE  \A k \in DOMAIN work'[t].desired : work'[t].desired[k] <= store[k]
      <4>1. store[f] <= store[f] BY <1>1
      <4> QED BY <2>2, <3>3, <4>1 DEF Fetched
    <3> QED BY <2>2, <3>1, <3>2, <3>3, StartType, WorkEffects
  <2>6. target' # NoTarget => \A k \in Keys \cap DOMAIN target' : target'[k].val <= store[k]
    BY <2>2, WorkEffects DEF Fetched, Served
  <2> QED BY <2>3, <2>4, <2>5, <2>6 DEF Fetched, Served
<1> QED BY <1>4, <1>5, <1>6, <1>7 DEF Next

\* While the lock keeps and there is one claim, nobody but the task that writes
\* has fetched anything.
LEMMA FreshStep ==
  ASSUME Basis, OneClaim, Served, ~broken => Locked /\ Fresh, [Next]_vars
  PROVE  ~broken' => Fresh'
<1> SUFFICES ASSUME ~broken' PROVE Fresh'
  OBVIOUS
<1> USE DEF Basis, TypeOK
<1>1. ~broken /\ Locked /\ Fresh
  BY DEF Next, Release, Acquire, Begin, Starts, End, Break, Work, World, lockVars, vars
<1>2. /\ \A t \in Procs \X Claims : \A k \in DOMAIN work[t].desired :
           k \in Keys /\ work[t].desired[k] \in 0 .. MaxChanges
  BY DEF C!TypeOK, C!Versions, C!Jobs, C!Composed
<1>3. ASSUME UNCHANGED target,
             \A t \in Procs \X Claims : work'[t] \in {work[t], C!Idle}
      PROVE  Fresh'
  BY <1>1, <1>3, StartType DEF Fresh
<1>4. CASE Release \/ Break \/ (\E p \in Procs : Acquire(p)) \/ UNCHANGED vars
  BY <1>3, <1>4 DEF Release, Break, Acquire, vars, claimVars
<1>5. CASE \E p \in Procs : Begin(p) \/ End(p)
  BY <1>3, <1>5, StartStep, EndStep
<1>6. CASE World
  <2>1. CASE \/ \E c \in Claims : C!CreateClaim(c) \/ C!ChangeSpec(c) \/ C!DeleteClaim(c)
             \/ \E k \in Keys : C!ChangeStore(k)
    BY <1>3, <2>1 DEF C!CreateClaim, C!ChangeSpec, C!DeleteClaim, C!ChangeStore
  <2>2. ASSUME NEW k \in Keys, C!EditTarget(k) PROVE Fresh'
    <3>1. /\ target # NoTarget /\ UNCHANGED work
          /\ \A f \in DOMAIN target' :
               \/ target'[f].val = -1
               \/ f \in DOMAIN target /\ target'[f] = target[f]
      BY <2>2 DEF C!EditTarget, C!Edited
    <3> QED BY <1>1, <1>2, <3>1 DEF Fresh
  <2>3. CASE C!DeleteTarget \/ C!Collect
    BY <2>3 DEF C!DeleteTarget, C!Collect, Fresh
  <2> QED BY <1>6, <2>1, <2>2, <2>3 DEF World
<1>7. ASSUME NEW p \in Procs, Work(p) PROVE Fresh'
  <2>1. PICK c \in Claims : C!Watch(<<p, c>>) \/ C!Reconciler(<<p, c>>)
    BY <1>7 DEF Work
  <2> DEFINE t == <<p, c>>
  <2>2. t \in Procs \X Claims /\ (C!Watch(t) \/ C!Reconciler(t)) BY <2>1
  <2>3. \A u \in (Procs \X Claims) \ {t} :
          DOMAIN work'[u].desired = {} /\ work'[u] = work[u]
    <3>1. \A u \in (Procs \X Claims) \ {t} : u[1] \notin working
      BY <1>1, <1>7 DEF Locked, Work, OneClaim
    <3> QED BY <2>2, <3>1, StartType, WorkIsLocal DEF Resting
  <2> HIDE DEF t
  <2>4. target # NoTarget => \A k \in DOMAIN work[t].desired \cap DOMAIN target :
          target[k].val <= work[t].desired[k]
    BY <1>1, <2>2 DEF Fresh
  <2>5. target' # NoTarget => \A k \in DOMAIN work'[t].desired \cap DOMAIN target' :
          target'[k].val <= work'[t].desired[k]
    <3>1. CASE UNCHANGED target /\ work'[t].desired = work[t].desired BY <2>4, <3>1
    <3>2. CASE work'[t].desired = C!Empty BY <3>2, StartType
    <3>3. ASSUME UNCHANGED target, NEW f \in Keys,
                 work'[t].desired = [k \in DOMAIN work[t].desired \cup {f} |->
                   IF k = f THEN store[f] ELSE work[t].desired[k]]
          PROVE  target' # NoTarget =>
                   \A k \in DOMAIN work'[t].desired \cap DOMAIN target' :
                     target'[k].val <= work'[t].desired[k]
      BY <2>4, <3>3 DEF Served
    <3> QED BY <2>2, <3>1, <3>2, <3>3, StartType, WorkEffects
  <2> QED BY <2>3, <2>5 DEF Fresh
<1> QED BY <1>4, <1>5, <1>6, <1>7 DEF Next

-----------------------------------------------------------------------------
(* The lives of claims, and the edits of users *)

\* A step of a task leaves all claims where they stand, or makes one that
\* exists vanish; the step that writes leaves the claims alone.
LEMMA LifeOfTask ==
  ASSUME C!TypeOK, Finalizers, NEW t \in Procs \X Claims, C!Watch(t) \/ C!Reconciler(t)
  PROVE  /\ Finalizers'
         /\ target' # target => UNCHANGED claim
         /\ \/ \A c \in Claims : claim'[c].phase = claim[c].phase
            \/ /\ claim[t[2]].phase \in {"live", "deleting"}
               /\ \A c \in Claims : claim'[c].phase =
                    IF c = t[2] THEN "gone" ELSE claim[c].phase
<1>1. /\ claim \in [Claims -> C!Copies] /\ t[2] \in Claims
      /\ \A c \in Claims : claim[c].finalizer \in BOOLEAN
  BY DEF C!TypeOK, C!Copies
<1>2. CASE UNCHANGED claim BY <1>2 DEF Finalizers
<1>3. CASE claim' # claim /\ claim' = C!Finalized(t[2])
  <2>1. claim[t[2]].phase = "live" /\ claim' = [claim EXCEPT ![t[2]].finalizer = TRUE]
    BY <1>3 DEF C!Finalized
  <2>2. \A c \in Claims : claim'[c].phase = claim[c].phase
                          /\ (c # t[2] => claim'[c] = claim[c])
    BY <1>1, <2>1 DEF C!Copies
  <2>3. Finalizers' BY <2>1, <2>2 DEF Finalizers
  <2>4. UNCHANGED target
    BY <1>3 DEF C!Watch, C!Reconciler, C!Begin, C!AddFinalizer, C!GetTarget,
                C!ComposeFile, C!Write, C!NothingToWrite, C!Cleanup, C!RemoveFinalizer
  <2> QED BY <2>2, <2>3, <2>4
<1>4. CASE claim' # claim /\ claim' = C!Released(t[2])
  <2>1. /\ claim[t[2]].finalizer
        /\ claim' = [claim EXCEPT ![t[2]].finalizer = FALSE, ![t[2]].phase = "gone"]
    BY <1>4 DEF C!Released
  <2>2. \A c \in Claims :
          IF c = t[2] THEN claim'[c].phase = "gone" /\ claim'[c].finalizer = FALSE
          ELSE claim'[c] = claim[c]
    BY <1>1, <2>1 DEF C!Copies
  <2>3. Finalizers' BY <2>2 DEF Finalizers
  <2>4. UNCHANGED target
    BY <1>4 DEF C!Watch, C!Reconciler, C!Begin, C!AddFinalizer, C!GetTarget,
                C!ComposeFile, C!Write, C!NothingToWrite, C!Cleanup, C!RemoveFinalizer
  <2> QED BY <1>1, <2>1, <2>2, <2>3, <2>4 DEF Finalizers
<1>5. claim' \in {claim, C!Finalized(t[2]), C!Released(t[2])}
  BY DEF C!Watch, C!Reconciler, C!Begin, C!AddFinalizer, C!GetTarget, C!ComposeFile,
         C!Write, C!NothingToWrite, C!Cleanup, C!RemoveFinalizer
<1> QED BY <1>2, <1>3, <1>4, <1>5

\* A claim is created, leaves or stays, whatever users do.
LEMMA LifeOfWorld ==
  ASSUME C!TypeOK, Finalizers, NEW c \in Claims,
         C!CreateClaim(c) \/ C!ChangeSpec(c) \/ C!DeleteClaim(c)
  PROVE  /\ Finalizers'
         /\ \A d \in Claims \ {c} : claim'[d] = claim[d]
         /\ \/ claim[c].phase = "absent" /\ claim'[c].phase = "live"
            \/ claim[c].phase = "live" /\ claim'[c].phase \in {"live", "deleting", "gone"}
<1>1. claim \in [Claims -> C!Copies] BY DEF C!TypeOK
<1>2. CASE C!CreateClaim(c)
  <2>1. PICK S \in SUBSET Keys :
          claim' = [claim EXCEPT ![c].phase = "live", ![c].spec = S]
    BY <1>2 DEF C!CreateClaim
  <2>2. /\ \A d \in Claims \ {c} : claim'[d] = claim[d]
        /\ claim'[c].phase = "live"
    BY <1>1, <2>1 DEF C!Copies
  <2> QED BY <1>2, <2>2 DEF C!CreateClaim, Finalizers
<1>3. CASE C!ChangeSpec(c)
  <2>1. PICK S : claim' = [claim EXCEPT ![c].spec = S]
    BY <1>3 DEF C!ChangeSpec
  <2>2. /\ \A d \in Claims \ {c} : claim'[d] = claim[d]
        /\ claim'[c].phase = claim[c].phase
    BY <1>1, <2>1 DEF C!Copies
  <2> QED BY <1>3, <2>2 DEF C!ChangeSpec, Finalizers
<1>4. CASE C!DeleteClaim(c)
  <2>1. claim' = [claim EXCEPT ![c].phase =
                    IF claim[c].finalizer THEN "deleting" ELSE "gone"]
    BY <1>4 DEF C!DeleteClaim
  <2>2. /\ \A d \in Claims \ {c} : claim'[d] = claim[d]
        /\ claim'[c].phase = IF claim[c].finalizer THEN "deleting" ELSE "gone"
        /\ claim'[c].finalizer = claim[c].finalizer
    BY <1>1, <2>1 DEF C!Copies
  <2> QED BY <1>4, <2>2 DEF C!DeleteClaim, Finalizers
<1> QED BY <1>2, <1>3, <1>4

\* A write is for a claim whose task composes; it makes the target exist, and
\* a file that only a user has set stays, unless it is composed.
LEMMA Writing ==
  ASSUME C!TypeOK, NEW t \in Procs \X Claims, C!Watch(t) \/ C!Reconciler(t),
         target' # target
  PROVE  /\ target' # NoTarget /\ work[t].pc = "compose"
         /\ DOMAIN work[t].desired \subseteq DOMAIN target'
         /\ target # NoTarget => \A k \in (Keys \cap DOMAIN target) \ DOMAIN work[t].desired :
              target[k].by = {"user"} => k \in DOMAIN target' /\ target'[k] = target[k]
<1>1. P!TypeOK /\ work[t].pc = "compose" /\ target' = P!Written(work[t], t[2])
  BY SameState, SameSteps, ClaimsAssumed, P!StepOfTask
<1>2. target' \in P!Targets BY <1>1, ClaimsAssumed, P!WrittenType
<1>3. DOMAIN work[t].desired \subseteq DOMAIN target'
  BY <1>1, ClaimsAssumed, P!WrittenNames
<1>4. ASSUME target # NoTarget,
             NEW k \in (Keys \cap DOMAIN target) \ DOMAIN work[t].desired,
             target[k].by = {"user"}
      PROVE  k \in DOMAIN target' /\ target'[k] = target[k]
  BY <1>1, <1>4, ClaimsAssumed, P!WrittenKeeps
<1> QED BY <1>1, <1>2, <1>3, <1>4, ClaimsAssumed

\* Only existing claims have the finalizer, and only users' edits are edited.
LEMMA EditsStep ==
  ASSUME Basis, Finalizers, UserEdits, [Next]_vars
  PROVE  Finalizers' /\ UserEdits'
<1> USE DEF Basis, TypeOK
<1>1. CASE UNCHANGED <<claim, target>>
  BY <1>1 DEF Finalizers, UserEdits
<1>2. CASE \/ Release \/ Break \/ UNCHANGED vars
           \/ \E p \in Procs : Acquire(p) \/ Begin(p) \/ End(p)
  BY <1>1, <1>2, StartStep, EndStep DEF Release, Break, Acquire, vars, claimVars
<1>3. CASE World
  <2>1. ASSUME NEW c \in Claims, C!CreateClaim(c) \/ C!ChangeSpec(c) \/ C!DeleteClaim(c)
        PROVE  Finalizers' /\ UserEdits'
    <3>1. UNCHANGED target BY <2>1 DEF C!CreateClaim, C!ChangeSpec, C!DeleteClaim
    <3> QED BY <2>1, <3>1, LifeOfWorld DEF UserEdits
  <2>2. ASSUME NEW k \in Keys, C!EditTarget(k) PROVE Finalizers' /\ UserEdits'
    <3>1. /\ target # NoTarget /\ UNCHANGED claim
          /\ \A f \in DOMAIN target' :
               \/ target'[f] = [val |-> C!Edited, by |-> {"user"}]
               \/ f \in DOMAIN target /\ target'[f] = target[f]
      BY <2>2 DEF C!EditTarget
    <3> QED BY <3>1 DEF Finalizers, UserEdits
  <2>3. CASE C!DeleteTarget \/ C!Collect
    BY <2>3 DEF C!DeleteTarget, C!Collect, Finalizers, UserEdits
  <2>4. CASE \E k \in Keys : C!ChangeStore(k)
    BY <1>1, <2>4 DEF C!ChangeStore
  <2> QED BY <1>3, <2>1, <2>2, <2>3, <2>4 DEF World
<1>4. ASSUME NEW p \in Procs, Work(p) PROVE Finalizers' /\ UserEdits'
  <2>1. PICK c \in Claims : C!Watch(<<p, c>>) \/ C!Reconciler(<<p, c>>)
    BY <1>4 DEF Work
  <2> DEFINE t == <<p, c>>
  <2>2. t \in Procs \X Claims /\ (C!Watch(t) \/ C!Reconciler(t)) BY <2>1
  <2> HIDE DEF t
  <2>3. Finalizers' BY <2>2, LifeOfTask
  <2>4. CASE target' # target
    <3> SUFFICES ASSUME target' # NoTarget, NEW k \in Keys \cap DOMAIN target',
                        target'[k].val = C!Edited
                 PROVE  target'[k].by = {"user"}
      BY <2>3 DEF UserEdits
    <3>1. k \in DOMAIN work[t].desired => work[t].desired[k] \in 0 .. MaxChanges
      BY <2>2 DEF C!TypeOK, C!Jobs, C!Composed, C!Versions
    <3>2. k \notin DOMAIN work[t].desired /\ target # NoTarget /\ k \in DOMAIN target
          /\ target[k].val = C!Edited
      BY <2>2, <2>4, <3>1, WorkEffects, BoundsAssumption DEF C!Edited
    <3> QED BY <2>2, <2>4, <3>2, Writing DEF UserEdits
  <2> QED BY <2>3, <2>4 DEF UserEdits
<1> QED BY <1>2, <1>3, <1>4 DEF Next

-----------------------------------------------------------------------------
(* The theorems *)

\* A pod that does not work has nothing under way; until the lock breaks, the
\* finalizer is on a claim that a task is to write, and what that task has
\* fetched is no older than what the target has.
THEOREM Invariant == Spec => []Inv
<1> DEFINE Kept == /\ Fetched /\ Served /\ Finalizers /\ UserEdits
                   /\ (~broken => Locked /\ (OneClaim => Fresh))
<1>1. Init => Kept
  <2> SUFFICES ASSUME Init PROVE Kept
    OBVIOUS
  <2>1. target # NoTarget => \A k \in Keys \cap DOMAIN target : target[k].val = -1
    BY DEF Init, C!Init, C!Edited
  <2>2. \A t \in Procs \X Claims : work[t] = C!Idle /\ cache[t] = C!Absent
    BY DEF Init, C!Init
  <2>3. \A t \in Procs \X Claims : C!Guarded(t)
    BY <2>2, StartType DEF C!Guarded, C!Absent
  <2>4. Served BY <2>1 DEF Served, Init, C!Init
  <2>5. Fetched /\ Fresh BY <2>2, StartType DEF Fetched, Fresh
  <2>6. Locked BY <2>3 DEF Locked, Init, L!Init
  <2>7. Finalizers BY DEF Finalizers, Init, C!Init, C!Absent
  <2>8. UserEdits BY DEF UserEdits, Init, C!Init
  <2> QED BY <2>4, <2>5, <2>6, <2>7, <2>8
<1>2. Basis /\ Kept /\ [Next]_vars => Kept'
  <2> SUFFICES ASSUME Basis, Kept, [Next]_vars PROVE Kept'
    OBVIOUS
  <2>1. Fetched' /\ Served' BY ServedStep
  <2>2. ~broken' => Locked' BY LockedStep
  <2>3. OneClaim => (~broken' => Fresh') BY FreshStep
  <2>4. Finalizers' /\ UserEdits' BY EditsStep
  <2> QED BY <2>1, <2>2, <2>3, <2>4 DEF OneClaim
<1>3. Basis /\ Kept => Inv BY DEF Basis, Inv
<1> QED BY <1>1, <1>2, <1>3, BasisKept, PTL DEF Spec

\* Until the lock breaks, no pod writes for a claim that is gone, whatever pods
\* end and take over.
THEOREM NoLateWrites == Spec => WritesForExistingClaims
<1>1. Inv /\ [Next]_vars =>
        [~broken => \A t \in Procs \X Claims :
           work[t].pc = "compose" /\ work'[t].pc = "idle" /\ target' # target
             => claim[t[2]].phase \in {"live", "deleting"}]_vars
  BY DEF Inv, Locked, C!Guarded, C!Holds
<1> QED BY <1>1, Invariant, PTL DEF Spec, WritesForExistingClaims

\* Until the lock breaks, no file of a target with one claim goes back to an
\* older content, whatever pods end and take over between fetch and write.
THEOREM NothingGoesBack == ASSUME OneClaim PROVE Spec => FilesGoForward
<1>1. Basis /\ Inv /\ [Next]_vars =>
        [~broken /\ target # NoTarget /\ target' # NoTarget =>
           \A k \in Keys \cap DOMAIN target \cap DOMAIN target' :
             target'[k].val # C!Edited => target'[k].val >= target[k].val]_vars
  <2> SUFFICES ASSUME Basis, Inv, [Next]_vars, ~broken,
                      target # NoTarget, target' # NoTarget,
                      NEW k \in Keys \cap DOMAIN target \cap DOMAIN target',
                      target'[k].val # C!Edited
               PROVE  target'[k].val >= target[k].val
    OBVIOUS
  <2> USE DEF Basis, TypeOK
  <2>1. Fresh BY DEF Inv
  <2>2. target[k].val \in Int
    BY DEF C!TypeOK, C!Targets, C!Field, C!Versions, C!Edited
  <2>3. CASE target'[k] = target[k] BY <2>2, <2>3
  <2>4. CASE World
    <3>1. target'[k] = target[k]
      <4>1. CASE \E f \in Keys : C!EditTarget(f)
        BY <4>1 DEF C!EditTarget
      <4>2. CASE \/ C!DeleteTarget \/ C!Collect \/ \E f \in Keys : C!ChangeStore(f)
                 \/ \E c \in Claims :
                      C!CreateClaim(c) \/ C!ChangeSpec(c) \/ C!DeleteClaim(c)
        BY <4>2 DEF C!CreateClaim, C!ChangeSpec, C!DeleteClaim, C!ChangeStore,
                    C!DeleteTarget, C!Collect
      <4> QED BY <2>4, <4>1, <4>2 DEF World
    <3> QED BY <2>3, <3>1
  <2>5. ASSUME NEW p \in Procs, Work(p) PROVE target'[k].val >= target[k].val
    <3>1. PICK c \in Claims : C!Watch(<<p, c>>) \/ C!Reconciler(<<p, c>>)
      BY <2>5 DEF Work
    <3> DEFINE t == <<p, c>>
    <3>2. t \in Procs \X Claims /\ (C!Watch(t) \/ C!Reconciler(t)) BY <3>1
    <3> HIDE DEF t
    <3>3. k \in DOMAIN work[t].desired =>
            target[k].val <= work[t].desired[k] /\ work[t].desired[k] \in Int
      BY <2>1, <3>2 DEF Fresh, C!TypeOK, C!Jobs, C!Composed, C!Versions
    <3> QED BY <2>2, <3>2, <3>3, WorkEffects
  <2>6. CASE Release \/ Break \/ (\E p \in Procs : Acquire(p)) \/ UNCHANGED vars
    BY <2>3, <2>6 DEF Release, Break, Acquire, vars, claimVars
  <2>7. CASE \E p \in Procs : Begin(p) \/ End(p)
    BY <2>3, <2>7, StartStep, EndStep
  <2> QED BY <2>4, <2>5, <2>6, <2>7 DEF Next
<1> QED BY <1>1, BasisKept, Invariant, PTL DEF Spec, FilesGoForward

-----------------------------------------------------------------------------
(* The operator implements the abstract mirror *)

\* It starts as the mirror does.
LEMMA MirrorInit == Init => Mirror!Init
<1> SUFFICES ASSUME Init PROVE Mirror!Init
  OBVIOUS
<1>1. Lives = [c \in Claims |-> "absent"]
  BY DEF Lives, Init, C!Init, C!Absent
<1>2. /\ target # NoTarget => \A k \in DOMAIN target : target[k].val = -1
      /\ store = [k \in Keys |-> 0] /\ broken = FALSE
  BY DEF Init, C!Init, L!Init, C!Edited
<1>3. Files \in [Keys -> IF target # NoTarget THEN {-2, -1} ELSE {-2}]
  BY <1>2 DEF Files, NoFile
<1> QED BY <1>1, <1>2, <1>3 DEF Mirror!Init, Mirror!Missing, Mirror!Edited

\* What the target has for each file is a number.
LEMMA FilesType ==
  C!TypeOK => /\ Files \in [Keys -> Int]
              /\ store \in [Keys -> Int]
              /\ target # NoTarget => \A k \in DOMAIN target : target[k].val \in Int
<1> SUFFICES ASSUME C!TypeOK
             PROVE  /\ Files \in [Keys -> Int]
                    /\ store \in [Keys -> Int]
                    /\ target # NoTarget => \A k \in DOMAIN target : target[k].val \in Int
  OBVIOUS
<1>1. target # NoTarget => \A k \in DOMAIN target : target[k].val \in Int
  BY BoundsAssumption DEF C!TypeOK, C!Targets, C!Field, C!Versions, C!Edited
<1> QED BY <1>1, BoundsAssumption DEF Files, NoFile, C!TypeOK, C!Versions

\* A write is a step of the mirror.
LEMMA WriteMirrors ==
  ASSUME Basis, Basis', Inv, NEW t \in Procs \X Claims, C!Watch(t) \/ C!Reconciler(t),
         target' # target, UNCHANGED broken
  PROVE  Mirror!Mirror(t[2])
<1> USE DEF Basis, TypeOK
<1>1. t[2] \in Claims /\ UNCHANGED <<store, claim>>
  BY LifeOfTask, WorkEffects DEF Inv
<1>2. UNCHANGED Lives BY <1>1 DEF Lives
<1>3. broken \/ Lives[t[2]] = "here"
  BY <1>1, Writing DEF Inv, Locked, C!Guarded, C!Holds, Lives
<1>4. target' # NoTarget BY Writing
<1>5. Files' \in [Keys -> Int]
  <2>1. C!TypeOK' => (Files \in [Keys -> Int])' BY FilesType, PTL
  <2> QED BY <2>1
<1>6. ASSUME NEW k \in Keys
      PROVE  \/ Files'[k] = Files[k]
             \/ Files'[k] = -2 /\ Files[k] # -1
             \/ /\ Files'[k] \in 0 .. store[k]
                /\ ~broken /\ OneClaim => Files'[k] >= Files[k]
  <2>1. /\ Files[k] = IF target # NoTarget /\ k \in DOMAIN target
                      THEN target[k].val ELSE -2
        /\ Files'[k] = IF k \in DOMAIN target' THEN target'[k].val ELSE -2
    BY <1>4 DEF Files, NoFile
  <2>2. CASE k \in DOMAIN work[t].desired
    <3>1. k \in DOMAIN target' /\ target'[k].val = work[t].desired[k]
      BY <2>2, Writing, WorkEffects
    <3>2. work[t].desired[k] \in 0 .. MaxChanges /\ store[k] \in Int
      BY <2>2, FilesType DEF C!TypeOK, C!Jobs, C!Composed, C!Versions
    <3>3. work[t].desired[k] <= store[k] BY <2>2 DEF Inv, Fetched
    <3>4. ~broken /\ OneClaim /\ target # NoTarget /\ k \in DOMAIN target =>
            target[k].val <= work[t].desired[k]
      BY <2>2 DEF Inv, Fresh
    <3>5. target # NoTarget /\ k \in DOMAIN target => target[k].val \in Int
      BY FilesType
    <3> QED BY <2>1, <3>1, <3>2, <3>3, <3>4, <3>5, BoundsAssumption
  <2>3. CASE k \notin DOMAIN work[t].desired /\ k \in DOMAIN target'
    <3>1. target # NoTarget /\ k \in DOMAIN target /\ target'[k].val = target[k].val
      BY <2>3, StartType, WorkEffects
    <3> QED BY <2>1, <2>3, <3>1
  <2>4. CASE k \notin DOMAIN work[t].desired /\ k \notin DOMAIN target'
    <3>1. ASSUME target # NoTarget, k \in DOMAIN target PROVE target[k].val # -1
      BY <2>4, <3>1, Writing DEF Inv, UserEdits, C!Edited
    <3> QED BY <2>1, <2>4, <3>1
  <2> QED BY <2>2, <2>3, <2>4
<1> QED BY <1>1, <1>2, <1>3, <1>4, <1>5, <1>6
        DEF Mirror!Mirror, Mirror!Reflects, Mirror!OneClaim, OneClaim,
            Mirror!Missing, Mirror!Edited

\* Every step of the operator is a step of the mirror, or does not show.
LEMMA MirrorStep ==
  ASSUME Basis, Basis', Inv, [Next]_vars
  PROVE  [Mirror!Next]_(Mirror!vars)
<1> USE DEF Basis, TypeOK
<1>1. ASSUME UNCHANGED <<claim, target, store>>, UNCHANGED broken
      PROVE  UNCHANGED Mirror!vars
  BY <1>1 DEF Mirror!vars, Lives, Files
<1>2. CASE \/ Release \/ UNCHANGED vars
           \/ \E p \in Procs : Acquire(p) \/ Begin(p) \/ End(p)
  BY <1>1, <1>2, StartStep, EndStep DEF Release, Acquire, vars, claimVars, lockVars
<1>3. CASE Break
  <2>1. UNCHANGED <<Lives, store, target, Files>> /\ ~broken /\ broken'
    BY <1>3 DEF Break, Lives, Files
  <2> QED BY <1>3, <2>1 DEF Break, Mirror!Next, Mirror!Break
<1>4. \A c \in Claims : Lives[c] = IF claim[c].phase \in {"live", "deleting"} THEN "here"
                                 ELSE claim[c].phase
  BY DEF Lives
<1>5. CASE World
  <2>1. UNCHANGED broken BY <1>5 DEF World, lockVars
  <2>2. ASSUME NEW c \in Claims, C!CreateClaim(c) \/ C!ChangeSpec(c) \/ C!DeleteClaim(c)
        PROVE  [Mirror!Next]_(Mirror!vars)
    <3>1. UNCHANGED <<store, target>> /\ UNCHANGED Files
      BY <2>2 DEF C!CreateClaim, C!ChangeSpec, C!DeleteClaim, Files
    <3>2. /\ \A d \in Claims \ {c} : claim'[d] = claim[d]
          /\ \/ claim[c].phase = "absent" /\ claim'[c].phase = "live"
             \/ claim[c].phase = "live" /\ claim'[c].phase \in {"live", "deleting", "gone"}
      BY <2>2, LifeOfWorld DEF Inv
    <3>3. CASE claim[c].phase = "absent" /\ claim'[c].phase = "live"
      <4>1. Lives[c] = "absent" /\ Lives' = [Lives EXCEPT ![c] = "here"]
        BY <1>4, <3>2, <3>3 DEF Lives
      <4> QED BY <2>1, <3>1, <4>1 DEF Mirror!Next, Mirror!Create
    <3>4. CASE claim[c].phase = "live" /\ claim'[c].phase = "gone"
      <4>1. Lives[c] = "here" /\ Lives' = [Lives EXCEPT ![c] = "gone"]
        BY <1>4, <3>2, <3>4 DEF Lives
      <4> QED BY <2>1, <3>1, <4>1 DEF Mirror!Next, Mirror!Vanish
    <3>5. CASE claim[c].phase = "live" /\ claim'[c].phase \in {"live", "deleting"}
      <4>1. UNCHANGED Lives BY <3>2, <3>5 DEF Lives
      <4> QED BY <2>1, <3>1, <4>1 DEF Mirror!vars
    <3> QED BY <3>2, <3>3, <3>4, <3>5
  <2>3. ASSUME NEW k \in Keys, C!ChangeStore(k) PROVE Mirror!Next
    <3>1. store' = [store EXCEPT ![k] = store[k] + 1] /\ UNCHANGED <<claim, target>>
      BY <2>3 DEF C!ChangeStore
    <3>2. UNCHANGED <<Lives, Files>> BY <3>1 DEF Lives, Files
    <3> QED BY <2>1, <3>1, <3>2 DEF Mirror!Next, Mirror!Serve
  <2>4. ASSUME NEW k \in Keys, C!EditTarget(k) PROVE Mirror!Next
    <3>1. /\ target # NoTarget /\ UNCHANGED <<claim, store>>
          /\ target' = [f \in DOMAIN target \cup {k} |->
               IF f = k THEN [val |-> -1, by |-> {"user"}] ELSE target[f]]
      BY <2>4 DEF C!EditTarget, C!Edited
    <3>2. target' # NoTarget
      <4>1. target \in [DOMAIN target -> C!Field] /\ DOMAIN target \subseteq Keys \cup Claims
        BY <3>1 DEF C!TypeOK, C!Targets
      <4>2. [val |-> -1, by |-> {"user"}] \in C!Field
        BY DEF C!Field, C!Edited, C!Managers
      <4>3. target' \in [DOMAIN target \cup {k} -> C!Field] BY <3>1, <4>1, <4>2
      <4>4. target' \in C!Targets BY <4>1, <4>3 DEF C!Targets
      <4> QED BY <4>4, ClaimsAssumption
    <3>3. UNCHANGED Lives BY <3>1 DEF Lives
    <3>4. Files' = [Files EXCEPT ![k] = -1]
      BY <3>1, <3>2 DEF Files
    <3> QED BY <2>1, <3>1, <3>2, <3>3, <3>4 DEF Mirror!Next, Mirror!Edit, Mirror!Edited
  <2>5. CASE C!DeleteTarget \/ C!Collect
    <3>1. target # NoTarget /\ target' = NoTarget /\ UNCHANGED <<claim, store>>
      BY <2>5 DEF C!DeleteTarget, C!Collect
    <3>2. UNCHANGED Lives /\ Files' = [k \in Keys |-> -2]
      BY <3>1 DEF Lives, Files, NoFile
    <3> QED BY <2>1, <3>1, <3>2 DEF Mirror!Next, Mirror!Remove, Mirror!Missing
  <2> QED BY <1>5, <2>2, <2>3, <2>4, <2>5 DEF World
<1>6. ASSUME NEW p \in Procs, Work(p) PROVE [Mirror!Next]_(Mirror!vars)
  <2>1. PICK c \in Claims : C!Watch(<<p, c>>) \/ C!Reconciler(<<p, c>>)
    BY <1>6 DEF Work
  <2> DEFINE t == <<p, c>>
  <2>2. t \in Procs \X Claims /\ t[2] \in Claims /\ (C!Watch(t) \/ C!Reconciler(t))
    BY <2>1
  <2>3. UNCHANGED broken BY <1>6 DEF Work, lockVars
  <2> HIDE DEF t
  <2>4. CASE target' # target
    BY <2>2, <2>3, <2>4, WriteMirrors DEF Mirror!Next
  <2>5. CASE UNCHANGED target
    <3>1. UNCHANGED <<store, target>> /\ UNCHANGED Files
      BY <2>2, <2>5, WorkEffects DEF Files
    <3>2. CASE \A d \in Claims : claim'[d].phase = claim[d].phase
      <4>1. UNCHANGED Lives BY <3>2 DEF Lives
      <4> QED BY <2>3, <3>1, <4>1 DEF Mirror!vars
    <3>3. CASE /\ claim[t[2]].phase \in {"live", "deleting"}
               /\ \A d \in Claims : claim'[d].phase =
                    IF d = t[2] THEN "gone" ELSE claim[d].phase
      <4>1. Lives[t[2]] = "here" /\ Lives' = [Lives EXCEPT ![t[2]] = "gone"]
        BY <1>4, <2>2, <3>3 DEF Lives
      <4> QED BY <2>2, <2>3, <3>1, <4>1 DEF Mirror!Next, Mirror!Vanish
    <3> QED BY <2>2, <3>2, <3>3, LifeOfTask DEF Inv
  <2> QED BY <2>4, <2>5
<1> QED BY <1>2, <1>3, <1>5, <1>6 DEF Next

\* Whatever pods work together, end and take over, a target is changed only by
\* users, the garbage collector, and existing claims that give it contents of
\* their stores; a broken lock ends just two of the promises.
THEOREM MirrorImplemented == Spec => ImplementsMirror
<1>1. Init => Mirror!Init BY MirrorInit
<1>2. Basis /\ Basis' /\ Inv /\ [Next]_vars => [Mirror!Next]_(Mirror!vars)
  BY MirrorStep
<1> QED BY <1>1, <1>2, BasisKept, Invariant, PTL DEF Spec, ImplementsMirror, Mirror!Spec
=============================================================================
