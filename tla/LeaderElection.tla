--------------------------- MODULE LeaderElection ---------------------------
(***************************************************************************)
(* Leader election of the operator: the claim loop and the refresh loop    *)
(* over one coordination Lease, the start-up gate of main, and the signal  *)
(* handling around them.  Every API call is one step, so that whatever a   *)
(* pod does between two awaits may interleave with every other pod.        *)
(*                                                                         *)
(* Time is counted in refresh periods (10 s): a lease carries its age, the *)
(* number of periods since its renewTime, and Tick ages it.  The           *)
(* resourceVersion check of a replace is the set "current" of the pods     *)
(* whose copy of the lease is still the stored version.                    *)
(***************************************************************************)
EXTENDS Integers

CONSTANTS
  Pods,         \* pod names; a Deployment never reuses one
  Enabled,      \* the pods whose environment enables leader election
  ExpireAfter,  \* periods after which a renewed lease counts as expired
  MaxFaults,    \* bound: how many faults of the environment may happen
  NoLease       \* the Lease object does not exist

ASSUME EnabledAssumption == Enabled \subseteq Pods
ASSUME ExpireAssumption == ExpireAfter \in Nat
ASSUME FaultsAssumption == MaxFaults \in Nat

NeverRenewed == -1            \* renewTime is None
Ages == NeverRenewed .. (ExpireAfter + 1)
Leases == [holder : Pods, age : Ages]

ASSUME NoLeaseAssumption == NoLease \notin Leases

VARIABLES
  lease,    \* the Lease object in the API server
  pc,       \* where main stands in each pod
  refresh,  \* the spawned refresh loop of each pod
  token,    \* is the cancellation token of the pod cancelled?
  seen,     \* the copy of the lease a pod works on
  current,  \* the pods whose copy carries the stored resourceVersion
  pod,      \* the Pod object, as the control plane sees it
  faults,   \* faults so far (bounded by MaxFaults)
  cause     \* history: the first event that may lead to two leaders

vars == <<lease, pc, refresh, token, seen, current, pod, faults, cause>>

Awaiting == {"getPod", "create", "getLease", "delete"}
Active == {"starting", "running", "draining"}
States == Awaiting \cup Active \cup {"off", "decide", "sleep", "gate"}
Causes == {"none", "expired", "staleDelete", "selfDelete",
           "staleGrant", "cancelledStart"}

TypeOK ==
  /\ lease \in Leases \cup {NoLease}
  /\ pc \in [Pods -> States]
  /\ refresh \in [Pods -> {"none", "tick", "replace", "ended"}]
  /\ token \in [Pods -> BOOLEAN]
  /\ seen \in [Pods -> Leases \cup {NoLease}]
  /\ current \in SUBSET Pods
  /\ pod \in [Pods -> {"up", "terminating", "gone", "lost"}]
  /\ faults \in 0 .. MaxFaults
  /\ cause \in Causes

Init ==
  /\ lease = NoLease
  /\ pc = [p \in Pods |-> "off"]
  /\ refresh = [p \in Pods |-> "none"]
  /\ token = [p \in Pods |-> FALSE]
  /\ seen = [p \in Pods |-> NoLease]
  /\ current = {}
  /\ pod = [p \in Pods |-> "up"]
  /\ faults = 0
  /\ cause = "none"

-----------------------------------------------------------------------------
(* Helpers *)

\* Bugs these helpers could have; a mutated model puts one in.
HeldByAnyone(l, p) == l # NoLease
IgnoresRenewTime(l) == FALSE

Held(l, p) == l # NoLease /\ l.holder = p
Expired(l) == l # NoLease /\ l.age > ExpireAfter
NewLease(p) == [holder |-> p, age |-> NeverRenewed]
Aged(l) == IF l # NoLease /\ l.age \in 0 .. ExpireAfter
             THEN [l EXCEPT !.age = @ + 1] ELSE l

Fault == faults < MaxFaults /\ faults' = faults + 1
Blame(c, guilty) == cause' = IF guilty /\ cause = "none" THEN c ELSE cause

Goto(p, s) == pc' = [pc EXCEPT ![p] = s]
Copy(p, l) == seen' = [seen EXCEPT ![p] = l] /\ current' = current \cup {p}
Forget(p) == seen' = [seen EXCEPT ![p] = NoLease] /\ current' = current \ {p}
Remove(p) == /\ lease' = NoLease
             /\ seen' = [seen EXCEPT ![p] = NoLease]
             /\ current' = {}

\* The process of p ends: its tasks and its memory go with it.
Stop(p) ==
  /\ Goto(p, "off")
  /\ refresh' = [refresh EXCEPT ![p] = "none"]
  /\ token' = [token EXCEPT ![p] = FALSE]
  /\ Forget(p)

-----------------------------------------------------------------------------
(* main: start, claim loop (try_create_lease_for_current_pod), gate *)

Start(p) ==
  /\ pc[p] = "off" /\ pod[p] = "up"
  /\ Goto(p, IF p \in Enabled THEN "getPod" ELSE "gate")
  /\ UNCHANGED <<lease, refresh, token, seen, current, pod, faults, cause>>

GetPod(p) ==
  /\ pc[p] = "getPod"
  /\ \/ Goto(p, "create") /\ UNCHANGED faults
     \/ Goto(p, "sleep") /\ Fault
  /\ UNCHANGED <<lease, refresh, token, seen, current, pod, cause>>

\* The result of the create call is dropped: "already exists" and a lost
\* request both fall through to the read.
CreateLease(p) ==
  /\ pc[p] = "create"
  /\ Goto(p, "getLease")
  /\ \/ /\ lease' = IF lease = NoLease THEN NewLease(p) ELSE lease
        /\ UNCHANGED faults
     \/ Fault /\ UNCHANGED lease
  /\ UNCHANGED <<refresh, token, seen, current, pod, cause>>

GetLease(p) ==
  /\ pc[p] = "getLease"
  /\ \/ /\ lease # NoLease
        /\ Copy(p, lease)
        /\ Goto(p, "decide")
        /\ UNCHANGED faults
     \/ /\ (lease = NoLease /\ UNCHANGED faults) \/ Fault
        /\ Goto(p, "sleep")
        /\ UNCHANGED <<seen, current>>
  /\ UNCHANGED <<lease, refresh, token, pod, cause>>

\* The claim returns Ok: main spawns the refresh loop and goes to the gate.
Grant(p) ==
  /\ Goto(p, "gate")
  /\ refresh' = [refresh EXCEPT ![p] = "tick"]

\* The verdict on the copy, at the local time of the pod.
Decide(p) ==
  /\ pc[p] = "decide"
  /\ \/ /\ Expired(seen[p])
        /\ Goto(p, "delete")
        /\ UNCHANGED <<refresh, seen, current, cause>>
     \/ /\ ~Expired(seen[p]) /\ Held(seen[p], p)
        /\ Grant(p)
        /\ Forget(p)
        /\ Blame("staleGrant", ~Held(lease, p))
     \/ /\ ~Expired(seen[p]) /\ ~Held(seen[p], p)
        /\ Goto(p, "sleep")
        /\ Forget(p)
        /\ UNCHANGED <<refresh, cause>>
  /\ UNCHANGED <<lease, token, pod, faults>>

\* Deletion by name, without a precondition.  The holder check that follows
\* still looks at the copy: a pod that deleted its own lease is granted.
DeleteLease(p) ==
  /\ pc[p] = "delete"
  /\ \/ /\ lease # NoLease
        /\ Remove(p)
        /\ \/ Held(seen[p], p) /\ Grant(p) /\ UNCHANGED faults
           \/ /\ (~Held(seen[p], p) /\ UNCHANGED faults) \/ Fault
              /\ Goto(p, "sleep")
              /\ UNCHANGED refresh
        /\ IF p \in current THEN Blame("selfDelete", refresh'[p] = "tick")
                            ELSE Blame("staleDelete", TRUE)
     \/ /\ (lease = NoLease /\ UNCHANGED faults) \/ Fault
        /\ Goto(p, "sleep")
        /\ Forget(p)
        /\ UNCHANGED <<lease, refresh, cause>>
  /\ UNCHANGED <<token, pod>>

\* Ten seconds of std::thread::sleep, during which the token is not polled.
Wake(p) ==
  /\ pc[p] = "sleep"
  /\ Goto(p, "getPod")
  /\ UNCHANGED <<lease, refresh, token, seen, current, pod, faults, cause>>

\* run_cancellable: the token is polled whenever the claim awaits a call.
CancelClaim(p) ==
  /\ pc[p] \in Awaiting /\ token[p]
  /\ Goto(p, "gate")
  /\ Forget(p)
  /\ UNCHANGED <<lease, refresh, token, pod, faults, cause>>

\* The select of main: the first tick of the interval is ready at once, so a
\* cancelled token and the tick compete.
GateRun(p) ==
  /\ pc[p] = "gate"
  /\ Goto(p, "starting")
  /\ Blame("cancelledStart", p \in Enabled /\ refresh[p] = "none")
  /\ UNCHANGED <<lease, refresh, token, seen, current, pod, faults>>

GateExit(p) ==
  /\ pc[p] = "gate" /\ token[p]
  /\ Stop(p)
  /\ UNCHANGED <<lease, pod, faults, cause>>

\* controller::run lists the CRD and exits the process when that fails; only
\* then does the Controller register signal handlers of its own.
ListCrds(p) ==
  /\ pc[p] = "starting"
  /\ \/ /\ Goto(p, "running")
        /\ UNCHANGED <<refresh, token, seen, current, faults>>
     \/ Fault /\ Stop(p)
  /\ UNCHANGED <<lease, pod, cause>>

\* The controllers have drained, so main returns.
Drained(p) ==
  /\ pc[p] = "draining"
  /\ Stop(p)
  /\ UNCHANGED <<lease, pod, faults, cause>>

-----------------------------------------------------------------------------
(* refresh_leadership_loop: nothing compares the holder with the pod, and  *)
(* any error ends the loop while the controllers of the pod go on.         *)

RefreshGet(p) ==
  /\ refresh[p] = "tick"
  /\ \/ /\ lease # NoLease
        /\ Copy(p, [lease EXCEPT !.age = 0])
        /\ refresh' = [refresh EXCEPT ![p] = "replace"]
        /\ UNCHANGED faults
     \/ /\ (lease = NoLease /\ UNCHANGED faults) \/ Fault
        /\ refresh' = [refresh EXCEPT ![p] = "ended"]
        /\ UNCHANGED <<seen, current>>
  /\ UNCHANGED <<lease, pc, token, pod, cause>>

\* The API server takes a replace only from the stored resourceVersion.
AcceptsAnyVersion(p) == lease # NoLease
Accepts(p) == p \in current

RefreshReplace(p) ==
  /\ refresh[p] = "replace"
  /\ \/ /\ Accepts(p)
        /\ lease' = seen[p]
        /\ current' = {}
        /\ seen' = [seen EXCEPT ![p] = NoLease]
        /\ Blame("expired", Expired(seen[p]))
        /\ \/ refresh' = [refresh EXCEPT ![p] = "tick"] /\ UNCHANGED faults
           \/ refresh' = [refresh EXCEPT ![p] = "ended"] /\ Fault
     \/ /\ (~Accepts(p) /\ UNCHANGED faults) \/ Fault
        /\ refresh' = [refresh EXCEPT ![p] = "ended"]
        /\ Forget(p)
        /\ UNCHANGED <<lease, cause>>
  /\ UNCHANGED <<pc, token, pod>>

RefreshCancel(p) ==
  /\ refresh[p] \in {"tick", "replace"} /\ token[p]
  /\ refresh' = [refresh EXCEPT ![p] = "ended"]
  /\ Forget(p)
  /\ UNCHANGED <<lease, pc, token, pod, faults, cause>>

-----------------------------------------------------------------------------
(* Time, signals and the control plane *)

\* Would one more period make a lease expire that a live loop looks after?
Overdue == \E p \in Pods :
  \/ refresh[p] \in {"tick", "replace"} /\ Held(lease, p) /\ lease.age = ExpireAfter
  \/ refresh[p] = "replace" /\ seen[p].age = ExpireAfter

Tick ==
  /\ lease' = Aged(lease)
  /\ seen' = [p \in Pods |-> Aged(seen[p])]
  /\ IF Overdue THEN Fault ELSE UNCHANGED faults
  /\ Blame("expired", Expired(lease') /\ refresh[lease.holder] # "none")
  /\ UNCHANGED <<pc, refresh, token, current, pod>>

\* SIGTERM or Ctrl-C.  The token is cancelled wherever main stands; the
\* controllers drain only when they have registered for the signal.  The
\* replica set keeps another pod up when it deletes this one.
Signal(p, deletion) ==
  /\ pc[p] # "off" /\ ~token[p] /\ pod[p] = "up"
  /\ deletion => \E q \in Pods \ {p} : pod[q] = "up"
  /\ Fault
  /\ token' = [token EXCEPT ![p] = TRUE]
  /\ pc' = [pc EXCEPT ![p] = IF @ = "running" THEN "draining" ELSE @]
  /\ pod' = [pod EXCEPT ![p] = IF deletion THEN "terminating" ELSE @]
  /\ UNCHANGED <<lease, refresh, seen, current, cause>>

\* SIGKILL at the end of the grace period, or a crash at any time.
Kill(p) ==
  /\ pc[p] # "off"
  /\ (token[p] /\ UNCHANGED faults) \/ Fault
  /\ Stop(p)
  /\ UNCHANGED <<lease, pod, cause>>

\* The node of p is gone for good, its Pod object stays.
NodeLost(p) ==
  /\ pod[p] = "up" /\ \E q \in Pods \ {p} : pod[q] = "up"
  /\ Fault
  /\ pod' = [pod EXCEPT ![p] = "lost"]
  /\ Stop(p)
  /\ UNCHANGED <<lease, cause>>

PodGone(p) ==
  /\ pod[p] = "terminating" /\ pc[p] = "off"
  /\ pod' = [pod EXCEPT ![p] = "gone"]
  /\ UNCHANGED <<lease, pc, refresh, token, seen, current, faults, cause>>

\* The owner reference of the lease names its holder's Pod.
CollectLease ==
  /\ lease # NoLease /\ pod[lease.holder] = "gone"
  /\ lease' = NoLease
  /\ current' = {}
  /\ UNCHANGED <<pc, refresh, token, seen, pod, faults, cause>>

-----------------------------------------------------------------------------
Main(p) ==
  \/ Start(p) \/ GetPod(p) \/ CreateLease(p) \/ GetLease(p) \/ Decide(p)
  \/ DeleteLease(p) \/ Wake(p) \/ CancelClaim(p) \/ GateRun(p) \/ GateExit(p)
  \/ ListCrds(p) \/ Drained(p)

Refresher(p) == RefreshGet(p) \/ RefreshReplace(p) \/ RefreshCancel(p)

Environment(p) ==
  \/ \E deletion \in BOOLEAN : Signal(p, deletion)
  \/ Kill(p) \/ NodeLost(p) \/ PodGone(p)

Next ==
  \/ \E p \in Pods : Main(p) \/ Refresher(p) \/ Environment(p)
  \/ Tick
  \/ CollectLease

Spec == Init /\ [][Next]_vars

\* The executor polls every task, time passes, the control plane reaps pods
\* and their leases.  Nothing forces a SIGKILL.
Fairness ==
  /\ \A p \in Pods : /\ WF_vars(Main(p)) /\ SF_vars(CancelClaim(p))
                     /\ WF_vars(Refresher(p)) /\ WF_vars(PodGone(p))
  /\ WF_vars(Tick) /\ WF_vars(CollectLease)

FairSpec == Spec /\ Fairness

-----------------------------------------------------------------------------
(* Properties *)

Leaders == {p \in Pods : pc[p] \in Active}

\* At most one of the pods that take part in the election runs its
\* controllers, unless one of five events came first: a lease that expired
\* under its leader, a delete that hit a newer lease than the one read, a pod
\* granted the lease it had just deleted, a grant on an outdated copy, a start
\* after a cancelled claim.
SplitBrainHasCause ==
  cause = "none" => \A p, q \in Leaders \cap Enabled : p = q

\* Until the first cause, the lease implements a lock: its holder is the owner,
\* the elected pods that run controllers are the ones at work.
Lock == INSTANCE LeaderLock WITH
  Nobody <- NoLease,
  owner <- IF lease = NoLease THEN NoLease ELSE lease.holder,
  working <- Leaders \cap Enabled,
  broken <- cause # "none"
ImplementsLock == Lock!Spec

(* Why that is so: the invariant the proofs use. *)

\* Until the first cause, a pod with a refresh loop, live or ended, holds a
\* lease that has not expired.
LeaseGuarded ==
  cause = "none" => \A p \in Pods : refresh[p] # "none"
    => lease # NoLease /\ lease.holder = p /\ ~Expired(lease)

\* Until then, every elected pod that runs controllers has a refresh loop.
LeadersRefresh ==
  cause = "none" => \A p \in Leaders \cap Enabled : refresh[p] # "none"

\* A copy with the stored resourceVersion names the stored holder; a copy that
\* the claim loop works on is the stored lease.
CopiesFollowLease ==
  \A p \in current :
    /\ lease # NoLease /\ seen[p] # NoLease
    /\ seen[p].holder = lease.holder
    /\ pc[p] \in {"decide", "delete"} => seen[p] = lease

\* Until the first cause, a pod working on an outdated copy does not hold the
\* stored lease.
OldCopiesLost ==
  cause = "none" => \A p \in Pods :
    pc[p] \in {"decide", "delete"} /\ p \notin current => ~Held(lease, p)

\* Where main and the Pod object may stand.
Phases ==
  \A p \in Pods :
    /\ pc[p] = "delete" => Expired(seen[p])
    /\ refresh[p] # "none" => pc[p] \in Active \cup {"gate"}
    /\ pod[p] = "gone" => pc[p] = "off"

\* The inductive invariant: leadership is tied to the lease until a cause.
Inv ==
  /\ TypeOK
  /\ LeaseGuarded
  /\ LeadersRefresh
  /\ CopiesFollowLease
  /\ OldCopiesLost
  /\ Phases

\* The lease passes to another pod only by deletion and creation: a renewal
\* working on an old copy never puts a former holder back.
HolderNeverOverwritten ==
  [][lease # NoLease /\ lease' # NoLease => lease'.holder = lease.holder]_vars

\* The refresh loop renews whatever lease it finds; as long as none of the
\* causes occurred, that is the lease of its own pod.
RenewsOwnLease ==
  [][\A p \in Pods : refresh[p] = "replace" /\ refresh'[p] = "tick"
        => cause' # "none" \/ (lease # NoLease /\ lease.holder = p)]_vars

\* Some pod ends up running the controllers for good, whatever failed before,
\* except when the holder was lost before the first renewal of its lease:
\* such a lease never expires and has an owner, so nobody can ever take over.
NeverExpires == /\ lease # NoLease
                /\ lease.age = NeverRenewed
                /\ pod[lease.holder] = "lost"
Takeover == <>[](Leaders # {} \/ NeverExpires)

(* What the source says, and the code does not do *)

\* "Acquired leadership with lease": a pod whose claim succeeds holds it.
GrantedHoldsLease ==
  [][\A p \in Pods : refresh[p] = "none" /\ refresh'[p] = "tick"
        => Held(lease', p)]_vars

\* "Received SIGTERM, initiating graceful shutdown.": the process ends.  Of a
\* process that is past main's gate this asks it for a signal that comes from the
\* moment on when the controllers start.
SignalEndsProcess ==
  \A p \in Pods :
    [](pc[p] = "starting" /\ ~token[p] => [](token[p] => <>(pc[p] = "off")))
=============================================================================
