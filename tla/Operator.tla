------------------------------ MODULE Operator ------------------------------
(***************************************************************************)
(* The operator as a whole: several pods, of which leader election lets    *)
(* one run its controllers.  Module LeaderElection implements the lock of  *)
(* module LeaderLock until it is broken; here a pod at work runs the       *)
(* reconcilers of module Claims, so that what the election promises shows  *)
(* in what is written.  A pod that ends, by a signal or a crash, leaves    *)
(* the call it was waiting for behind.                                     *)
(***************************************************************************)
EXTENDS Integers, FiniteSets

CONSTANTS Claims, Keys, Procs, MaxChanges, MaxFaults, NoTarget, Nobody

VARIABLES claim, target, store, cache, due, work, changes, faults,
          owner, working, broken

C == INSTANCE Claims
ASSUME ClaimsAssumption ==
  IsFiniteSet(Claims) /\ Claims \cap Keys = {} /\ NoTarget \notin C!Targets
ASSUME BoundsAssumption == MaxChanges \in Nat /\ MaxFaults \in Nat
ASSUME NobodyAssumption == Nobody \notin Procs

L == INSTANCE LeaderLock WITH Pods <- Procs

claimVars == <<claim, target, store, cache, due, work, changes, faults>>
lockVars == <<owner, working, broken>>
vars == <<claimVars, lockVars>>

TypeOK ==
  /\ C!TypeOK
  /\ owner \in Procs \cup {Nobody}
  /\ working \subseteq Procs
  /\ broken \in BOOLEAN

Init == C!Init /\ L!Init

-----------------------------------------------------------------------------
(* Who runs the controllers *)

Acquire(p) == L!Acquire(p) /\ UNCHANGED <<claimVars, broken>>

\* The lease of a pod that does not run controllers is deleted or collected.
Release == L!Release /\ UNCHANGED <<claimVars, broken>>

\* The lock breaks, for one of the causes of split brain.
Break ==
  /\ ~broken /\ C!Fault
  /\ broken' = TRUE
  /\ UNCHANGED <<claim, target, store, cache, due, work, changes, owner, working>>

\* The controllers of p start: the watch lists the claims.
Listed == {c \in Claims : claim[c].phase \in {"live", "deleting"}}
Starts(p) ==
  /\ p \notin working
  /\ cache' = [t \in Procs \X Claims |-> IF t[1] # p THEN cache[t]
                 ELSE IF t[2] \in Listed THEN claim[t[2]] ELSE C!Absent]
  /\ due' = due \cup ({p} \X Listed)
  /\ UNCHANGED <<claim, target, store, work, changes, faults, broken>>

\* The gate of main.  (A mutated model lets any pod pass.)
BeginUnelected(p) == Starts(p) /\ working' = working \cup {p} /\ UNCHANGED owner
Begin(p) ==
  /\ Starts(p)
  /\ \/ L!Begin(p)
     \/ broken /\ working' = working \cup {p} /\ UNCHANGED owner

\* The process of p ends, and its reconciliations with it.
End(p) ==
  /\ L!End(p) /\ C!Fault
  /\ cache' = [t \in Procs \X Claims |-> IF t[1] = p THEN C!Absent ELSE cache[t]]
  /\ due' = {t \in due : t[1] # p}
  /\ work' = [t \in Procs \X Claims |-> IF t[1] = p THEN C!Idle ELSE work[t]]
  /\ UNCHANGED <<claim, target, store, changes, broken>>

-----------------------------------------------------------------------------
(* What the controllers of the pods at work do *)

Work(p) ==
  /\ p \in working
  /\ \E c \in Claims : C!Watch(<<p, c>>) \/ C!Reconciler(<<p, c>>)
  /\ UNCHANGED lockVars

World ==
  /\ \/ \E c \in Claims : C!CreateClaim(c) \/ C!ChangeSpec(c) \/ C!DeleteClaim(c)
     \/ \E k \in Keys : C!ChangeStore(k) \/ C!EditTarget(k)
     \/ C!DeleteTarget \/ C!Collect
  /\ UNCHANGED lockVars

Next ==
  \/ Release \/ Break \/ World
  \/ \E p \in Procs : Acquire(p) \/ Begin(p) \/ End(p) \/ Work(p)

Spec == Init /\ [][Next]_vars

\* As in Claims; and some pod gets to run again (LeaderElection!Takeover).
Fairness ==
  /\ \A t \in Procs \X Claims :
       /\ WF_vars(t[1] \in working /\ C!Watch(t) /\ UNCHANGED lockVars)
       /\ WF_vars(t[1] \in working /\ C!Reconciler(t) /\ UNCHANGED lockVars)
  /\ WF_vars(C!Collect /\ UNCHANGED lockVars)
  /\ WF_vars(\E p \in Procs : Acquire(p))
  /\ SF_vars(working = {} /\ \E p \in Procs : Begin(p))

FairSpec == Spec /\ Fairness

-----------------------------------------------------------------------------
(* Properties *)

\* Until the lock breaks, whatever pods end and take over, no pod writes for a
\* claim that is gone.
WritesForExistingClaims ==
  [][~broken => \A t \in Procs \X Claims :
       work[t].pc = "compose" /\ work'[t].pc = "idle" /\ target' # target
         => claim[t[2]].phase \in {"live", "deleting"}]_vars

\* Until then, and while one claim alone names the target, no file of it goes
\* back to an older content: the files of a target are fetched at different
\* moments, but a pod that was overtaken never writes what it fetched.
FilesGoForward ==
  [][~broken /\ target # NoTarget /\ target' # NoTarget =>
       \A k \in Keys \cap DOMAIN target \cap DOMAIN target' :
         target'[k].val # C!Edited => target'[k].val >= target[k].val]_vars

\* What the operator promises (module TargetMirror), broken lock or not: of a
\* claim only its life is seen, of the target whether it exists and what it has
\* for each file.  Every step is a step of that specification, or does not show.
Lives == [c \in Claims |-> IF claim[c].phase \in {"live", "deleting"} THEN "here"
                           ELSE claim[c].phase]
NoFile == -2  \* TargetMirror!Missing
Files == [k \in Keys |-> IF target # NoTarget /\ k \in DOMAIN target
                         THEN target[k].val ELSE NoFile]
Mirror == INSTANCE TargetMirror WITH
  life <- Lives, served <- store, there <- target # NoTarget, file <- Files
ImplementsMirror == Mirror!Spec

\* Why they hold.  A pod that does not work has nothing under way.  Until the
\* lock breaks, only its owner works, so a task and the finalizer of its claim
\* hang together as in one process.  No content is newer than its store's, and
\* a target that belongs to one claim has nothing newer than what a task of it
\* has fetched.  Only a claim that exists has the finalizer, so only that one can
\* vanish by its removal, and an edited file is nobody's but the user's.
Resting == \A t \in Procs \X Claims :
             t[1] \notin working => work[t] = C!Idle /\ cache[t] = C!Absent
Locked == working \subseteq {owner} /\ \A t \in Procs \X Claims : C!Guarded(t)
Fetched == \A t \in Procs \X Claims : \A k \in DOMAIN work[t].desired :
             work[t].desired[k] <= store[k]
Served == target # NoTarget =>
            \A k \in Keys \cap DOMAIN target : target[k].val <= store[k]
Finalizers == \A c \in Claims :
  claim[c].finalizer => claim[c].phase \in {"live", "deleting"}
UserEdits == target # NoTarget => \A k \in Keys \cap DOMAIN target :
  target[k].val = C!Edited => target[k].by = {"user"}
OneClaim == \A c, d \in Claims : c = d
Fresh == target # NoTarget => \A t \in Procs \X Claims :
           \A k \in DOMAIN work[t].desired \cap DOMAIN target :
             target[k].val <= work[t].desired[k]
Inv ==
  /\ TypeOK
  /\ Resting /\ Fetched /\ Served /\ Finalizers /\ UserEdits
  /\ ~broken => Locked /\ (OneClaim => Fresh)

\* Even when the lock breaks and pods work together for good, the target ends
\* up with the files of its claim, and is collected when the claim is gone.
Converges == C!Converges
Collected == C!Collected
=============================================================================
