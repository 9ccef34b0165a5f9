------------------------------- MODULE Claims -------------------------------
(***************************************************************************)
(* The life of claims and of the one ConfigMap or Secret they target:      *)
(* the reconciler with its finalizer, the read - compose - write sequence  *)
(* of a reconciliation, and the cleanup.  Every API or store call is one   *)
(* step.  The processes of Procs run their controllers at the same time,   *)
(* which leader election is to prevent (module LeaderElection); within a   *)
(* process the claims are reconciled concurrently, each by one task.       *)
(*                                                                         *)
(* The target is what server-side apply sees: a set of fields (data keys   *)
(* and owner references), each with a value and the managers that set it.  *)
(***************************************************************************)
EXTENDS Integers, FiniteSets

CONSTANTS
  Claims,      \* claims that name the same target
  Keys,        \* files of the target
  Procs,       \* processes that run the controllers
  MaxChanges,  \* bound: changes by users and stores
  MaxFaults,   \* bound: failed calls and crashes
  NoTarget     \* the target object does not exist

ASSUME ChangesAssumption == MaxChanges \in Nat
ASSUME FaultsAssumption == MaxFaults \in Nat

Edited == -1                          \* a value no store serves
Versions == 0 .. MaxChanges           \* successive contents of a store
Managers == {"post", "apply", "user"}
Field == [val : Versions \cup {Edited}, by : SUBSET Managers]
Targets == UNION {[S -> Field] : S \in SUBSET (Keys \cup Claims)}
Contents == UNION {[S -> Versions \cup {Edited}] : S \in SUBSET Keys}
Composed == UNION {[S -> Versions] : S \in SUBSET Keys}
Phases == {"absent", "live", "deleting", "gone"}
Copies == [phase : Phases, spec : SUBSET Keys, finalizer : BOOLEAN]
Jobs == [pc : {"idle", "addFinalizer", "get", "compose", "cleanup",
               "removeFinalizer"},
         claim : Copies, seen : Contents \cup {NoTarget}, desired : Composed]

ASSUME ClaimsAssumption == IsFiniteSet(Claims) /\ Claims \cap Keys = {}
ASSUME NoTargetAssumption == NoTarget \notin Targets

Empty == [k \in {} |-> 0]
Absent == [phase |-> "absent", spec |-> {}, finalizer |-> FALSE]
Idle == [pc |-> "idle", claim |-> Absent, seen |-> NoTarget, desired |-> Empty]

VARIABLES
  claim,    \* the claim objects
  target,   \* the object they target
  store,    \* the content the stores serve for each file
  cache,    \* each process' reflector store
  due,      \* the process and claim pairs with a scheduled reconciliation
  work,     \* the reconciliation under way
  changes,  \* changes so far
  faults    \* faults so far

vars == <<claim, target, store, cache, due, work, changes, faults>>

TypeOK ==
  /\ claim \in [Claims -> Copies]
  /\ target = NoTarget \/ target \in Targets
  /\ store \in [Keys -> Versions]
  /\ cache \in [Procs \X Claims -> Copies]
  /\ due \subseteq Procs \X Claims
  /\ work \in [Procs \X Claims -> Jobs]
  /\ \A t \in Procs \X Claims : DOMAIN work[t].desired \subseteq work[t].claim.spec
  /\ changes \in 0 .. MaxChanges
  /\ faults \in 0 .. MaxFaults

\* The target may exist before any claim, with keys somebody else set.
Init ==
  /\ claim = [c \in Claims |-> Absent]
  /\ \E S \in SUBSET Keys :
       target \in {NoTarget, [k \in S |-> [val |-> Edited, by |-> {"user"}]]}
  /\ store = [k \in Keys |-> 0]
  /\ cache = [t \in Procs \X Claims |-> Absent]
  /\ due = {}
  /\ work = [t \in Procs \X Claims |-> Idle]
  /\ changes = 0
  /\ faults = 0

-----------------------------------------------------------------------------
(* Server-side apply *)

Data(t) == [k \in Keys \cap DOMAIN t |-> t[k].val]
Owners(t) == Claims \cap DOMAIN t

\* What a claim submits: the composed files and a controller owner reference.
\* (A mutated model forgets the reference.)
ManifestUnowned(c, files) == files
Manifest(c, files) ==
  [f \in DOMAIN files \cup {c} |-> IF f = c THEN 0 ELSE files[f]]

Posted(m) == [f \in DOMAIN m |-> [val |-> m[f], by |-> {"post"}]]

\* Applied fields are taken over by force; a field the manager applied before
\* and leaves out now is dropped, unless another manager has it too.
Applied(t, m) ==
  LET left == {f \in DOMAIN t \ DOMAIN m : t[f].by # {"apply"}}
      others(f) == IF f \in DOMAIN t /\ t[f].val = m[f] THEN t[f].by ELSE {}
  IN [f \in left \cup DOMAIN m |->
        IF f \in left THEN [t[f] EXCEPT !.by = @ \ {"apply"}]
        ELSE [val |-> m[f], by |-> others(f) \cup {"apply"}]]

\* An object has at most one controller reference.
Valid(t) == Cardinality(Owners(t)) <= 1

-----------------------------------------------------------------------------
(* The controller of kube-runtime and its finalizer helper *)

Fault == faults < MaxFaults /\ faults' = faults + 1

\* A reconciliation that returned an Action::requeue, or an error that
\* error_policy answers with one, is scheduled again.
Requeue(t) == due' = due \cup {t}
Return(t) == work' = [work EXCEPT ![t] = Idle] /\ Requeue(t)
AwaitChange(t) == work' = [work EXCEPT ![t] = Idle] /\ UNCHANGED due
Goto(t, pc) == work' = [work EXCEPT ![t].pc = pc]

\* Which event the finalizer helper makes of a copy of the claim.
\* (A mutated model reconciles before the finalizer is set.)
EventAtOnce(copy) == IF copy.phase = "live" THEN "get" ELSE "cleanup"
EventOf(copy) == IF copy.finalizer THEN EventAtOnce(copy) ELSE "addFinalizer"

\* A watch event: the reflector store of p takes the claim as it is now.
Watch(t) ==
  /\ cache[t] # claim[t[2]]
  /\ cache' = [cache EXCEPT ![t] = claim[t[2]]]
  /\ Requeue(t)
  /\ UNCHANGED <<claim, target, store, work, changes, faults>>

\* Every task works on the copy of the reflector store it started with.
Begin(t) ==
  /\ t \in due /\ work[t].pc = "idle"
  /\ cache[t].phase \in {"live", "deleting"}
  /\ due' = due \ {t}
  /\ work' = [work EXCEPT ![t].claim = cache[t], ![t].pc = EventOf(cache[t])]
  /\ UNCHANGED <<claim, target, store, cache, changes, faults>>

\* A JSON patch that tests for the absence of finalizers; its answer may be
\* lost after it took effect.
Finalized(c) == IF claim[c].phase = "live" THEN [claim EXCEPT ![c].finalizer = TRUE]
                ELSE claim
AddFinalizer(t) ==
  /\ work[t].pc = "addFinalizer"
  /\ \/ /\ claim' = Finalized(t[2]) /\ claim' # claim
        /\ AwaitChange(t)
        /\ UNCHANGED faults
     \/ /\ claim' = claim /\ Finalized(t[2]) = claim
        /\ Return(t)
        /\ UNCHANGED faults
     \/ Fault /\ Return(t) /\ claim' \in {claim, Finalized(t[2])}
  /\ UNCHANGED <<target, store, cache, changes>>

-----------------------------------------------------------------------------
(* reconcile of the ConfigurationDiscoverer *)

GetTarget(t) ==
  /\ work[t].pc = "get"
  /\ \/ /\ work' = [work EXCEPT ![t].pc = "compose", ![t].seen =
                        IF target = NoTarget THEN target ELSE Data(target)]
        /\ UNCHANGED <<due, faults>>
     \/ Fault /\ Return(t)
  /\ UNCHANGED <<claim, target, store, cache, changes>>

\* The files are composed one by one, in the order of a HashMap; the first
\* that cannot be composed ends the reconciliation.
\* (A mutated model composes files of other claims, or compares names only.)
AnyFile(w) == Keys \ DOMAIN w.desired
FilesLeft(w) == w.claim.spec \ DOMAIN w.desired
ComposeFile(t) ==
  /\ work[t].pc = "compose"
  /\ \/ \E k \in FilesLeft(work[t]) :
          /\ work' = [work EXCEPT ![t].desired =
               [f \in DOMAIN @ \cup {k} |-> IF f = k THEN store[k] ELSE @[f]]]
          /\ UNCHANGED <<due, faults>>
     \/ FilesLeft(work[t]) # {} /\ Fault /\ Return(t)
  /\ UNCHANGED <<claim, target, store, cache, changes>>

\* The API server drops an empty data map, and None is not Some of nothing.
DiffersInKeys(seen, files) == DOMAIN seen # DOMAIN files
Differs(seen, files) == seen # files \/ files = Empty

\* What the API server makes of the request: a create fails on an existing
\* object, an apply creates a missing one, an invalid object is rejected.
\* (A mutated model replaces the object.)
WrittenOver(w, c) == Posted(Manifest(c, w.desired))
Written(w, c) ==
  LET m == Manifest(c, w.desired)
      new == Applied(IF target = NoTarget THEN Empty ELSE target, m)
  IN CASE w.seen # NoTarget -> IF Valid(new) THEN new ELSE target
       [] w.seen = NoTarget -> IF target = NoTarget THEN Posted(m) ELSE target

Write(t) ==
  /\ work[t].pc = "compose" /\ FilesLeft(work[t]) = {}
  /\ work[t].seen # NoTarget => Differs(work[t].seen, work[t].desired)
  /\ \/ target' = Written(work[t], t[2]) /\ UNCHANGED faults
     \/ Fault /\ target' \in {target, Written(work[t], t[2])}
  /\ Return(t)
  /\ UNCHANGED <<claim, store, cache, changes>>

NothingToWrite(t) ==
  /\ work[t].pc = "compose" /\ FilesLeft(work[t]) = {}
  /\ work[t].seen # NoTarget /\ ~Differs(work[t].seen, work[t].desired)
  /\ Return(t)
  /\ UNCHANGED <<claim, target, store, cache, changes, faults>>

-----------------------------------------------------------------------------
(* cleanup, then the finalizer is removed *)

\* The target carries no finalizer of the operator: the replace, if the target
\* has finalizers at all, puts back what was read or fails on the version.
Cleanup(t) ==
  /\ work[t].pc = "cleanup"
  /\ \/ Goto(t, "removeFinalizer") /\ UNCHANGED <<due, faults>>
     \/ Fault /\ Return(t)
  /\ UNCHANGED <<claim, target, store, cache, changes>>

Released(c) == IF claim[c].finalizer
                 THEN [claim EXCEPT ![c].finalizer = FALSE, ![c].phase = "gone"]
                 ELSE claim
RemoveFinalizer(t) ==
  /\ work[t].pc = "removeFinalizer"
  /\ \/ /\ claim' = Released(t[2]) /\ claim' # claim
        /\ AwaitChange(t)
        /\ UNCHANGED faults
     \/ /\ claim' = claim /\ Released(t[2]) = claim
        /\ Return(t)
        /\ UNCHANGED faults
     \/ Fault /\ Return(t) /\ claim' \in {claim, Released(t[2])}
  /\ UNCHANGED <<target, store, cache, changes>>

-----------------------------------------------------------------------------
(* Users, stores, the garbage collector, crashes *)

Change == changes < MaxChanges /\ changes' = changes + 1

CreateClaim(c) ==
  /\ claim[c].phase = "absent"
  /\ \E S \in SUBSET Keys :
       claim' = [claim EXCEPT ![c].phase = "live", ![c].spec = S]
  /\ UNCHANGED <<target, store, cache, due, work, changes, faults>>

ChangeSpec(c) ==
  /\ claim[c].phase = "live" /\ Change
  /\ \E S \in (SUBSET Keys) \ {claim[c].spec} :
       claim' = [claim EXCEPT ![c].spec = S]
  /\ UNCHANGED <<target, store, cache, due, work, faults>>

DeleteClaim(c) ==
  /\ claim[c].phase = "live"
  /\ claim' = [claim EXCEPT ![c].phase =
                 IF claim[c].finalizer THEN "deleting" ELSE "gone"]
  /\ UNCHANGED <<target, store, cache, due, work, changes, faults>>

ChangeStore(k) ==
  /\ Change
  /\ store' = [store EXCEPT ![k] = @ + 1]
  /\ UNCHANGED <<claim, target, cache, due, work, faults>>

DeleteTarget ==
  /\ target # NoTarget /\ Change
  /\ target' = NoTarget
  /\ UNCHANGED <<claim, store, cache, due, work, faults>>

EditTarget(k) ==
  /\ target # NoTarget /\ Change
  /\ target' = [f \in DOMAIN target \cup {k} |->
                  IF f = k THEN [val |-> Edited, by |-> {"user"}] ELSE target[f]]
  /\ UNCHANGED <<claim, store, cache, due, work, faults>>

\* An object whose owners are all gone is collected.
Collect ==
  /\ target # NoTarget
  /\ Owners(target) # {} /\ \A c \in Owners(target) : claim[c].phase = "gone"
  /\ target' = NoTarget
  /\ UNCHANGED <<claim, store, cache, due, work, changes, faults>>

\* A crash and the restart, which lists the claims.
Crash(p) ==
  /\ Fault
  /\ LET listed == {c \in Claims : claim[c].phase \in {"live", "deleting"}}
     IN /\ cache' = [t \in Procs \X Claims |->
                       IF t[1] # p THEN cache[t]
                       ELSE IF t[2] \in listed THEN claim[t[2]] ELSE Absent]
        /\ due' = {t \in due : t[1] # p} \cup ({p} \X listed)
  /\ work' = [t \in Procs \X Claims |-> IF t[1] = p THEN Idle ELSE work[t]]
  /\ UNCHANGED <<claim, target, store, changes>>

-----------------------------------------------------------------------------
Reconciler(t) ==
  \/ Begin(t) \/ AddFinalizer(t) \/ GetTarget(t) \/ ComposeFile(t) \/ Write(t)
  \/ NothingToWrite(t) \/ Cleanup(t) \/ RemoveFinalizer(t)

Environment ==
  \/ \E c \in Claims : CreateClaim(c) \/ ChangeSpec(c) \/ DeleteClaim(c)
  \/ \E k \in Keys : ChangeStore(k) \/ EditTarget(k)
  \/ DeleteTarget
  \/ \E p \in Procs : Crash(p)

Next ==
  \/ \E t \in Procs \X Claims : Watch(t) \/ Reconciler(t)
  \/ Environment
  \/ Collect

Spec == Init /\ [][Next]_vars

\* Watch events arrive, tasks are polled and timers expire, garbage is
\* collected; no user has to do anything.
Fairness ==
  /\ \A t \in Procs \X Claims : WF_vars(Watch(t)) /\ WF_vars(Reconciler(t))
  /\ WF_vars(Collect)

FairSpec == Spec /\ Fairness

-----------------------------------------------------------------------------
(* Properties *)

\* Whatever the operator wrote belongs to exactly one claim: the second claim
\* on a target is rejected, or takes the target over as a whole, and an object
\* with data of the operator is never left without an owner.
Touched == target # NoTarget /\
             \E f \in DOMAIN target : target[f].by \cap {"post", "apply"} # {}
OwnedByOne == Touched => Cardinality(Owners(target)) = 1

\* One process at a time never writes for a claim that is gone: the finalizer
\* holds the claim until its last reconciliation has ended.
WritesForExistingClaims ==
  [][\A t \in Procs \X Claims :
       work[t].pc = "compose" /\ work'[t].pc = "idle" /\ target' # target
         => claim[t[2]].phase \in {"live", "deleting"}]_vars

\* Why that holds for one process: its finalizer is on the claim, and the claim
\* there, as long as a task of it - or a copy that makes it start one - is to
\* write; and the finalizer is only taken off a claim that is being deleted,
\* by the task that would otherwise write.
Holds(c) == claim[c].finalizer /\ claim[c].phase \in {"live", "deleting"}
Leaving(c) == claim[c].phase \in {"deleting", "gone"}
Guarded(t) ==
  /\ cache[t].finalizer /\ cache[t].phase = "live" => Holds(t[2])
  /\ cache[t].phase = "deleting" => Leaving(t[2])
  /\ work[t].pc \in {"get", "compose"} => Holds(t[2])
  /\ work[t].pc \in {"cleanup", "removeFinalizer"} =>
       Leaving(t[2]) /\ cache[t].phase # "live"
Inv ==
  /\ \A t \in Procs \X Claims :
       work[t].pc # "compose" => work[t].desired = Empty
  /\ \A k \in Keys : store[k] <= changes
  /\ \A t \in Procs \X Claims : Guarded(t)

\* A key that only a user has set and that the claim does not name survives
\* every write of the operator.
ForeignKeysKept ==
  [][\A t \in Procs \X Claims :
       work[t].pc = "compose" /\ work'[t].pc = "idle" /\ target # NoTarget
         => \A k \in (Keys \cap DOMAIN target) \ work[t].claim.spec :
              target[k].by = {"user"} => k \in DOMAIN target' /\ target'[k] = target[k]]_vars

\* When nobody changes anything any more, every file of a live claim ends up
\* in the target with the content its store serves, and stays.
Synced(c) == target # NoTarget /\ \A k \in claim[c].spec :
                k \in DOMAIN target /\ target[k].val = store[k]
Converges == \A c \in Claims : <>[](claim[c].phase = "live" => Synced(c))

\* When the claim is gone, the object it wrote is collected for good, even if
\* a late reconciliation writes it again.
Collected == \A c \in Claims : <>[](claim[c].phase = "gone" => ~Touched)

\* "syncronized to ConfigMap or Secret": the target ends up with the files of
\* the claim, and none that the operator wrote and the claim no longer names.
Mirrors == \A c \in Claims : <>[](claim[c].phase = "live"
  => Synced(c) /\ \A k \in (Keys \cap DOMAIN target) \ claim[c].spec :
       target[k].by \cap {"post", "apply"} = {})
=============================================================================
