---------------------------- MODULE Claims_proofs ----------------------------
(* Theorems about Claims, for all sets of claims, files and processes and    *)
(* every number of changes and faults.                                       *)
EXTENDS Claims, FiniteSetTheorems, TLAPS

USE ChangesAssumption, FaultsAssumption, ClaimsAssumption, NoTargetAssumption

-----------------------------------------------------------------------------
(* Lemmas about the target and what is written to it *)

\* What a claim submits: its files and the reference to itself alone.
Manifests(c) == {m \in UNION {[S -> Versions] : S \in SUBSET (Keys \cup Claims)} :
                   Claims \cap DOMAIN m = {c}}

\* The manifest of a claim is what its section says it submits.
LEMMA ManifestType ==
  ASSUME NEW c \in Claims, NEW files \in Composed
  PROVE  Manifest(c, files) \in Manifests(c)
<1>1. PICK S \in SUBSET Keys : files \in [S -> Versions] BY DEF Composed
<1>2. 0 \in Versions BY DEF Versions
<1>3. S \cup {c} \in SUBSET (Keys \cup Claims) OBVIOUS
<1>4. Manifest(c, files) \in [S \cup {c} -> Versions]
  BY <1>1, <1>2 DEF Manifest
<1>5. Claims \cap (S \cup {c}) = {c} OBVIOUS
<1> QED BY <1>3, <1>4, <1>5 DEF Manifests

\* A created target has the claim as its only owner.
LEMMA PostedType ==
  ASSUME NEW c \in Claims, NEW m \in Manifests(c)
  PROVE  Posted(m) \in Targets /\ Owners(Posted(m)) = {c}
<1>1. PICK S \in SUBSET (Keys \cup Claims) : m \in [S -> Versions]
  BY DEF Manifests
<1>2. \A f \in S : [val |-> m[f], by |-> {"post"}] \in Field
  BY <1>1 DEF Field, Managers
<1>3. Posted(m) \in [S -> Field] BY <1>1, <1>2 DEF Posted
<1> QED BY <1>1, <1>3 DEF Targets, Owners, Manifests

\* An applied target has the claim among its owners.
LEMMA AppliedType ==
  ASSUME NEW t \in Targets \cup {Empty}, NEW c \in Claims, NEW m \in Manifests(c)
  PROVE  Applied(t, m) \in Targets /\ c \in Owners(Applied(t, m))
<1>1. PICK S \in SUBSET (Keys \cup Claims) : m \in [S -> Versions]
  BY DEF Manifests
<1>2. PICK T \in SUBSET (Keys \cup Claims) : t \in [T -> Field]
  <2>1. CASE t = Empty
    <3>1. Empty \in [{} -> Field] BY DEF Empty
    <3> QED BY <2>1, <3>1
  <2>2. CASE t \in Targets BY <2>2 DEF Targets
  <2> QED BY <2>1, <2>2
<1> DEFINE left == {f \in DOMAIN t \ DOMAIN m : t[f].by # {"apply"}}
           others(f) == IF f \in DOMAIN t /\ t[f].val = m[f] THEN t[f].by ELSE {}
<1>3. \A f \in left : [t[f] EXCEPT !.by = @ \ {"apply"}] \in Field
  BY <1>2 DEF Field
<1>4. \A f \in DOMAIN m : [val |-> m[f], by |-> others(f) \cup {"apply"}] \in Field
  BY <1>1, <1>2 DEF Field, Managers
<1>5. left \cup DOMAIN m \in SUBSET (Keys \cup Claims) BY <1>1, <1>2
<1>6. Applied(t, m) \in [left \cup DOMAIN m -> Field]
  BY <1>3, <1>4 DEF Applied
<1>7. c \in DOMAIN m BY DEF Manifests
<1> QED BY <1>5, <1>6, <1>7 DEF Targets, Owners

\* Owners that are at most one, with one of them given, are exactly one.
LEMMA SoleOwner ==
  ASSUME NEW t \in Targets, NEW c \in Owners(t), Valid(t)
  PROVE  Cardinality(Owners(t)) = 1
<1>1. IsFiniteSet(Owners(t)) BY FS_Subset DEF Owners
<1>2. Cardinality(Owners(t)) \in Nat /\ Cardinality(Owners(t)) # 0
  BY <1>1, FS_CardinalityType, FS_EmptySet
<1> QED BY <1>2 DEF Valid

\* A write leaves the target as it is, or makes one owner of it.
LEMMA WrittenType ==
  ASSUME TypeOK, NEW t \in Procs \X Claims
  PROVE  \/ Written(work[t], t[2]) = target
         \/ /\ Written(work[t], t[2]) \in Targets
            /\ Cardinality(Owners(Written(work[t], t[2]))) = 1
<1> DEFINE m == Manifest(t[2], work[t].desired)
           new == Applied(IF target = NoTarget THEN Empty ELSE target, m)
<1>1. t[2] \in Claims /\ work[t].desired \in Composed
  BY DEF TypeOK, Jobs
<1>2. m \in Manifests(t[2]) BY <1>1, ManifestType
<1> HIDE DEF m
<1>3. new \in Targets /\ t[2] \in Owners(new)
  BY <1>1, <1>2, AppliedType DEF TypeOK
<1>4. Posted(m) \in Targets /\ Cardinality(Owners(Posted(m))) = 1
  <2>1. Posted(m) \in Targets /\ Owners(Posted(m)) = {t[2]}
    BY <1>1, <1>2, PostedType
  <2>2. Cardinality({t[2]}) = 1 BY FS_Singleton
  <2> QED BY <2>1, <2>2
<1>5. Written(work[t], t[2]) \in
        {target, Posted(m)} \cup (IF Valid(new) THEN {new} ELSE {})
  BY DEF Written, m
<1>6. Valid(new) => Cardinality(Owners(new)) = 1 BY <1>3, SoleOwner
<1> QED BY <1>3, <1>4, <1>5, <1>6

-----------------------------------------------------------------------------
(* Type correctness *)

\* What a task starts from and falls back to.
LEMMA StartType ==
  Absent \in Copies /\ Empty \in Composed /\ DOMAIN Empty = {} /\ Idle \in Jobs
<1>1. Absent \in Copies BY DEF Absent, Copies, Phases
<1>2. Empty \in [{} -> Versions] /\ DOMAIN Empty = {} BY DEF Empty
<1>3. Empty \in Composed BY <1>2 DEF Composed
<1> QED BY <1>1, <1>2, <1>3 DEF Idle, Jobs

\* A task that ends keeps the types.
Tasks == /\ work \in [Procs \X Claims -> Jobs]
         /\ \A t \in Procs \X Claims : DOMAIN work[t].desired \subseteq work[t].claim.spec
         /\ due \subseteq Procs \X Claims

LEMMA EndType ==
  ASSUME Tasks, NEW t \in Procs \X Claims, Return(t) \/ AwaitChange(t)
  PROVE  Tasks'
<1>1. DOMAIN Idle.desired \subseteq Idle.claim.spec BY StartType DEF Idle
<1> QED BY <1>1, StartType DEF Tasks, Return, AwaitChange, Requeue

\* What the claims become when a finalizer is added or removed.
LEMMA ClaimTypes ==
  ASSUME TypeOK, NEW c \in Claims
  PROVE  Finalized(c) \in [Claims -> Copies] /\ Released(c) \in [Claims -> Copies]
<1>1. claim \in [Claims -> Copies] BY DEF TypeOK
<1>2. [claim EXCEPT ![c].finalizer = TRUE] \in [Claims -> Copies]
  BY <1>1 DEF Copies
<1>3. [claim EXCEPT ![c].finalizer = FALSE, ![c].phase = "gone"] \in [Claims -> Copies]
  BY <1>1 DEF Copies, Phases
<1> QED BY <1>1, <1>2, <1>3 DEF Finalized, Released

\* A target that a user made before the operator ran is a target.
LEMMA TargetInit ==
  ASSUME NEW S \in SUBSET Keys
  PROVE  [k \in S |-> [val |-> Edited, by |-> {"user"}]] \in Targets
<1>1. [val |-> Edited, by |-> {"user"}] \in Field BY DEF Field, Managers
<1>2. [k \in S |-> [val |-> Edited, by |-> {"user"}]] \in [S -> Field] BY <1>1
<1> QED BY <1>2 DEF Targets

\* What an apply does to the files: those of the manifest get its values, the
\* others stay as they are or go, and those that only a user set stay.
LEMMA AppliedFiles ==
  ASSUME NEW t \in Targets \cup {Empty}, NEW m, NEW k \in DOMAIN Applied(t, m)
  PROVE  IF k \in DOMAIN m THEN Applied(t, m)[k].val = m[k]
         ELSE k \in DOMAIN t /\ Applied(t, m)[k].val = t[k].val
<1>1. \A f \in DOMAIN t : t[f] \in Field BY DEF Targets, Empty
<1>2. CASE k \in DOMAIN m BY <1>2 DEF Applied
<1>3. CASE k \notin DOMAIN m
  <2>1. k \in DOMAIN t /\ Applied(t, m)[k] = [t[k] EXCEPT !.by = @ \ {"apply"}]
    BY <1>3 DEF Applied
  <2> QED BY <1>1, <1>3, <2>1 DEF Field
<1> QED BY <1>2, <1>3

\* A field that only a user set and that is not applied stays as it is.
LEMMA AppliedKeeps ==
  ASSUME NEW t \in Targets, NEW m, NEW k \in DOMAIN t \ DOMAIN m,
         t[k].by = {"user"}
  PROVE  k \in DOMAIN Applied(t, m) /\ Applied(t, m)[k] = t[k]
<1>1. t[k] \in Field BY DEF Targets
<1>2. {"user"} # {"apply"} /\ {"user"} \ {"apply"} = {"user"} OBVIOUS
<1>3. k \in DOMAIN Applied(t, m)
      /\ Applied(t, m)[k] = [t[k] EXCEPT !.by = @ \ {"apply"}]
  BY <1>2 DEF Applied
<1>4. [t[k] EXCEPT !.by = @ \ {"apply"}] = t[k] BY <1>1, <1>2 DEF Field
<1> QED BY <1>3, <1>4

\* So a write gives the composed files, and nothing else, new contents.
LEMMA WrittenFiles ==
  ASSUME TypeOK, NEW t \in Procs \X Claims, Written(work[t], t[2]) # target,
         NEW k \in Keys \cap DOMAIN Written(work[t], t[2])
  PROVE  IF k \in DOMAIN work[t].desired
         THEN Written(work[t], t[2])[k].val = work[t].desired[k]
         ELSE /\ target # NoTarget /\ k \in DOMAIN target
              /\ Written(work[t], t[2])[k].val = target[k].val
<1> DEFINE m == Manifest(t[2], work[t].desired)
           old == IF target = NoTarget THEN Empty ELSE target
<1>1. k # t[2] /\ old \in Targets \cup {Empty} BY DEF TypeOK
<1>2. /\ k \in DOMAIN m <=> k \in DOMAIN work[t].desired
      /\ k \in DOMAIN m => m[k] = work[t].desired[k]
  BY <1>1 DEF Manifest
<1> HIDE DEF m
<1>3. CASE Written(work[t], t[2]) = Posted(m) BY <1>2, <1>3 DEF Posted
<1>4. CASE Written(work[t], t[2]) = Applied(old, m)
  <2>1. DOMAIN Empty = {} BY StartType
  <2> QED BY <1>1, <1>2, <1>4, <2>1, AppliedFiles
<1>5. Written(work[t], t[2]) \in {target, Posted(m), Applied(old, m)}
  BY DEF Written, m
<1> QED BY <1>3, <1>4, <1>5

\* It has every composed file.
LEMMA WrittenNames ==
  ASSUME TypeOK, NEW t \in Procs \X Claims, Written(work[t], t[2]) # target
  PROVE  DOMAIN work[t].desired \subseteq DOMAIN Written(work[t], t[2])
<1> DEFINE m == Manifest(t[2], work[t].desired)
           old == IF target = NoTarget THEN Empty ELSE target
<1>1. DOMAIN work[t].desired \subseteq DOMAIN m BY DEF Manifest
<1> HIDE DEF m
<1>2. Written(work[t], t[2]) \in {target, Posted(m), Applied(old, m)}
  BY DEF Written, m
<1>3. DOMAIN m \subseteq DOMAIN Posted(m) /\ DOMAIN m \subseteq DOMAIN Applied(old, m)
  BY DEF Posted, Applied
<1> QED BY <1>1, <1>2, <1>3

\* And it leaves the files of users alone that it does not write.
LEMMA WrittenKeeps ==
  ASSUME TypeOK, NEW t \in Procs \X Claims, target # NoTarget,
         NEW k \in (Keys \cap DOMAIN target) \ DOMAIN work[t].desired,
         target[k].by = {"user"}
  PROVE  /\ k \in DOMAIN Written(work[t], t[2])
         /\ Written(work[t], t[2])[k] = target[k]
<1> DEFINE m == Manifest(t[2], work[t].desired)
<1>1. k # t[2] /\ target \in Targets BY DEF TypeOK
<1>2. k \notin DOMAIN m BY <1>1 DEF Manifest
<1> HIDE DEF m
<1>3. Written(work[t], t[2]) \in {target, Applied(target, m)}
  BY DEF Written, m
<1> QED BY <1>1, <1>2, <1>3, AppliedKeeps

\* The types hold initially.
LEMMA TypeInit == Init => TypeOK
<1> SUFFICES ASSUME Init PROVE TypeOK
  OBVIOUS
<1>1. target = NoTarget \/ target \in Targets BY TargetInit DEF Init
<1>2. DOMAIN Idle.desired \subseteq Idle.claim.spec BY StartType DEF Idle
<1> QED BY <1>1, <1>2, StartType DEF Init, TypeOK, Versions

Rested == /\ \A t \in Procs \X Claims : work[t].pc # "compose" => work[t].desired = Empty
          /\ \A k \in Keys : store[k] <= changes

\* A step of a task changes its own work and copy, and its own claim.
LEMMA StepIsLocal ==
  ASSUME TypeOK, NEW t \in Procs \X Claims, Watch(t) \/ Reconciler(t)
  PROVE  /\ \A u \in Procs \X Claims : u # t => cache'[u] = cache[u] /\ work'[u] = work[u]
         /\ \A c \in Claims : c # t[2] => claim'[c] = claim[c]
<1>1. /\ claim \in [Claims -> Copies] /\ cache \in [Procs \X Claims -> Copies]
      /\ work \in [Procs \X Claims -> Jobs]
  BY DEF TypeOK
<1> QED BY <1>1 DEF Watch, Reconciler, Begin, AddFinalizer, GetTarget, ComposeFile,
              Write, NothingToWrite, Cleanup, RemoveFinalizer, Return, AwaitChange,
              Goto, Finalized, Released

\* It leaves the target and what it has composed alone, or composes one more
\* file from its store, or ends - perhaps with the write.
LEMMA StepOfTask ==
  ASSUME TypeOK, NEW t \in Procs \X Claims, Watch(t) \/ Reconciler(t)
  PROVE  /\ UNCHANGED store
         /\ \/ UNCHANGED target /\ work'[t].desired = work[t].desired
            \/ /\ UNCHANGED target
               /\ \E k \in Keys : work'[t].desired =
                    [f \in DOMAIN work[t].desired \cup {k} |->
                       IF f = k THEN store[k] ELSE work[t].desired[f]]
            \/ /\ work'[t] = Idle
               /\ target' # target =>
                    work[t].pc = "compose" /\ target' = Written(work[t], t[2])
<1>1. work \in [Procs \X Claims -> Jobs] BY DEF TypeOK
<1>2. UNCHANGED store
  BY DEF Watch, Reconciler, Begin, AddFinalizer, GetTarget, ComposeFile, Write,
         NothingToWrite, Cleanup, RemoveFinalizer
<1>3. CASE work' = [work EXCEPT ![t] = Idle]
  <2>1. work'[t] = Idle BY <1>1, <1>3
  <2>2. target' # target => Write(t)
    BY DEF Watch, Reconciler, Begin, AddFinalizer, GetTarget, ComposeFile,
           NothingToWrite, Cleanup, RemoveFinalizer
  <2> QED BY <1>2, <2>1, <2>2 DEF Write
<1>4. CASE work' # [work EXCEPT ![t] = Idle]
  <2>1. \/ Watch(t) \/ Begin(t) \/ GetTarget(t) \/ Cleanup(t) \/ ComposeFile(t)
    BY <1>4 DEF Reconciler, AddFinalizer, RemoveFinalizer, Write, NothingToWrite,
                Return, AwaitChange
  <2>2. CASE Watch(t) BY <1>2, <2>2 DEF Watch
  <2>3. CASE Begin(t) BY <1>1, <1>2, <2>3 DEF Begin, Jobs
  <2>4. CASE GetTarget(t)
    <3>1. PICK seen : work' = [work EXCEPT ![t].pc = "compose", ![t].seen = seen]
      BY <1>4, <2>4 DEF GetTarget, Return
    <3>2. work'[t].desired = work[t].desired BY <1>1, <3>1 DEF Jobs
    <3> QED BY <1>2, <2>4, <3>2 DEF GetTarget
  <2>5. CASE Cleanup(t)
    <3>1. work' = [work EXCEPT ![t].pc = "removeFinalizer"]
      BY <1>4, <2>5 DEF Cleanup, Goto, Return
    <3>2. work'[t].desired = work[t].desired BY <1>1, <3>1 DEF Jobs
    <3> QED BY <1>2, <2>5, <3>2 DEF Cleanup
  <2>6. CASE ComposeFile(t)
    <3>1. PICK k \in FilesLeft(work[t]) : work' = [work EXCEPT ![t].desired =
             [f \in DOMAIN @ \cup {k} |-> IF f = k THEN store[k] ELSE @[f]]]
      BY <1>4, <2>6 DEF ComposeFile, Return
    <3>2. k \in Keys BY <1>1, <3>1 DEF FilesLeft, Jobs, Copies
    <3>3. work'[t].desired = [f \in DOMAIN work[t].desired \cup {k} |->
             IF f = k THEN store[k] ELSE work[t].desired[f]]
      BY <1>1, <3>1 DEF Jobs
    <3> QED BY <1>2, <2>6, <3>2, <3>3 DEF ComposeFile
  <2> QED BY <2>1, <2>2, <2>3, <2>4, <2>5, <2>6
<1> QED BY <1>3, <1>4

\* Every step of a task keeps the types, and the composed files apart.
LEMMA TaskStep ==
  ASSUME TypeOK, Rested, NEW t \in Procs \X Claims, Watch(t) \/ Reconciler(t)
  PROVE  TypeOK' /\ Rested'
<1>1. Tasks BY DEF TypeOK, Tasks
<1>2. t[2] \in Claims OBVIOUS
<1>3. Fault => faults' \in 0 .. MaxFaults BY DEF TypeOK, Fault
<1>4. ASSUME Return(t) \/ AwaitChange(t)
      PROVE  /\ Tasks'
             /\ \A u \in Procs \X Claims :
                  work'[u].pc # "compose" => work'[u].desired = Empty
  <2>1. Tasks' BY <1>1, <1>4, EndType
  <2>2. work' = [work EXCEPT ![t] = Idle] /\ Idle.desired = Empty
    BY <1>4 DEF Return, AwaitChange, Idle
  <2> QED BY <1>1, <2>1, <2>2 DEF Tasks, Rested
<1>5. CASE Watch(t)
  <2>1. cache' \in [Procs \X Claims -> Copies] BY <1>2, <1>5 DEF Watch, TypeOK
  <2>2. due' \subseteq Procs \X Claims BY <1>5 DEF Watch, Requeue, TypeOK
  <2> QED BY <1>5, <2>1, <2>2 DEF Watch, TypeOK, Rested
<1>6. CASE Begin(t)
  <2>1. cache[t] \in Copies BY DEF TypeOK
  <2>2. EventOf(cache[t]) \in {"addFinalizer", "get", "cleanup"}
    BY DEF EventOf, EventAtOnce
  <2>3. work[t] \in Jobs /\ work[t].desired = Empty /\ DOMAIN Empty = {}
    BY <1>6, StartType DEF Begin, TypeOK, Rested
  <2>4. work' = [work EXCEPT ![t] = [work[t] EXCEPT !.claim = cache[t],
                                                  !.pc = EventOf(cache[t])]]
    BY <1>1, <1>6 DEF Begin, Tasks
  <2>5. [work[t] EXCEPT !.claim = cache[t], !.pc = EventOf(cache[t])] \in Jobs
    BY <2>1, <2>2, <2>3 DEF Jobs
  <2>6. work' \in [Procs \X Claims -> Jobs] BY <1>1, <2>4, <2>5 DEF Tasks
  <2>7. work'[t].desired = Empty BY <1>1, <2>3, <2>4 DEF Jobs, Tasks
  <2>8. \A u \in Procs \X Claims :
          DOMAIN work'[u].desired \subseteq work'[u].claim.spec
    BY <1>1, <2>3, <2>4, <2>7 DEF Tasks
  <2>9. \A u \in Procs \X Claims : work'[u].pc # "compose" => work'[u].desired = Empty
    BY <1>1, <2>4, <2>7 DEF Tasks, Rested
  <2> QED BY <1>6, <2>6, <2>8, <2>9 DEF Begin, TypeOK, Rested
<1>7. CASE AddFinalizer(t)
  <2>1. claim' \in [Claims -> Copies]
    BY <1>2, <1>7, ClaimTypes DEF AddFinalizer, TypeOK
  <2> QED BY <1>3, <1>4, <1>7, <2>1 DEF AddFinalizer, TypeOK, Tasks, Rested
<1>8. CASE GetTarget(t)
  <2>1. CASE Return(t) BY <1>3, <1>4, <1>8, <2>1 DEF GetTarget, TypeOK, Tasks, Rested
  <2>2. CASE ~Return(t)
    <3> DEFINE seen == IF target = NoTarget THEN target ELSE Data(target)
    <3>1. seen \in Contents \cup {NoTarget}
      <4>1. ASSUME target \in Targets PROVE Data(target) \in Contents
        <5>1. PICK S \in SUBSET (Keys \cup Claims) : target \in [S -> Field]
          BY <4>1 DEF Targets
        <5>2. Data(target) \in [Keys \cap S -> Versions \cup {Edited}]
          BY <5>1 DEF Data, Field
        <5> QED BY <5>2 DEF Contents
      <4> QED BY <4>1 DEF TypeOK
    <3> HIDE DEF seen
    <3>2. work' = [work EXCEPT ![t] = [work[t] EXCEPT !.pc = "compose", !.seen = seen]]
          /\ UNCHANGED <<due, faults>>
      BY <1>1, <1>8, <2>2 DEF GetTarget, Tasks, seen
    <3>3. work[t] \in Jobs BY <1>1 DEF Tasks
    <3>4. [work[t] EXCEPT !.pc = "compose", !.seen = seen] \in Jobs
      BY <3>1, <3>3 DEF Jobs
    <3>5. [work[t] EXCEPT !.pc = "compose", !.seen = seen].desired = work[t].desired
          /\ [work[t] EXCEPT !.pc = "compose", !.seen = seen].claim = work[t].claim
          /\ [work[t] EXCEPT !.pc = "compose", !.seen = seen].pc = "compose"
      BY <3>3 DEF Jobs
    <3>6. Tasks' BY <1>1, <3>2, <3>4, <3>5 DEF Tasks
    <3>7. Rested' BY <1>1, <1>8, <3>2, <3>5 DEF GetTarget, Tasks, Rested
    <3> QED BY <1>8, <3>2, <3>6, <3>7 DEF GetTarget, TypeOK, Tasks
  <2> QED BY <2>1, <2>2
<1>9. CASE ComposeFile(t)
  <2>1. CASE Return(t) BY <1>3, <1>4, <1>9, <2>1 DEF ComposeFile, TypeOK, Tasks, Rested
  <2>2. CASE ~Return(t)
    <3>1. PICK k \in FilesLeft(work[t]) :
            /\ work' = [work EXCEPT ![t].desired =
                 [f \in DOMAIN @ \cup {k} |-> IF f = k THEN store[k] ELSE @[f]]]
            /\ UNCHANGED <<due, faults>>
      BY <1>9, <2>2 DEF ComposeFile
    <3> DEFINE old == work[t].desired
               files == [f \in DOMAIN old \cup {k} |-> IF f = k THEN store[k] ELSE old[f]]
    <3>2. work[t] \in Jobs /\ DOMAIN old \subseteq work[t].claim.spec
          /\ work[t].claim.spec \subseteq Keys
      BY <1>1 DEF Tasks, Jobs, Copies
    <3>3. k \in work[t].claim.spec BY DEF FilesLeft
    <3>4. files \in Composed /\ DOMAIN files \subseteq work[t].claim.spec
      <4>1. PICK S \in SUBSET Keys : old \in [S -> Versions] BY <3>2 DEF Jobs, Composed
      <4>2. store[k] \in Versions BY <3>2, <3>3 DEF TypeOK
      <4>3. files \in [S \cup {k} -> Versions] BY <4>1, <4>2
      <4>4. S \cup {k} \in SUBSET Keys BY <3>2, <3>3
      <4> QED BY <3>2, <3>3, <4>1, <4>3, <4>4 DEF Composed
    <3>5. work' = [work EXCEPT ![t] = [work[t] EXCEPT !.desired = files]]
      BY <1>1, <3>1 DEF Tasks
    <3> HIDE DEF files
    <3>6. /\ [work[t] EXCEPT !.desired = files] \in Jobs
          /\ [work[t] EXCEPT !.desired = files].desired = files
          /\ [work[t] EXCEPT !.desired = files].claim = work[t].claim
          /\ [work[t] EXCEPT !.desired = files].pc = "compose"
      BY <1>9, <3>2, <3>4 DEF Jobs, ComposeFile
    <3>7. Tasks'
      <4>1. work' \in [Procs \X Claims -> Jobs] BY <1>1, <3>5, <3>6 DEF Tasks
      <4>2. \A u \in Procs \X Claims :
              DOMAIN work'[u].desired \subseteq work'[u].claim.spec
        BY <1>1, <3>4, <3>5, <3>6 DEF Tasks
      <4>3. due' \subseteq Procs \X Claims BY <1>1, <3>1 DEF Tasks
      <4> QED BY <4>1, <4>2, <4>3 DEF Tasks
    <3>8. Rested' BY <1>1, <1>9, <3>5, <3>6 DEF ComposeFile, Tasks, Rested
    <3> QED BY <1>9, <3>1, <3>7, <3>8 DEF ComposeFile, TypeOK, Tasks
  <2> QED BY <2>1, <2>2
<1>10. CASE Write(t)
  <2>1. target' = NoTarget \/ target' \in Targets
    BY <1>10, WrittenType DEF Write, TypeOK
  <2> QED BY <1>3, <1>4, <1>10, <2>1 DEF Write, TypeOK, Tasks, Rested
<1>11. CASE NothingToWrite(t)
  BY <1>4, <1>11 DEF NothingToWrite, TypeOK, Tasks, Rested
<1>12. CASE Cleanup(t)
  <2>1. CASE Return(t) BY <1>3, <1>4, <1>12, <2>1 DEF Cleanup, TypeOK, Tasks, Rested
  <2>2. CASE ~Return(t)
    <3>1. work' = [work EXCEPT ![t] = [work[t] EXCEPT !.pc = "removeFinalizer"]]
          /\ UNCHANGED <<due, faults>>
      BY <1>1, <1>12, <2>2 DEF Cleanup, Goto, Tasks
    <3>2. work[t] \in Jobs /\ work[t].desired = Empty
      BY <1>1, <1>12 DEF Cleanup, Tasks, Rested
    <3>3. /\ [work[t] EXCEPT !.pc = "removeFinalizer"] \in Jobs
          /\ [work[t] EXCEPT !.pc = "removeFinalizer"].desired = Empty
          /\ [work[t] EXCEPT !.pc = "removeFinalizer"].claim = work[t].claim
      BY <3>2 DEF Jobs
    <3>4. Tasks' BY <1>1, <3>1, <3>2, <3>3 DEF Tasks
    <3>5. Rested' BY <1>1, <1>12, <3>1, <3>3 DEF Cleanup, Tasks, Rested
    <3> QED BY <1>12, <3>1, <3>4, <3>5 DEF Cleanup, TypeOK, Tasks
  <2> QED BY <2>1, <2>2
<1>13. CASE RemoveFinalizer(t)
  <2>1. claim' \in [Claims -> Copies]
    BY <1>2, <1>13, ClaimTypes DEF RemoveFinalizer, TypeOK
  <2> QED BY <1>3, <1>4, <1>13, <2>1 DEF RemoveFinalizer, TypeOK, Tasks, Rested
<1> QED BY <1>5, <1>6, <1>7, <1>8, <1>9, <1>10, <1>11, <1>12, <1>13 DEF Reconciler

\* Every other step keeps them too.
LEMMA EnvironmentStep ==
  ASSUME TypeOK, Rested, Environment \/ Collect \/ UNCHANGED vars
  PROVE  TypeOK' /\ Rested'
<1>1. Change => changes' = changes + 1 /\ changes' \in 0 .. MaxChanges
  BY DEF TypeOK, Change
<1>2. Fault => faults' \in 0 .. MaxFaults BY DEF TypeOK, Fault
<1>3. CASE UNCHANGED vars \/ Collect
  BY <1>3 DEF vars, Collect, TypeOK, Rested
<1>4. ASSUME NEW c \in Claims, CreateClaim(c) PROVE TypeOK' /\ Rested'
  <2>1. claim' \in [Claims -> Copies]
    <3>1. PICK S \in SUBSET Keys :
            claim' = [claim EXCEPT ![c].phase = "live", ![c].spec = S]
      BY <1>4 DEF CreateClaim
    <3>2. claim \in [Claims -> Copies] BY DEF TypeOK
    <3>3. claim' = [claim EXCEPT ![c] = [claim[c] EXCEPT !.phase = "live", !.spec = S]]
      BY <3>1, <3>2
    <3>4. [claim[c] EXCEPT !.phase = "live", !.spec = S] \in Copies
      BY <3>2 DEF Copies, Phases
    <3> QED BY <3>2, <3>3, <3>4
  <2> QED BY <1>4, <2>1 DEF CreateClaim, TypeOK, Rested
<1>5. ASSUME NEW c \in Claims, ChangeSpec(c) PROVE TypeOK' /\ Rested'
  <2>1. claim' \in [Claims -> Copies]
    BY <1>5 DEF ChangeSpec, TypeOK, Copies
  <2> QED BY <1>1, <1>5, <2>1 DEF ChangeSpec, TypeOK, Rested, Versions
<1>6. ASSUME NEW c \in Claims, DeleteClaim(c) PROVE TypeOK' /\ Rested'
  <2>1. claim' \in [Claims -> Copies]
    BY <1>6 DEF DeleteClaim, TypeOK, Copies, Phases
  <2> QED BY <1>6, <2>1 DEF DeleteClaim, TypeOK, Rested
<1>7. ASSUME NEW k \in Keys, ChangeStore(k) PROVE TypeOK' /\ Rested'
  <2>1. store' \in [Keys -> Versions] /\ \A j \in Keys : store'[j] <= changes'
    BY <1>1, <1>7 DEF ChangeStore, TypeOK, Rested, Versions
  <2> QED BY <1>1, <1>7, <2>1 DEF ChangeStore, TypeOK, Rested
<1>8. CASE DeleteTarget
  BY <1>1, <1>8 DEF DeleteTarget, TypeOK, Rested, Versions
<1>9. ASSUME NEW k \in Keys, EditTarget(k) PROVE TypeOK' /\ Rested'
  <2>1. PICK S \in SUBSET (Keys \cup Claims) : target \in [S -> Field]
    BY <1>9 DEF EditTarget, TypeOK, Targets
  <2>2. [val |-> Edited, by |-> {"user"}] \in Field BY DEF Field, Managers
  <2>3. target' \in [S \cup {k} -> Field] BY <1>9, <2>1, <2>2 DEF EditTarget
  <2>4. target' \in Targets BY <2>3 DEF Targets
  <2> QED BY <1>1, <1>9, <2>4 DEF EditTarget, TypeOK, Rested, Versions
<1>10. ASSUME NEW p \in Procs, Crash(p) PROVE TypeOK' /\ Rested'
  <2>1. cache' \in [Procs \X Claims -> Copies]
    BY <1>10, StartType DEF Crash, TypeOK
  <2>2. due' \subseteq Procs \X Claims BY <1>10 DEF Crash, TypeOK
  <2>3. DOMAIN Idle.desired \subseteq Idle.claim.spec /\ Idle.desired = Empty
    BY StartType DEF Idle
  <2>4. work' \in [Procs \X Claims -> Jobs] BY <1>10, StartType DEF Crash, TypeOK
  <2>5. \A u \in Procs \X Claims : work'[u] \in {work[u], Idle} BY <1>10 DEF Crash
  <2> QED BY <1>2, <1>10, <2>1, <2>2, <2>3, <2>4, <2>5 DEF Crash, TypeOK, Rested
<1> QED BY <1>3, <1>4, <1>5, <1>6, <1>7, <1>8, <1>9, <1>10 DEF Environment

-----------------------------------------------------------------------------
(* One owner *)

\* At first nothing in the target is the operator's.
LEMMA OwnedInit == Init => OwnedByOne
<1> SUFFICES ASSUME Init PROVE OwnedByOne
  OBVIOUS
<1>1. CASE target = NoTarget BY <1>1 DEF OwnedByOne, Touched
<1>2. CASE \E S \in SUBSET Keys :
             target = [k \in S |-> [val |-> Edited, by |-> {"user"}]]
  BY <1>2 DEF OwnedByOne, Touched
<1> QED BY <1>1, <1>2 DEF Init

\* Writes make one owner; a user who edits files neither adds an owner nor
\* makes an object the operator's.
LEMMA OwnedStep == TypeOK /\ OwnedByOne /\ [Next]_vars => OwnedByOne'
<1> SUFFICES ASSUME TypeOK, OwnedByOne, [Next]_vars PROVE OwnedByOne'
  OBVIOUS
<1>1. CASE target' = target BY <1>1 DEF OwnedByOne, Touched, Owners
<1>2. CASE target' = NoTarget BY <1>2 DEF OwnedByOne, Touched
<1>3. ASSUME NEW t \in Procs \X Claims, Write(t) PROVE OwnedByOne'
  <2>1. target' \in {target, Written(work[t], t[2])} BY <1>3 DEF Write
  <2>2. CASE target' # target
    <3>1. Cardinality(Owners(target')) = 1 BY <2>1, <2>2, WrittenType
    <3> QED BY <3>1 DEF OwnedByOne, Owners
  <2> QED BY <1>1, <2>2
<1>4. ASSUME NEW k \in Keys, EditTarget(k) PROVE OwnedByOne'
  <2>1. PICK S \in SUBSET (Keys \cup Claims) : target \in [S -> Field]
    BY <1>4 DEF EditTarget, TypeOK, Targets
  <2>2. DOMAIN target' = S \cup {k}
        /\ \A f \in S \cup {k} : target'[f] =
             IF f = k THEN [val |-> Edited, by |-> {"user"}] ELSE target[f]
    BY <1>4, <2>1 DEF EditTarget
  <2>3. Owners(target)' = Owners(target) BY <2>1, <2>2 DEF Owners
  <2>4. Touched' => Touched BY <1>4, <2>1, <2>2 DEF Touched, EditTarget
  <2> QED BY <2>3, <2>4 DEF OwnedByOne
<1>5. \/ target' = target \/ target' = NoTarget
      \/ \E t \in Procs \X Claims : Write(t)
      \/ \E k \in Keys : EditTarget(k)
  <2>1. ASSUME NEW t \in Procs \X Claims, Watch(t) \/ Reconciler(t)
        PROVE Write(t) \/ target' = target
    BY <2>1 DEF Watch, Reconciler, Begin, AddFinalizer, GetTarget, ComposeFile,
                NothingToWrite, Cleanup, RemoveFinalizer
  <2>2. ASSUME Environment \/ Collect \/ UNCHANGED vars
        PROVE \/ target' = target \/ target' = NoTarget
              \/ \E k \in Keys : EditTarget(k)
    BY <2>2 DEF Environment, Collect, vars, CreateClaim, ChangeSpec, DeleteClaim,
                ChangeStore, DeleteTarget, Crash
  <2> QED BY <2>1, <2>2 DEF Next
<1> QED BY <1>1, <1>2, <1>3, <1>4, <1>5

-----------------------------------------------------------------------------
(* The theorems that hold for any number of processes *)

Basis == TypeOK /\ Rested /\ OwnedByOne

\* Types, composed files and ownership are kept together.
THEOREM BasisKept == Spec => []Basis
<1>1. Init => Basis
  <2> SUFFICES ASSUME Init PROVE Basis
    OBVIOUS
  <2>1. Rested BY StartType DEF Init, Idle, Rested
  <2> QED BY <2>1, TypeInit, OwnedInit DEF Basis
<1>2. Basis /\ [Next]_vars => Basis'
  <2> SUFFICES ASSUME Basis, [Next]_vars PROVE Basis'
    OBVIOUS
  <2>1. TypeOK' /\ Rested' BY TaskStep, EnvironmentStep DEF Basis, Next
  <2> QED BY <2>1, OwnedStep DEF Basis
<1> QED BY <1>1, <1>2, PTL DEF Spec

\* Every variable of the claims keeps its type.
THEOREM TypeCorrect == Spec => []TypeOK
<1>1. Basis => TypeOK BY DEF Basis
<1> QED BY <1>1, BasisKept, PTL

\* Whatever claims and processes fight over a target, what the operator wrote
\* has exactly one owner.
THEOREM OneOwner == Spec => []OwnedByOne
<1>1. Basis => OwnedByOne BY DEF Basis
<1> QED BY <1>1, BasisKept, PTL

-----------------------------------------------------------------------------
(* One process: the finalizer holds the claim *)

\* At first no task runs and no copy is in a cache.
LEMMA GuardedInit == Init => \A t \in Procs \X Claims : Guarded(t)
BY DEF Init, Guarded, Absent, Idle

\* A task keeps all guarded, if no other one works on the same claim.
Alone(t) == \A u \in (Procs \X Claims) \ {t} :
              u[2] = t[2] => work[u].pc = "idle" /\ cache[u] = Absent

LEMMA GuardedTask ==
  ASSUME TypeOK, \A u \in Procs \X Claims : Guarded(u),
         NEW t \in Procs \X Claims, Alone(t), Watch(t) \/ Reconciler(t)
  PROVE  \A u \in Procs \X Claims : Guarded(u)'
<1>1. /\ claim \in [Claims -> Copies] /\ cache \in [Procs \X Claims -> Copies]
      /\ work \in [Procs \X Claims -> Jobs] /\ t[2] \in Claims
  BY DEF TypeOK
<1>2. ASSUME NEW u \in Procs \X Claims, cache'[u] = cache[u], work'[u] = work[u],
             claim'[u[2]] = claim[u[2]]
      PROVE  Guarded(u)'
  BY <1>2 DEF Guarded, Holds, Leaving
<1>3. /\ \A u \in Procs \X Claims : u # t => cache'[u] = cache[u] /\ work'[u] = work[u]
      /\ \A c \in Claims : c # t[2] => claim'[c] = claim[c]
  BY StepIsLocal
<1>4. ASSUME NEW u \in (Procs \X Claims) \ {t} PROVE Guarded(u)'
  <2>1. CASE u[2] # t[2] BY <1>2, <1>3, <2>1
  <2>2. CASE u[2] = t[2]
    BY <1>3, <2>2 DEF Alone, Absent, Guarded, Holds, Leaving
  <2> QED BY <2>1, <2>2
<1>5. ASSUME work' = [work EXCEPT ![t] = Idle] PROVE work'[t].pc = "idle"
  BY <1>1, <1>5 DEF Idle
<1>6. CASE Watch(t)
  <2>1. cache'[t] = claim[t[2]] /\ UNCHANGED <<claim, work>> BY <1>1, <1>6 DEF Watch
  <2>2. Guarded(t)' BY <2>1 DEF Guarded, Holds, Leaving
  <2> QED BY <1>4, <2>2
<1>7. CASE Begin(t)
  <2>1. /\ work'[t].pc = EventOf(cache[t]) /\ UNCHANGED <<claim, cache>>
        /\ cache[t].phase \in {"live", "deleting"}
    BY <1>1, <1>7 DEF Begin, Jobs
  <2>2. Guarded(t)' BY <2>1 DEF Guarded, Holds, Leaving, EventOf, EventAtOnce
  <2> QED BY <1>4, <2>2
<1>8. CASE AddFinalizer(t)
  <2>1. work'[t].pc = "idle" BY <1>5, <1>8 DEF AddFinalizer, Return, AwaitChange
  <2>2. claim' \in {claim, Finalized(t[2])} /\ UNCHANGED cache
    BY <1>8 DEF AddFinalizer
  <2>3. claim'[t[2]].phase = claim[t[2]].phase
        /\ (claim[t[2]].finalizer => claim'[t[2]].finalizer)
    BY <1>1, <2>2 DEF Finalized, Copies
  <2>4. Guarded(t)' BY <2>1, <2>2, <2>3 DEF Guarded, Holds, Leaving
  <2> QED BY <1>4, <2>4
<1>9. CASE GetTarget(t) \/ ComposeFile(t) \/ Write(t) \/ NothingToWrite(t) \/ Cleanup(t)
  <2>1. UNCHANGED <<claim, cache>>
    BY <1>9 DEF GetTarget, ComposeFile, Write, NothingToWrite, Cleanup
  <2> DEFINE Onwards ==
        \/ work'[t].pc = "idle"
        \/ work[t].pc \in {"get", "compose"} /\ work'[t].pc = "compose"
        \/ work[t].pc = "cleanup" /\ work'[t].pc = "removeFinalizer"
  <2>a. ASSUME Return(t) PROVE Onwards BY <1>5, <2>a DEF Return
  <2>b. ASSUME GetTarget(t) PROVE Onwards
    <3>1. CASE Return(t) BY <2>a, <3>1
    <3>2. CASE ~Return(t)
      <4>1. work[t].pc = "get" BY <2>b DEF GetTarget
      <4>2. PICK seen : work' = [work EXCEPT ![t].pc = "compose", ![t].seen = seen]
        BY <2>b, <3>2 DEF GetTarget
      <4>3. work'[t].pc = "compose" BY <1>1, <4>2 DEF Jobs
      <4> QED BY <4>1, <4>3
    <3> QED BY <3>1, <3>2
  <2>c. ASSUME ComposeFile(t) PROVE Onwards
    <3>1. CASE Return(t) BY <2>a, <3>1
    <3>2. CASE ~Return(t)
      <4>1. work[t].pc = "compose" BY <2>c DEF ComposeFile
      <4>2. PICK k : work' = [work EXCEPT ![t].desired =
               [f \in DOMAIN @ \cup {k} |-> IF f = k THEN store[k] ELSE @[f]]]
        BY <2>c, <3>2 DEF ComposeFile
      <4>3. work'[t].pc = work[t].pc BY <1>1, <4>2 DEF Jobs
      <4> QED BY <4>1, <4>3
    <3> QED BY <3>1, <3>2
  <2>d. ASSUME Write(t) PROVE Onwards BY <2>a, <2>d DEF Write
  <2>e. ASSUME NothingToWrite(t) PROVE Onwards BY <2>a, <2>e DEF NothingToWrite
  <2>f. ASSUME Cleanup(t) PROVE Onwards
    <3>1. CASE Return(t) BY <2>a, <3>1
    <3>2. CASE Goto(t, "removeFinalizer")
      <4>1. work[t].pc = "cleanup" BY <2>f DEF Cleanup
      <4>2. work'[t].pc = "removeFinalizer" BY <1>1, <3>2 DEF Goto, Jobs
      <4> QED BY <4>1, <4>2
    <3> QED BY <2>f, <3>1, <3>2 DEF Cleanup
  <2>2. Onwards BY <1>9, <2>b, <2>c, <2>d, <2>e, <2>f
  <2>3. Guarded(t)' BY <2>1, <2>2 DEF Guarded, Holds, Leaving
  <2> QED BY <1>4, <2>3
<1>10. CASE RemoveFinalizer(t)
  <2>1. work[t].pc = "removeFinalizer" /\ work'[t].pc = "idle"
    BY <1>5, <1>10 DEF RemoveFinalizer, Return, AwaitChange
  <2>2. claim' \in {claim, Released(t[2])} /\ UNCHANGED cache
    BY <1>10 DEF RemoveFinalizer
  <2>3. claim'[t[2]].phase \in {claim[t[2]].phase, "gone"}
    BY <1>1, <2>2 DEF Released, Copies
  <2>4. Guarded(t)' BY <2>1, <2>2, <2>3 DEF Guarded, Holds, Leaving
  <2> QED BY <1>4, <2>4
<1> QED BY <1>6, <1>7, <1>8, <1>9, <1>10 DEF Reconciler

\* So does everything else: a claim that is held is only deleted, not gone.
LEMMA GuardedEnvironment ==
  ASSUME TypeOK, \A u \in Procs \X Claims : Guarded(u),
         Environment \/ Collect \/ UNCHANGED vars
  PROVE  \A u \in Procs \X Claims : Guarded(u)'
<1>1. claim \in [Claims -> Copies] /\ \A u \in Procs \X Claims : u[2] \in Claims
  BY DEF TypeOK
<1>2. CASE UNCHANGED <<claim, cache, work>>
  BY <1>2 DEF Guarded, Holds, Leaving
<1>3. ASSUME UNCHANGED <<cache, work>>,
             \A c \in Claims : (Holds(c) => Holds(c)') /\ (Leaving(c) => Leaving(c)')
      PROVE  \A u \in Procs \X Claims : Guarded(u)'
  BY <1>1, <1>3 DEF Guarded
<1>4. ASSUME NEW c \in Claims, CreateClaim(c) \/ ChangeSpec(c) \/ DeleteClaim(c)
      PROVE  \A u \in Procs \X Claims : Guarded(u)'
  <2>1. UNCHANGED <<cache, work>>
    BY <1>4 DEF CreateClaim, ChangeSpec, DeleteClaim
  <2>2. \A d \in Claims \ {c} : claim'[d] = claim[d]
    BY <1>1, <1>4 DEF CreateClaim, ChangeSpec, DeleteClaim
  <2>3. claim'[c].finalizer = claim[c].finalizer
    BY <1>1, <1>4 DEF CreateClaim, ChangeSpec, DeleteClaim, Copies
  <2>4. \/ claim[c].phase = "absent"
        \/ claim'[c].phase = claim[c].phase
        \/ claim[c].phase = "live" /\ ~claim[c].finalizer
        \/ claim[c].phase = "live" /\ claim'[c].phase = "deleting"
    BY <1>1, <1>4 DEF CreateClaim, ChangeSpec, DeleteClaim, Copies
  <2>5. \A d \in Claims : (Holds(d) => Holds(d)') /\ (Leaving(d) => Leaving(d)')
    BY <2>2, <2>3, <2>4 DEF Holds, Leaving
  <2> QED BY <1>3, <2>1, <2>5
<1>5. ASSUME NEW p \in Procs, Crash(p)
      PROVE  \A u \in Procs \X Claims : Guarded(u)'
  <2>1. UNCHANGED claim BY <1>5 DEF Crash
  <2>2. \A u \in Procs \X Claims :
           u[1] # p => work'[u] = work[u] /\ cache'[u] = cache[u]
    BY <1>5 DEF Crash
  <2>3. ASSUME NEW u \in Procs \X Claims PROVE Guarded(u)'
    <3>1. CASE u[1] = p
      <4>1. work'[u].pc = "idle" BY <1>5, <3>1 DEF Crash, Idle
      <4>2. cache'[u] \in {claim[u[2]], Absent} BY <1>5, <3>1 DEF Crash
      <4> QED BY <2>1, <4>1, <4>2 DEF Guarded, Holds, Leaving, Absent
    <3>2. CASE u[1] # p
      BY <2>1, <2>2, <3>2 DEF Guarded, Holds, Leaving
    <3> QED BY <3>1, <3>2
  <2> QED BY <2>3
<1> QED BY <1>2, <1>4, <1>5 DEF Environment, Collect, DeleteTarget, ChangeStore,
           EditTarget, vars

\* With one process, a task that is to write finds its claim there, and the
\* finalizer on it.
THEOREM Invariant == ASSUME \A p, q \in Procs : p = q PROVE Spec => []Inv
<1> DEFINE All == TypeOK /\ Rested /\ \A t \in Procs \X Claims : Guarded(t)
<1>1. Spec => [](TypeOK /\ Rested)
  <2>1. Basis => TypeOK /\ Rested BY DEF Basis
  <2> QED BY <2>1, BasisKept, PTL
<1>2. Init => \A t \in Procs \X Claims : Guarded(t) BY GuardedInit
<1>3. (TypeOK /\ Rested) /\ (\A t \in Procs \X Claims : Guarded(t)) /\ [Next]_vars
        => (\A t \in Procs \X Claims : Guarded(t))'
  <2> SUFFICES ASSUME TypeOK, \A t \in Procs \X Claims : Guarded(t), [Next]_vars
               PROVE \A t \in Procs \X Claims : Guarded(t)'
    OBVIOUS
  <2>1. \A t \in Procs \X Claims : Alone(t) BY DEF Alone
  <2> QED BY <2>1, GuardedTask, GuardedEnvironment DEF Next
<1>4. (TypeOK /\ Rested) /\ (\A t \in Procs \X Claims : Guarded(t)) => Inv
  BY DEF Inv, Rested
<1> QED BY <1>1, <1>2, <1>3, <1>4, PTL DEF Spec

\* With one process, nothing is written for a claim that is gone, whatever
\* crashes, retries and late tasks there are.
THEOREM NoLateWrites ==
  ASSUME \A p, q \in Procs : p = q PROVE Spec => WritesForExistingClaims
<1>1. Inv /\ [Next]_vars =>
        [\A t \in Procs \X Claims :
           work[t].pc = "compose" /\ work'[t].pc = "idle" /\ target' # target
             => claim[t[2]].phase \in {"live", "deleting"}]_vars
  BY DEF Inv, Guarded, Holds
<1> QED BY <1>1, Invariant, PTL DEF Spec, WritesForExistingClaims

-----------------------------------------------------------------------------
(* The files of others *)

\* A reconciliation ends without a change of the target, or with the write.
LEMMA EndOfTask ==
  ASSUME TypeOK, [Next]_vars, NEW t \in Procs \X Claims,
         work[t].pc = "compose", work'[t].pc = "idle"
  PROVE  target' \in {target, Written(work[t], t[2])}
<1>1. ASSUME NEW u \in Procs \X Claims, Watch(u) \/ Reconciler(u)
      PROVE  target' \in {target, Written(work[t], t[2])}
  <2>1. u = t BY <1>1, StepIsLocal
  <2> QED BY <1>1, <2>1, StepOfTask
<1>2. CASE UNCHANGED target BY <1>2
<1>3. UNCHANGED work => FALSE OBVIOUS
<1> QED BY <1>1, <1>2, <1>3
    DEF Next, Environment, CreateClaim, ChangeSpec, DeleteClaim, ChangeStore,
        EditTarget, DeleteTarget, Crash, Collect, vars

\* Whatever else happens to a target, a file that only a user has set and that
\* the claim does not name survives every write, as it is.
THEOREM ForeignKeys == Spec => ForeignKeysKept
<1>1. TypeOK /\ [Next]_vars =>
        [\A t \in Procs \X Claims :
           work[t].pc = "compose" /\ work'[t].pc = "idle" /\ target # NoTarget
             => \A k \in (Keys \cap DOMAIN target) \ work[t].claim.spec :
                  target[k].by = {"user"} =>
                    k \in DOMAIN target' /\ target'[k] = target[k]]_vars
  <2> SUFFICES ASSUME TypeOK, [Next]_vars, NEW t \in Procs \X Claims,
                      work[t].pc = "compose", work'[t].pc = "idle",
                      target # NoTarget,
                      NEW k \in (Keys \cap DOMAIN target) \ work[t].claim.spec,
                      target[k].by = {"user"}
               PROVE  k \in DOMAIN target' /\ target'[k] = target[k]
    OBVIOUS
  <2>1. k \notin DOMAIN work[t].desired BY DEF TypeOK
  <2> QED BY <2>1, EndOfTask, WrittenKeeps
<1> QED BY <1>1, TypeCorrect, PTL DEF Spec, ForeignKeysKept
=============================================================================
