-------------------------- MODULE Schedule_proofs --------------------------
(* Theorems about Schedule, for every set of claims, every interval and      *)
(* delay, and every number of changes and faults.                            *)
EXTENDS Schedule, DataLemmas

USE DurationsAssumption, DelaysAssumption, BoundsAssumption, ClaimsAssumption,
    AbsentAssumption

-----------------------------------------------------------------------------
(* Lemmas about the helpers *)

\* A readable copy gives a delay, and none but a hasty one gives no delay.
LEMMA Delays ==
  ASSUME NEW t \in Durations \cup {Unset}
  PROVE  /\ RefreshSeconds(t) \in Nat
         /\ RefreshSeconds(t) = 0 => t \in Durations /\ t < 1000
<1>1. CASE t = Unset BY <1>1 DEF RefreshSeconds
<1>2. CASE t # Unset /\ t \in Durations
  <2>1. t \in Nat BY <1>2
  <2>2. RefreshSeconds(t) = t \div 1000 BY <1>2 DEF RefreshSeconds, AsSeconds
  <2>3. t \div 1000 \in Nat /\ (t \div 1000 = 0 => t < 1000) BY <2>1
  <2> QED BY <1>2, <2>2, <2>3
<1> QED BY <1>1, <1>2

\* What is stored and not malformed is readable.
LEMMA ReadableCopies ==
  \A t \in Texts \cup {Absent} : ~Malformed(t) => t \in Readable
BY DEF Texts, Malformed, Readable

\* The scheduler keeps a timer a timer, and never makes a delay zero.
LEMMA Scheduled ==
  ASSUME timer \in [Claims -> Nat \cup {Off}], NEW c \in Claims, NEW s \in Nat,
         Schedule(c, s)
  PROVE  /\ timer' \in [Claims -> Nat \cup {Off}]
         /\ \A d \in Claims \ {c} : timer'[d] = timer[d]
         /\ timer[c] # 0 /\ s # 0 => timer'[c] # 0
BY DEF Schedule, Off

\* The claims with a reconciliation under way are finitely many; one more or
\* one less changes their number by one.
Running(r) == {c \in Claims : r[c] # Absent}

LEMMA RunningFinite ==
  \A r : /\ IsFiniteSet(Running(r))
         /\ Cardinality(Running(r)) \in 0 .. Cardinality(Claims)
<1> SUFFICES ASSUME NEW r
             PROVE /\ IsFiniteSet(Running(r))
                   /\ Cardinality(Running(r)) \in 0 .. Cardinality(Claims)
  OBVIOUS
<1>1. Running(r) \subseteq Claims BY DEF Running
<1>2. IsFiniteSet(Running(r)) /\ Cardinality(Running(r)) <= Cardinality(Claims)
  BY <1>1, FS_Subset
<1>3. Cardinality(Running(r)) \in Nat /\ Cardinality(Claims) \in Nat
  BY <1>2, FS_CardinalityType
<1> QED BY <1>2, <1>3

LEMMA OneMore ==
  ASSUME run \in [Claims -> Readable], NEW c \in Claims, run[c] = Absent,
         NEW t, t # Absent, run' = [run EXCEPT ![c] = t]
  PROVE  Cardinality(Running(run')) = Cardinality(Running(run)) + 1
<1>1. Running(run') = Running(run) \cup {c} BY DEF Running
<1>2. c \notin Running(run) BY DEF Running
<1> QED BY <1>1, <1>2, RunningFinite, FS_AddElement

LEMMA OneLess ==
  ASSUME run \in [Claims -> Readable], NEW c \in Claims, run[c] # Absent,
         run' = [run EXCEPT ![c] = Absent]
  PROVE  Cardinality(Running(run')) = Cardinality(Running(run)) - 1
<1>1. Running(run') = Running(run) \ {c} BY DEF Running
<1>2. c \in Running(run) BY DEF Running
<1> QED BY <1>1, <1>2, RunningFinite, FS_RemoveElement

LEMMA NoneRunning == Cardinality(Running(Nothing)) = 0
<1>1. Running(Nothing) = {} BY DEF Running, Nothing
<1> QED BY <1>1, FS_EmptySet

-----------------------------------------------------------------------------
(* The types *)

\* The end of the process keeps the types, whatever else happens.
LEMMA TypeDie ==
  ASSUME Die
  PROVE  /\ phase' = "down"
         /\ cache' \in [Claims -> Readable] /\ run' \in [Claims -> Readable]
         /\ events' \in [Claims -> Seq(Events)]
         /\ timer' \in [Claims -> Nat \cup {Off}]
         /\ measurers' \in 0 .. Cardinality(Claims)
         /\ measurers' = Cardinality(Running(run'))
         /\ DOMAIN failures' = {}
         /\ failed' = [c \in Claims |-> 0] /\ burst' = [c \in Claims |-> 0]
<1>1. Cardinality(Claims) \in Nat BY FS_CardinalityType
<1> QED BY <1>1, NoneRunning DEF Die, Nothing, NoEvents, NoSeries, Readable, Off

\* The running claims, counted by the type and by the metrics.
LEMMA MeasurersStep == Inv /\ [Next]_vars => measurers' = Cardinality(Running(run'))
<1> SUFFICES ASSUME Inv, [Next]_vars PROVE measurers' = Cardinality(Running(run'))
  OBVIOUS
<1>1. measurers = Cardinality(Running(run)) /\ run \in [Claims -> Readable]
  BY DEF Inv, Running
<1>2. CASE UNCHANGED <<run, measurers>> BY <1>1, <1>2
<1>3. CASE Die BY <1>3, TypeDie
<1>4. CASE \E c \in Claims : Begin(c) /\ cache[c] # Absent
  <2> PICK c \in Claims : Begin(c) /\ cache[c] # Absent BY <1>4
  <2>1. run[c] = Absent /\ run' = [run EXCEPT ![c] = cache[c]]
        /\ measurers' = measurers + 1
    BY DEF Begin, CountAndMeasure
  <2> QED BY <1>1, <2>1, OneMore
<1>5. CASE \E c \in Claims : Succeed(c) \/ Fail(c)
  <2> PICK c \in Claims : Succeed(c) \/ Fail(c) BY <1>5
  <2>1. run[c] # Absent /\ run' = [run EXCEPT ![c] = Absent]
        /\ measurers' = measurers - 1
    BY DEF Succeed, Fail, Observe
  <2> QED BY <1>1, <2>1, OneLess
<1>6. \/ UNCHANGED <<run, measurers>> \/ Die
      \/ \E c \in Claims : \/ Begin(c) /\ cache[c] # Absent
                          \/ Succeed(c) \/ Fail(c)
  BY DEF Next, Start, Query, List, LoseWatch, Crash, Tick, Watch, Begin,
         WriteClaim, vars, stats
<1> QED BY <1>2, <1>3, <1>4, <1>5, <1>6

\* Every step keeps the types of what the process and the users hold.
Held ==
  /\ claim \in [Claims -> Texts \cup {Absent}]
  /\ phase \in {"down", "query", "list", "watch", "relist"}
  /\ cache \in [Claims -> Readable]
  /\ events \in [Claims -> Seq(Events)]
  /\ timer \in [Claims -> Nat \cup {Off}]
  /\ run \in [Claims -> Readable]
  /\ changes \in 0 .. MaxChanges
  /\ faults \in 0 .. MaxFaults

LEMMA HeldStep == Held /\ [Next]_vars => Held'
<1> SUFFICES ASSUME Held, [Next]_vars PROVE Held'
  OBVIOUS
<1> USE DEF Held
<1>1. ASSUME Fault PROVE faults' \in 0 .. MaxFaults
  BY <1>1 DEF Fault
<1>2. CASE UNCHANGED vars BY <1>2 DEF vars, stats
<1>3. CASE Start BY <1>3 DEF Start, stats
<1>4. CASE Query BY <1>4, <1>1, TypeDie DEF Query, stats
<1>5. CASE List
  <2>1. CASE Die BY <1>5, <2>1, TypeDie DEF List
  <2>2. CASE ~Die
    <3>1. \A c \in Claims : claim[c] \in Readable
      BY <1>5, <2>2, ReadableCopies DEF List, Stored, Readable
    <3>2. cache' \in [Claims -> Readable] BY <1>5, <2>2, <3>1 DEF List
    <3>3. timer' \in [Claims -> Nat \cup {Off}] BY <1>5, <2>2 DEF List
    <3> QED BY <1>5, <2>2, <3>2, <3>3 DEF List, stats
  <2> QED BY <2>1, <2>2
<1>6. CASE LoseWatch BY <1>6, <1>1 DEF LoseWatch, NoEvents, stats
<1>7. CASE Crash BY <1>7, <1>1, TypeDie DEF Crash
<1>8. CASE Tick
  <2>1. timer' \in [Claims -> Nat \cup {Off}] BY <1>8 DEF Tick, Off
  <2> QED BY <1>8, <2>1 DEF Tick, stats
<1>9. ASSUME NEW c \in Claims, Watch(c) PROVE Held'
  <2>1. CASE Die BY <1>9, <2>1, TypeDie DEF Watch
  <2>2. CASE ~Die
    <3> DEFINE e == Head(events[c])
    <3>1. events[c] \in Seq(Events) /\ events[c] # <<>> BY <1>9 DEF Watch
    <3>2. e \in Events /\ Tail(events[c]) \in Seq(Events) BY <3>1
    <3>3. e.text \in Texts BY <3>2 DEF Events
    <3> HIDE DEF e
    <3>4. ~Malformed(e.text) => e.text \in Readable BY <3>3, ReadableCopies
    <3>5. Absent \in Readable BY DEF Readable
    <3>6. /\ events' = [events EXCEPT ![c] = Tail(events[c])]
          /\ \/ /\ ~Malformed(e.text)
                /\ cache' = [cache EXCEPT ![c] = IF e.type = "Deleted" THEN Absent ELSE e.text]
                /\ timer' = [timer EXCEPT ![c] = IF e.type = "Deleted" THEN @ ELSE 0]
             \/ UNCHANGED <<cache, timer>>
          /\ UNCHANGED <<phase, run, claim, changes, faults>>
      BY <1>9, <2>2 DEF Watch, e
    <3>7. events' \in [Claims -> Seq(Events)] BY <3>2, <3>6
    <3>8. cache' \in [Claims -> Readable] BY <3>4, <3>5, <3>6
    <3>9. timer' \in [Claims -> Nat \cup {Off}] BY <3>6
    <3> QED BY <3>6, <3>7, <3>8, <3>9
  <2> QED BY <2>1, <2>2
<1>10. ASSUME NEW c \in Claims, Begin(c) PROVE Held'
  BY <1>10 DEF Begin, Off
<1>11. ASSUME NEW c \in Claims, Succeed(c) PROVE Held'
  <2>1. run[c] \in Durations \cup {Unset} BY <1>11 DEF Succeed, Readable
  <2>2. timer' \in [Claims -> Nat \cup {Off}]
    <3>1. RefreshSeconds(run[c]) \in Nat BY ONLY <2>1, Delays
    <3>2. Schedule(c, RefreshSeconds(run[c])) BY <1>11 DEF Succeed
    <3> QED BY <3>1, <3>2, Scheduled
  <2> QED BY <1>11, <2>2 DEF Succeed, Readable
<1>12. ASSUME NEW c \in Claims, Fail(c) PROVE Held'
  <2>1. timer' \in [Claims -> Nat \cup {Off}]
    BY <1>12, Scheduled DEF Fail, Retry
  <2> QED BY <1>12, <1>1, <2>1 DEF Fail, Readable
<1>13. ASSUME NEW c \in Claims, WriteClaim(c) PROVE Held'
  <2>1. ASSUME NEW e \in Events, Delivered(c, e)
        PROVE  events' \in [Claims -> Seq(Events)]
    BY <2>1 DEF Delivered
  <2>2. PICK t \in Texts \cup {Absent}, e \in Events :
          claim' = [claim EXCEPT ![c] = t] /\ Delivered(c, e)
    BY <1>13 DEF WriteClaim, Events
  <2>3. events' \in [Claims -> Seq(Events)] BY <2>1, <2>2
  <2>4. claim' \in [Claims -> Texts \cup {Absent}] BY <2>2
  <2>5. changes' \in 0 .. MaxChanges BY <1>13 DEF WriteClaim
  <2> QED BY <1>13, <2>3, <2>4, <2>5 DEF WriteClaim, stats
<1> QED BY <1>2, <1>3, <1>4, <1>5, <1>6, <1>7, <1>8, <1>9, <1>10, <1>11, <1>12,
           <1>13 DEF Next

\* Every step keeps the types of the metrics and of the history.
Counted ==
  /\ DOMAIN failures \subseteq Names \X Errors
  /\ \A s \in DOMAIN failures : failures[s] \in 1 .. faults
  /\ failed \in [Claims -> 0 .. faults]
  /\ burst \in [Claims -> 0 .. 2]

LEMMA CountedStep == Held /\ Counted /\ [Next]_vars => Counted'
<1> SUFFICES ASSUME Held, Counted, [Next]_vars PROVE Counted'
  OBVIOUS
<1>0. faults \in Nat /\ (Fault => faults' = faults + 1)
  BY DEF Held, Fault
<1>1. CASE UNCHANGED <<failures, failed>> /\ burst' \in [Claims -> 0 .. 2]
           /\ (Fault \/ UNCHANGED faults)
  BY <1>0, <1>1 DEF Counted
<1>2. CASE Die
  <2>1. faults' \in Nat BY HeldStep DEF Held
  <2> QED BY <1>2, <2>1, TypeDie DEF Counted
<1>3. ASSUME NEW c \in Claims, Fail(c) PROVE Counted'
  <2>1. faults' = faults + 1 BY <1>0, <1>3 DEF Fail
  <2>2. PICK e \in Errors : SetFailure(Series(c, e)) BY <1>3 DEF Fail
  <2>3. Series(c, e) \in Names \X Errors BY DEF Series, Names
  <2>4. /\ DOMAIN failures' \subseteq Names \X Errors
        /\ \A s \in DOMAIN failures' : failures'[s] \in 1 .. faults'
    BY <1>0, <2>1, <2>2, <2>3 DEF Counted, SetFailure
  <2>5. failed' \in [Claims -> 0 .. faults']
    BY <1>0, <1>3, <2>1 DEF Counted, Fail
  <2> QED BY <1>3, <2>4, <2>5 DEF Counted, Fail
<1>4. ASSUME NEW c \in Claims, Watch(c) \/ Begin(c) \/ Succeed(c) \/ WriteClaim(c)
      PROVE \/ Die
            \/ UNCHANGED <<failures, failed>> /\ burst' \in [Claims -> 0 .. 2]
               /\ UNCHANGED faults
  BY <1>4 DEF Counted, Watch, Begin, Succeed, WriteClaim, stats
<1>5. ASSUME UNCHANGED vars \/ Start \/ Query \/ List \/ LoseWatch \/ Crash \/ Tick
      PROVE \/ Die
            \/ UNCHANGED <<failures, failed>> /\ burst' \in [Claims -> 0 .. 2]
               /\ (Fault \/ UNCHANGED faults)
  BY <1>5 DEF Counted, Start, Query, List, LoseWatch, Crash, Tick, vars, stats
<1> QED BY <1>1, <1>2, <1>3, <1>4, <1>5 DEF Next

-----------------------------------------------------------------------------
(* Runs keep their distance *)

\* Every step keeps the runs of a claim apart, unless it is a hasty one.
LEMMA SpacedStep ==
  ASSUME Held, Counted, \A c \in Claims : Spaced(c), [Next]_vars
  PROVE  \A c \in Claims : Spaced(c)'
<1>1. CASE UNCHANGED <<cache, run, timer, burst>>
  BY <1>1 DEF Spaced, Hasty
<1>2. ASSUME NEW c \in Claims, burst'[c] = 0 PROVE Spaced(c)'
  BY <1>2 DEF Spaced
<1>3. CASE \A c \in Claims : burst'[c] = 0 BY <1>2, <1>3
<1>4. ASSUME NEW c \in Claims, NEW d \in Claims, d # c,
             cache'[d] = cache[d], run'[d] = run[d], timer'[d] = timer[d],
             burst'[d] = burst[d]
      PROVE Spaced(d)'
  BY <1>4 DEF Spaced, Hasty
<1>5. CASE UNCHANGED vars \/ Start \/ Query \/ List \/ LoseWatch \/ Crash \/ Tick
  <2>1. \/ UNCHANGED <<cache, run, timer, burst>>
        \/ \A c \in Claims : burst'[c] = 0
    BY <1>5 DEF Start, Query, List, LoseWatch, Crash, Tick, Die, vars
  <2> QED BY <1>1, <1>3, <2>1
<1>6. ASSUME NEW c \in Claims, Watch(c) PROVE \A d \in Claims : Spaced(d)'
  <2>1. CASE Die BY <1>3, <2>1 DEF Die
  <2>2. CASE UNCHANGED <<cache, run, timer, burst>> BY <1>1, <2>2
  <2>3. CASE ~Die /\ ~UNCHANGED <<cache, run, timer, burst>>
    <3>1. burst'[c] = 0 BY <1>6, <2>3 DEF Watch, Counted
    <3>2. ASSUME NEW d \in Claims, d # c PROVE Spaced(d)'
      BY <1>4, <1>6, <2>3, <3>2 DEF Watch, Held, Counted
    <3> QED BY <1>2, <3>1, <3>2
  <2> QED BY <2>1, <2>2, <2>3
<1>7. ASSUME NEW c \in Claims, Begin(c) PROVE \A d \in Claims : Spaced(d)'
  <2>1. ASSUME NEW d \in Claims, d # c PROVE Spaced(d)'
    BY <1>4, <1>7, <2>1 DEF Begin, Held, Counted
  <2>2. timer[c] = 0 /\ timer'[c] # 0 /\ UNCHANGED cache
    BY <1>7 DEF Begin, Held, Off
  <2>3. burst[c] = 0 \/ Hasty(c) BY <2>2 DEF Spaced
  <2>4. ASSUME burst[c] = 0, cache[c] # Absent PROVE Spaced(c)'
    <3>1. burst'[c] = 1 /\ run'[c] = cache[c]
      BY <1>7, <2>4 DEF Begin, Held, Counted
    <3> QED BY <2>2, <3>1 DEF Spaced
  <2>5. burst[c] = 0 /\ cache[c] = Absent => burst'[c] = 0 BY <1>7 DEF Begin
  <2>6. Hasty(c) => Spaced(c)' BY <2>2 DEF Spaced, Hasty
  <2>7. Spaced(c)' BY <1>2, <2>3, <2>4, <2>5, <2>6
  <2> QED BY <2>1, <2>7
<1>8. ASSUME NEW c \in Claims, NEW s \in Nat, Schedule(c, s),
             run[c] # Absent, run' = [run EXCEPT ![c] = Absent],
             UNCHANGED <<cache, burst>>,
             run[c] = cache[c] /\ ~Hasty(c) => s # 0
      PROVE \A d \in Claims : Spaced(d)'
  <2>1. \A d \in Claims \ {c} : timer'[d] = timer[d]
    BY <1>8, Scheduled DEF Held
  <2>2. ASSUME NEW d \in Claims, d # c PROVE Spaced(d)'
    BY <1>4, <1>8, <2>1, <2>2 DEF Held
  <2>3. timer[c] # 0 /\ s # 0 => timer'[c] # 0
    BY <1>8, Scheduled DEF Held
  <2>4. Spaced(c)' BY <1>8, <2>3 DEF Spaced, Hasty, Held
  <2> QED BY <2>2, <2>4
<1>9. ASSUME NEW c \in Claims, Succeed(c) PROVE \A d \in Claims : Spaced(d)'
  <2>1. run[c] \in Durations \cup {Unset}
    BY <1>9 DEF Succeed, Held, Readable
  <2>2. /\ RefreshSeconds(run[c]) \in Nat
        /\ RefreshSeconds(run[c]) = 0 => run[c] \in Durations /\ run[c] < 1000
    BY ONLY <2>1, Delays
  <2>3. run[c] = cache[c] /\ ~Hasty(c) => RefreshSeconds(run[c]) # 0
    BY ONLY <2>2 DEF Hasty
  <2>4. /\ Schedule(c, RefreshSeconds(run[c])) /\ run[c] # Absent
        /\ run' = [run EXCEPT ![c] = Absent] /\ UNCHANGED <<cache, burst>>
    BY <1>9 DEF Succeed
  <2> QED BY <1>8, <2>2, <2>3, <2>4
<1>10. ASSUME NEW c \in Claims, Fail(c) PROVE \A d \in Claims : Spaced(d)'
  BY <1>8, <1>10 DEF Fail, Retry
<1>11. ASSUME NEW c \in Claims, WriteClaim(c) PROVE \A d \in Claims : Spaced(d)'
  BY <1>1, <1>11 DEF WriteClaim
<1> QED BY <1>5, <1>6, <1>7, <1>9, <1>10, <1>11 DEF Next

-----------------------------------------------------------------------------
(* The theorems *)

\* The invariant is the conjunction of the parts that the steps keep.
LEMMA Parts ==
  Inv <=> /\ Held /\ Counted
           /\ measurers = Cardinality(Running(run))
           /\ \A c \in Claims : Spaced(c)
<1>1. Inv => Held /\ Counted
  BY DEF TypeOK, Inv, Held, Counted
<1>2. ASSUME Held, Counted, measurers = Cardinality(Running(run)),
             \A c \in Claims : Spaced(c)
      PROVE  Inv
  <2>1. Readable \subseteq Texts \cup {Absent} BY DEF Readable, Texts
  <2>2. faults \in 0 .. MaxFaults BY <1>2 DEF Held
  <2>3. measurers \in 0 .. Cardinality(Claims) BY <1>2, RunningFinite
  <2>4. \A s \in DOMAIN failures : failures[s] \in 1 .. MaxFaults /\ failures[s] <= faults
    BY <1>2, <2>2 DEF Counted
  <2>5. failed \in [Claims -> 0 .. MaxFaults] /\ \A c \in Claims : failed[c] <= faults
    BY <1>2, <2>2 DEF Counted
  <2>6. TypeOK BY <1>2, <2>1, <2>2, <2>3, <2>4, <2>5 DEF TypeOK, Held, Counted
  <2> QED BY <1>2, <2>4, <2>5, <2>6 DEF Inv, Held, Running
<1> QED BY <1>1, <1>2 DEF Inv, Running

LEMMA InvInit == Init => Inv
<1> SUFFICES ASSUME Init PROVE Inv
  OBVIOUS
<1>1. Held BY DEF Init, Held, Nothing, NoEvents, Texts, Readable, Off
<1>2. Counted BY DEF Init, Counted, NoSeries
<1>3. measurers = Cardinality(Running(run)) BY NoneRunning DEF Init
<1>4. \A c \in Claims : Spaced(c) BY DEF Init, Spaced
<1> QED BY <1>1, <1>2, <1>3, <1>4, Parts

LEMMA InvStep == Inv /\ [Next]_vars => Inv'
<1> SUFFICES ASSUME Inv, [Next]_vars PROVE Inv'
  OBVIOUS
<1>1. Held /\ Counted /\ \A c \in Claims : Spaced(c) BY Parts
<1>2. Held' /\ Counted' BY <1>1, HeldStep, CountedStep
<1>3. measurers' = Cardinality(Running(run')) BY MeasurersStep
<1>4. \A c \in Claims : Spaced(c)' BY <1>1, SpacedStep
<1>5. (Held /\ Counted /\ measurers = Cardinality(Running(run))
        /\ \A c \in Claims : Spaced(c))' => Inv'
  BY Parts, PTL
<1> QED BY <1>2, <1>3, <1>4, <1>5

\* The types, and: every reconciliation is measured once, no copy of a malformed
\* claim is ever worked on, and after a run nothing is due in the same second.
THEOREM Invariant == Spec => []Inv
<1>1. Init => Inv BY InvInit
<1>2. Inv /\ [Next]_vars => Inv' BY InvStep
<1> QED BY <1>1, <1>2, PTL DEF Spec

\* Every variable of the schedule keeps its type.
THEOREM TypeCorrect == Spec => []TypeOK
<1>1. Inv => TypeOK BY DEF Inv
<1> QED BY <1>1, Invariant, PTL

\* However retries, events, lists and intervals overlap, a claim that nothing
\* prompts runs at most once in a second, unless its interval is shorter.
THEOREM RunsKeepDistance == Spec => []OneRunPerSecond
<1>1. Inv => OneRunPerSecond
  <2> SUFFICES ASSUME Inv, NEW c \in Claims, ~Hasty(c) PROVE burst[c] <= 1
    BY DEF OneRunPerSecond
  <2>1. burst[c] \in 0 .. 2 /\ Spaced(c) BY DEF Inv, TypeOK
  <2> QED BY <2>1 DEF Spaced
<1> QED BY <1>1, Invariant, PTL

-----------------------------------------------------------------------------
(* The metrics add up *)

\* The series and the claims of one name.
SeriesOf(f, n) == {s \in DOMAIN f : s[1] = n}
ClaimsOf(n) == {c \in Claims : NameOf[c] = n}
Balanced ==
  /\ IsFiniteSet(DOMAIN failures)
  /\ \A n \in Names : Sum(failures, SeriesOf(failures, n)) = Sum(failed, ClaimsOf(n))

\* That is what MetricsAddUp says, with the measurers.
LEMMA BalancedIs == Inv /\ Balanced => MetricsAddUp
BY DEF Inv, Balanced, MetricsAddUp, Sum, SeriesOf, ClaimsOf, MapThenSumSet,
       MapThenFoldSet

\* The claims of a name are finitely many.
LEMMA ClaimsOfFinite == \A n : IsFiniteSet(ClaimsOf(n)) /\ ClaimsOf(n) \subseteq Claims
BY FS_Subset DEF ClaimsOf

\* A process that has just started has counted nothing.
LEMMA NothingCounted ==
  ASSUME NEW g, g = [c \in Claims |-> 0]
  PROVE  /\ IsFiniteSet(DOMAIN NoSeries)
         /\ \A n \in Names : Sum(NoSeries, SeriesOf(NoSeries, n)) = Sum(g, ClaimsOf(n))
<1>1. DOMAIN NoSeries = {} BY DEF NoSeries
<1>2. IsFiniteSet(DOMAIN NoSeries) BY <1>1, FS_EmptySet
<1>3. ASSUME NEW n \in Names
      PROVE  Sum(NoSeries, SeriesOf(NoSeries, n)) = Sum(g, ClaimsOf(n))
  <2>1. SeriesOf(NoSeries, n) = {} BY <1>1 DEF SeriesOf
  <2>2. \A c \in ClaimsOf(n) : g[c] = 0 BY DEF ClaimsOf
  <2>3. Sum(g, ClaimsOf(n)) = 0 BY <2>2, ClaimsOfFinite, SumZero
  <2> QED BY <2>1, <2>3, SumEmpty
<1> QED BY <1>2, <1>3

\* A failure that is counted in a series makes the series of its name add up to
\* one more, whether it was there before or not.
LEMMA OneFailure ==
  ASSUME IsFiniteSet(DOMAIN failures),
         \A s \in DOMAIN failures : failures[s] \in Nat,
         NEW n, NEW e, SetFailure(<<n, e>>), NEW m
  PROVE  /\ IsFiniteSet(DOMAIN failures')
         /\ Sum(failures', SeriesOf(failures', m)) =
              Sum(failures, SeriesOf(failures, m)) + IF m = n THEN 1 ELSE 0
<1> DEFINE s == <<n, e>>
           F == SeriesOf(failures, m)
<1>1. /\ DOMAIN failures' = DOMAIN failures \cup {s}
      /\ \A x \in DOMAIN failures \ {s} : failures'[x] = failures[x]
      /\ s \in DOMAIN failures => failures'[s] = failures[s] + 1
      /\ s \notin DOMAIN failures => failures'[s] = 1
  BY DEF SetFailure
<1>2. IsFiniteSet(DOMAIN failures') BY <1>1, FS_AddElement
<1>3. s[1] = n OBVIOUS
<1> HIDE DEF s
<1>4. IsFiniteSet(F) /\ F \subseteq DOMAIN failures BY FS_Subset DEF SeriesOf
<1>5. \A x \in F : failures[x] \in Nat BY <1>4
<1>6. Sum(failures, F) \in Nat BY <1>4, <1>5, SumType
<1>7. CASE m # n
  <2>1. SeriesOf(failures', m) = F BY <1>1, <1>3, <1>7 DEF SeriesOf
  <2>2. \A x \in F : failures'[x] = failures[x] BY <1>1, <1>3, <1>7 DEF SeriesOf
  <2>3. Sum(failures', F) = Sum(failures, F) BY <1>4, <2>2, SumSame
  <2> QED BY <1>2, <1>6, <1>7, <2>1, <2>3
<1>8. CASE m = n /\ s \in DOMAIN failures
  <2>1. SeriesOf(failures', m) = F BY <1>1, <1>8 DEF SeriesOf
  <2>2. s \in F BY <1>3, <1>8 DEF SeriesOf
  <2>3. failures'[s] = failures[s] + 1 /\ \A x \in F \ {s} : failures'[x] = failures[x]
    BY <1>1, <1>4, <1>8
  <2> HIDE DEF F
  <2>4. Sum(failures', F) = Sum(failures, F) + 1
    BY <1>4, <1>5, <2>2, <2>3, SumGrows
  <2> QED BY <1>2, <1>8, <2>1, <2>4 DEF F
<1>9. CASE m = n /\ s \notin DOMAIN failures
  <2>1. SeriesOf(failures', m) = F \cup {s} BY <1>1, <1>3, <1>9 DEF SeriesOf
  <2>2. s \notin F BY <1>4, <1>9
  <2>3. failures'[s] = 1 /\ \A x \in F : failures'[x] = failures[x]
    BY <1>1, <1>4, <1>9
  <2> HIDE DEF F
  <2>4. \A x \in F \cup {s} : failures'[x] \in Nat BY <1>5, <2>3
  <2>5. Sum(failures', F \cup {s}) = Sum(failures', F) + failures'[s]
    BY <1>4, <2>2, <2>4, SumAdd
  <2>6. Sum(failures', F) = Sum(failures, F) BY <1>4, <2>3, SumSame
  <2> QED BY <1>2, <1>9, <2>1, <2>3, <2>5, <2>6 DEF F
<1> QED BY <1>7, <1>8, <1>9

\* Every step keeps the balance: a failure adds one on both sides.
LEMMA BalancedStep == Inv /\ Balanced /\ [Next]_vars => Balanced'
<1> SUFFICES ASSUME Inv, Balanced, [Next]_vars PROVE Balanced'
  OBVIOUS
<1>1. CASE UNCHANGED <<failures, failed>>
  BY <1>1 DEF Balanced
<1>2. CASE Die
  <2>1. failures' = NoSeries /\ failed' = [c \in Claims |-> 0] BY <1>2 DEF Die
  <2> QED BY <2>1, NothingCounted DEF Balanced
<1>3. ASSUME NEW c \in Claims, Fail(c) PROVE Balanced'
  <2>1. PICK e \in Errors : SetFailure(<<NameOf[c], e>>) BY <1>3 DEF Fail, Series
  <2>2. failed' = [failed EXCEPT ![c] = @ + 1] BY <1>3 DEF Fail
  <2>3. failed \in [Claims -> 0 .. MaxFaults] /\ MaxFaults \in Nat
        /\ \A s \in DOMAIN failures : failures[s] \in 1 .. MaxFaults
    BY DEF Inv, TypeOK
  <2>4. /\ failed'[c] = failed[c] + 1
        /\ \A d \in Claims \ {c} : failed'[d] = failed[d]
        /\ \A d \in Claims : failed[d] \in Nat
    BY <2>2, <2>3
  <2>5. IsFiniteSet(DOMAIN failures) /\ \A s \in DOMAIN failures : failures[s] \in Nat
    BY <2>3 DEF Balanced
  <2>6. ASSUME NEW n \in Names
        PROVE  Sum(failed', ClaimsOf(n)) =
                 Sum(failed, ClaimsOf(n)) + IF n = NameOf[c] THEN 1 ELSE 0
    <3>1. IsFiniteSet(ClaimsOf(n)) /\ ClaimsOf(n) \subseteq Claims BY ClaimsOfFinite
    <3>2. Sum(failed, ClaimsOf(n)) \in Nat BY <2>4, <3>1, SumType
    <3>3. CASE n = NameOf[c]
      <4>1. c \in ClaimsOf(n) BY <3>3 DEF ClaimsOf
      <4>2. /\ \A d \in ClaimsOf(n) : failed[d] \in Nat
            /\ \A d \in ClaimsOf(n) \ {c} : failed'[d] = failed[d]
        BY <2>4, <3>1
      <4>3. Sum(failed', ClaimsOf(n)) = Sum(failed, ClaimsOf(n)) + 1
        BY <2>4, <3>1, <4>1, <4>2, SumGrows
      <4> QED BY <3>3, <4>3
    <3>4. CASE n # NameOf[c]
      <4>1. \A d \in ClaimsOf(n) : failed'[d] = failed[d]
        BY <2>4, <3>4 DEF ClaimsOf
      <4>2. Sum(failed', ClaimsOf(n)) = Sum(failed, ClaimsOf(n))
        BY <3>1, <4>1, SumSame
      <4> QED BY <3>2, <3>4, <4>2
    <3> QED BY <3>3, <3>4
  <2>7. ASSUME NEW n \in Names
        PROVE  Sum(failures', SeriesOf(failures', n)) = Sum(failed', ClaimsOf(n))
    <3>1. Sum(failures', SeriesOf(failures', n)) =
            Sum(failures, SeriesOf(failures, n)) + IF n = NameOf[c] THEN 1 ELSE 0
      BY <2>1, <2>5, OneFailure
    <3>2. Sum(failures, SeriesOf(failures, n)) = Sum(failed, ClaimsOf(n))
      BY DEF Balanced
    <3> QED BY <2>6, <3>1, <3>2
  <2>8. IsFiniteSet(DOMAIN failures') BY <2>1, <2>5, OneFailure
  <2> QED BY <2>7, <2>8 DEF Balanced
<1>4. ASSUME NEW c \in Claims, Watch(c) \/ Begin(c) \/ Succeed(c) \/ WriteClaim(c)
      PROVE  Die \/ UNCHANGED <<failures, failed>>
  BY <1>4 DEF Watch, Begin, Succeed, WriteClaim, stats
<1>5. ASSUME UNCHANGED vars \/ Start \/ Query \/ List \/ LoseWatch \/ Crash \/ Tick
      PROVE  Die \/ UNCHANGED <<failures, failed>>
  BY <1>5 DEF Start, Query, List, LoseWatch, Crash, Tick, vars, stats
<1> QED BY <1>1, <1>2, <1>3, <1>4, <1>5 DEF Next

\* Every run is measured once, and the failure series of a name, whatever errors
\* they are split into, add up to the failures of the claims of that name.
THEOREM MetricsAgree == Spec => []MetricsAddUp
<1>1. Init => Balanced
  <2> SUFFICES ASSUME Init PROVE Balanced
    OBVIOUS
  <2>1. failures = NoSeries /\ failed = [c \in Claims |-> 0] BY DEF Init
  <2> QED BY <2>1, NothingCounted DEF Balanced
<1>2. Inv /\ Balanced /\ [Next]_vars => Balanced' BY BalancedStep
<1>3. Inv /\ Balanced => MetricsAddUp BY BalancedIs
<1> QED BY <1>1, <1>2, <1>3, InvInit, InvStep, PTL DEF Spec
=============================================================================
