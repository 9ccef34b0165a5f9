------------------------------ MODULE Schedule ------------------------------
(***************************************************************************)
(* When a claim is reconciled: the refresh interval of its spec, the       *)
(* retries after an error, the events and lists of the watch, restarts -   *)
(* and what the metrics make of it.  One process, the controller of one    *)
(* kind of claims, time in seconds.                                        *)
(*                                                                         *)
(* The interval of a claim is a string to the API server and a duration to *)
(* the operator, so a claim can be stored that the operator cannot read.   *)
(* The finalizer is in module Claims; here a reconciliation succeeds or    *)
(* fails as a whole.                                                       *)
(***************************************************************************)
EXTENDS Integers, Sequences, FiniteSets, FiniteSetsExt

CONSTANTS
  Claims,          \* the claims, of any namespace
  NameOf,          \* their names, without the namespace
  Errors,          \* texts of errors
  Durations,       \* intervals that users write, in milliseconds
  MaxMillis,       \* what a chrono Duration holds
  DefaultSeconds,  \* the interval of a claim without one
  ErrorSeconds,    \* the delay of error_policy
  MaxChanges,      \* bound: changes by users
  MaxFaults,       \* bound: failed calls and crashes
  Unset, Garbled,  \* no interval; one that is no duration
  Absent           \* no such claim

ASSUME DurationsAssumption == Durations \subseteq Nat /\ MaxMillis \in Nat
ASSUME DelaysAssumption ==
  DefaultSeconds \in Nat \ {0} /\ ErrorSeconds \in Nat \ {0}
ASSUME ClaimsAssumption == IsFiniteSet(Claims)
ASSUME AbsentAssumption == Absent \notin Durations \cup {Unset, Garbled}
ASSUME BoundsAssumption == MaxChanges \in Nat /\ MaxFaults \in Nat

VARIABLES
  claim,      \* the interval of each stored claim
  phase,      \* where the controller stands
  cache,      \* the reflector store
  events,     \* what the open watch has yet to deliver of each claim
  timer,      \* seconds until the next reconciliation
  run,        \* the copy that a reconciliation under way works on
  measurers,  \* reconciliations counted and not yet observed
  failures,   \* the family of failure counters
  failed,     \* history: failed reconciliations of each claim
  burst,      \* history: runs of a claim in this second since a prompt
  changes,    \* changes so far
  faults      \* faults so far

stats == <<measurers, failures, failed>>
vars == <<claim, phase, cache, events, timer, run, stats, burst, changes, faults>>

\* The schema of the CRD admits any string.
Texts == Durations \cup {Unset, Garbled}

\* An event carries the whole claim, that of a deletion the claim as it was.
Events == [type : {"Applied", "Deleted"}, text : Texts]
Off == -1
Names == {NameOf[c] : c \in Claims}

TypeOK ==
  /\ claim \in [Claims -> Texts \cup {Absent}]
  /\ phase \in {"down", "query", "list", "watch", "relist"}
  /\ cache \in [Claims -> Texts \cup {Absent}]
  /\ events \in [Claims -> Seq(Events)]
  /\ timer \in [Claims -> Nat \cup {Off}]
  /\ run \in [Claims -> Texts \cup {Absent}]
  /\ measurers \in 0 .. Cardinality(Claims)
  /\ DOMAIN failures \subseteq Names \X Errors
  /\ \A s \in DOMAIN failures : failures[s] \in 1 .. MaxFaults
  /\ failed \in [Claims -> 0 .. MaxFaults]
  /\ burst \in [Claims -> 0 .. 2]
  /\ changes \in 0 .. MaxChanges
  /\ faults \in 0 .. MaxFaults

Nothing == [c \in Claims |-> Absent]
NoEvents == [c \in Claims |-> <<>>]
NoSeries == [s \in {} |-> 0]

Init ==
  /\ claim \in [Claims -> {Absent, Unset}]
  /\ phase = "down"
  /\ cache = Nothing /\ run = Nothing /\ events = NoEvents
  /\ timer = [c \in Claims |-> Off]
  /\ measurers = 0 /\ failures = NoSeries
  /\ failed = [c \in Claims |-> 0]
  /\ burst = [c \in Claims |-> 0]
  /\ changes = 0 /\ faults = 0

Fault == faults < MaxFaults /\ faults' = faults + 1

-----------------------------------------------------------------------------
(* RefreshInterval *)

\* from_str: what humantime accepts may be more than chrono holds, which
\* panics.
TooLong(t) == t \in Durations /\ t > MaxMillis
Malformed(t) == t = Garbled \/ TooLong(t)

\* as_seconds drops the fraction.  (A mutated model converts twice.)
AsMinutes(t) == t \div 60000
AsSeconds(t) == t \div 1000

\* get_refresh_interval
RefreshSeconds(t) == IF t = Unset THEN DefaultSeconds ELSE AsSeconds(t)

-----------------------------------------------------------------------------
(* Metrics *)

\* The series of a failure: the name of the claim and the text of the error.
\* (A mutated model creates the series and forgets to count.)
Series(c, e) == <<NameOf[c], e>>
Created(s) ==
  failures' = [x \in DOMAIN failures \cup {s} |->
                 IF x \in DOMAIN failures THEN failures[x] ELSE 1]
SetFailure(s) ==
  failures' = [x \in DOMAIN failures \cup {s} |->
                 IF x \notin DOMAIN failures THEN 1
                 ELSE IF x = s THEN failures[x] + 1 ELSE failures[x]]

CountAndMeasure == measurers' = measurers + 1
Observe == measurers' = measurers - 1

-----------------------------------------------------------------------------
(* The process *)

\* The end of the process, by exit or panic; all it knew goes with it.
Die ==
  /\ phase' = "down"
  /\ cache' = Nothing /\ run' = Nothing /\ events' = NoEvents
  /\ timer' = [c \in Claims |-> Off]
  /\ measurers' = 0 /\ failures' = NoSeries
  /\ failed' = [c \in Claims |-> 0]
  /\ burst' = [c \in Claims |-> 0]

Start ==
  /\ phase = "down"
  /\ phase' = "query"
  /\ UNCHANGED <<claim, cache, events, timer, run, stats, burst, changes, faults>>

Stored == {c \in Claims : claim[c] # Absent}

\* controller::run asks for one claim, which must be readable.
Query ==
  /\ phase = "query"
  /\ \/ /\ Stored = {} \/ \E c \in Stored : ~Malformed(claim[c])
        /\ phase' = "list"
        /\ UNCHANGED <<cache, events, timer, run, stats, burst, faults>>
     \/ (\E c \in Stored : Malformed(claim[c])) /\ Die /\ UNCHANGED faults
     \/ Fault /\ Die
  /\ UNCHANGED <<claim, changes>>

\* The watcher lists all claims at the start, or when it has lost its place:
\* one claim that cannot be read fails the list, one that panics ends the
\* process.  A list makes every claim due.
List ==
  /\ phase \in {"list", "relist"}
  /\ \/ /\ \A c \in Stored : ~Malformed(claim[c])
        /\ phase' = "watch"
        /\ cache' = claim
        /\ timer' = [c \in Claims |-> IF c \in Stored THEN 0 ELSE timer[c]]
        /\ burst' = [c \in Claims |-> 0]
        /\ UNCHANGED <<events, run, stats>>
     \/ (\E c \in Stored : TooLong(claim[c])) /\ Die
  /\ UNCHANGED <<claim, changes, faults>>

LoseWatch ==
  /\ phase = "watch" /\ Fault
  /\ phase' = "relist" /\ events' = NoEvents
  /\ UNCHANGED <<claim, cache, timer, run, stats, burst, changes>>

\* An event that cannot be read is skipped: the copy stays as it was, even when
\* the claim is deleted.
Watch(c) ==
  /\ phase = "watch" /\ events[c] # <<>>
  /\ LET e == Head(events[c]) IN
     \/ /\ ~Malformed(e.text)
        /\ cache' = [cache EXCEPT ![c] = IF e.type = "Deleted" THEN Absent ELSE e.text]
        /\ timer' = [timer EXCEPT ![c] = IF e.type = "Deleted" THEN @ ELSE 0]
        /\ burst' = [burst EXCEPT ![c] = 0]
        /\ events' = [events EXCEPT ![c] = Tail(@)]
        /\ UNCHANGED <<phase, run, stats>>
     \/ /\ e.text = Garbled
        /\ events' = [events EXCEPT ![c] = Tail(@)]
        /\ UNCHANGED <<phase, cache, timer, run, stats, burst>>
     \/ TooLong(e.text) /\ Die
  /\ UNCHANGED <<claim, changes, faults>>

\* The scheduler keeps the earlier of two times for the same claim.
Schedule(c, s) ==
  timer' = [timer EXCEPT ![c] = IF @ # Off /\ @ < s THEN @ ELSE s]

-----------------------------------------------------------------------------
(* A reconciliation, and what follows *)

Begin(c) ==
  /\ phase \in {"watch", "relist"} /\ timer[c] = 0 /\ run[c] = Absent
  /\ timer' = [timer EXCEPT ![c] = Off]
  /\ \/ cache[c] = Absent /\ UNCHANGED <<run, stats, burst>>
     \/ /\ cache[c] # Absent
        /\ run' = [run EXCEPT ![c] = cache[c]]
        /\ burst' = [burst EXCEPT ![c] = IF @ < 2 THEN @ + 1 ELSE 2]
        /\ CountAndMeasure /\ UNCHANGED <<failures, failed>>
  /\ UNCHANGED <<claim, phase, cache, events, changes, faults>>

Succeed(c) ==
  /\ run[c] # Absent
  /\ run' = [run EXCEPT ![c] = Absent]
  /\ Schedule(c, RefreshSeconds(run[c]))
  /\ Observe /\ UNCHANGED <<failures, failed>>
  /\ UNCHANGED <<claim, phase, cache, events, burst, changes, faults>>

\* error_policy: the failure is counted and the claim is tried again later.
\* (A mutated model waits for a change instead.)
AwaitChange(c) == UNCHANGED timer
Retry(c) == Schedule(c, ErrorSeconds)
Fail(c) ==
  /\ run[c] # Absent /\ Fault
  /\ run' = [run EXCEPT ![c] = Absent]
  /\ Retry(c)
  /\ Observe
  /\ \E e \in Errors : SetFailure(Series(c, e))
  /\ failed' = [failed EXCEPT ![c] = @ + 1]
  /\ UNCHANGED <<claim, phase, cache, events, burst, changes>>

Crash == phase # "down" /\ Fault /\ Die /\ UNCHANGED <<claim, changes>>

-----------------------------------------------------------------------------
(* Users and time *)

Delivered(c, e) ==
  events' = IF phase = "watch" THEN [events EXCEPT ![c] = Append(@, e)] ELSE events
WriteClaim(c) ==
  /\ changes < MaxChanges
  /\ changes' = changes + 1
  /\ \/ \E t \in Texts \ {claim[c]} :
          /\ claim' = [claim EXCEPT ![c] = t]
          /\ Delivered(c, [type |-> "Applied", text |-> t])
     \/ /\ claim[c] # Absent
        /\ claim' = [claim EXCEPT ![c] = Absent]
        /\ Delivered(c, [type |-> "Deleted", text |-> claim[c]])
  /\ UNCHANGED <<phase, cache, timer, run, stats, burst, faults>>

Tick ==
  /\ timer' = [c \in Claims |-> IF timer[c] > 0 THEN timer[c] - 1 ELSE timer[c]]
  /\ burst' = [c \in Claims |-> 0]
  /\ UNCHANGED <<claim, phase, cache, events, run, stats, changes, faults>>

Next ==
  \/ Start \/ Query \/ List \/ LoseWatch \/ Crash \/ Tick
  \/ \E c \in Claims :
       Watch(c) \/ Begin(c) \/ Succeed(c) \/ Fail(c) \/ WriteClaim(c)

Spec == Init /\ [][Next]_vars

\* The kubelet restarts the process, calls return, events arrive, timers
\* expire; no user has to do anything.
Fairness ==
  /\ WF_vars(Start) /\ WF_vars(Query) /\ WF_vars(List) /\ WF_vars(Tick)
  /\ \A c \in Claims :
       WF_vars(Watch(c)) /\ WF_vars(Begin(c)) /\ WF_vars(Succeed(c) \/ Fail(c))

FairSpec == Spec /\ Fairness

-----------------------------------------------------------------------------
(* Properties *)

\* A claim that nothing prompts runs at most once a second, also after errors
\* and when runs, events and lists overlap - unless its interval is shorter
\* than a second, which as_seconds makes no delay at all.
Hasty(c) == cache[c] \in Durations /\ cache[c] < 1000
OneRunPerSecond == \A c \in Claims : burst[c] <= 1 \/ Hasty(c)

\* Why that holds: once a claim has run in this second, a run under way works
\* on the cached copy and nothing is due - until time passes or a prompt.
Readable == Durations \cup {Unset, Absent}
Spaced(c) ==
  burst[c] # 0 /\ ~Hasty(c) =>
    /\ burst[c] = 1
    /\ timer[c] # 0
    /\ run[c] # Absent => run[c] = cache[c]
Inv ==
  /\ TypeOK
  /\ cache \in [Claims -> Readable]
  /\ run \in [Claims -> Readable]
  /\ measurers = Cardinality({c \in Claims : run[c] # Absent})
  /\ \A s \in DOMAIN failures : failures[s] <= faults
  /\ \A c \in Claims : failed[c] <= faults
  /\ \A c \in Claims : Spaced(c)

\* Every run is measured once, and every failure of the claims of
\* one name, whatever their namespace, is in one of the series of that name.
MetricsAddUp ==
  /\ measurers = Cardinality({c \in Claims : run[c] # Absent})
  /\ \A n \in Names :
       MapThenSumSet(LAMBDA s : failures[s], {s \in DOMAIN failures : s[1] = n})
         = MapThenSumSet(LAMBDA c : failed[c], {c \in Claims : NameOf[c] = n})

\* A stored claim is reconciled again and again as it is stored, whatever
\* failed, crashed or got lost before.  A malformed claim is not served itself,
\* and keeps the others from being served only when the watch is to be opened.
Served ==
  \A c \in Claims :
    \/ []<>(run[c] # Absent /\ run[c] = claim[c])
    \/ <>[](claim[c] = Absent \/ Malformed(claim[c]))
    \/ <>[](phase # "watch" /\ \E d \in Claims : Malformed(claim[d]))
=============================================================================
