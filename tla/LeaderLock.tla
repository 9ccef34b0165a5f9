----------------------------- MODULE LeaderLock -----------------------------
(* What leader election promises: a lock that one pod at a time holds, and   *)
(* that its owner keeps while it works.  The promise ends with the first     *)
(* event that breaks it; from then on anything may happen.                   *)

CONSTANTS Pods, Nobody

VARIABLES owner, working, broken

vars == <<owner, working, broken>>

Init == owner = Nobody /\ working = {} /\ broken = FALSE

Acquire(p) == owner = Nobody /\ owner' = p /\ UNCHANGED working
Begin(p) == owner = p /\ working' = working \cup {p} /\ UNCHANGED owner
End(p) == p \in working /\ working' = working \ {p} /\ UNCHANGED owner
Release == owner \notin working /\ owner' = Nobody /\ UNCHANGED working

Kept ==
  /\ ~broken /\ ~broken'
  /\ \/ \E p \in Pods : Acquire(p) \/ Begin(p) \/ End(p)
     \/ Release

Broken ==
  /\ broken'
  /\ owner' \in Pods \cup {Nobody}
  /\ working' \in SUBSET Pods

Next == Kept \/ Broken

Spec == Init /\ [][Next]_vars
=============================================================================
