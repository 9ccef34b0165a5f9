---------------------------- MODULE MCMergeJson ----------------------------
(* Small instances of MergeJson for TLC. *)
EXTENDS MergeJson, FiniteSetsExt

\* Every object with at most four paths of at most three keys.
Paths == BoundedSeq(Keys, 3) \ {<<>>}
SmallObjects ==
  {t \in UNION {[d -> Values \cup {Object}] : d \in UNION {kSubset(n, Paths) : n \in 0 .. 4}} :
     IsTree(t)}
=============================================================================
