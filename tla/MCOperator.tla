----------------------------- MODULE MCOperator -----------------------------
(* Small instances of Operator for TLC. *)
EXTENDS Operator, TLC

CONSTANTS c1, k1, p1, p2

Pods == Permutations(Procs)
=============================================================================
