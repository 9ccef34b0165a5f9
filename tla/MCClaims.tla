------------------------------ MODULE MCClaims ------------------------------
(* Small instances of Claims for TLC. *)
EXTENDS Claims, TLC

CONSTANTS c1, c2, k1, k2, r1, r2

\* Claims, keys and processes are interchangeable in the safety runs.
Symmetry == Permutations(Claims) \cup Permutations(Keys) \cup Permutations(Procs)
=============================================================================
