-------------------------- MODULE MCLeaderElection --------------------------
(* Small instances of LeaderElection for TLC. *)
EXTENDS LeaderElection, TLC

CONSTANTS p1, p2, p3

\* All pods take part in the election, so they are interchangeable.
Symmetry == Permutations(Pods)
=============================================================================
