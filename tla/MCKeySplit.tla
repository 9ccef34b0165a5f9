----------------------------- MODULE MCKeySplit -----------------------------
(* A small instance of KeySplit for TLC. *)
EXTENDS KeySplit, TLC

CONSTANTS a, b, sep

LetterSymmetry == Permutations(Letters)
=============================================================================
