------------------------------- MODULE Trees -------------------------------
(***************************************************************************)
(* JSON objects as trees.  An object is the function that says what is at  *)
(* each of its paths, a path being the keys that lead there: a leaf, or an *)
(* object that has the paths below.  A leaf is any other value; an array   *)
(* is a leaf, since merging replaces it as a whole.                        *)
(***************************************************************************)
EXTENDS Integers, SequencesExt

CONSTANTS
  Keys,    \* of objects
  Values,  \* leaves
  Object   \* what is at a path that has others below

ASSUME ObjectAssumption == Object \notin Values

IsTree(t) ==
  /\ t \in [DOMAIN t -> Values \cup {Object}]
  /\ DOMAIN t \subseteq Seq(Keys) \ {<<>>}
  /\ \A p \in DOMAIN t : \A n \in 1 .. Len(p) - 1 :
       /\ SubSeq(p, 1, n) \in DOMAIN t
       /\ t[SubSeq(p, 1, n)] = Object

Leaves(t) == {<<p, t[p]>> : p \in {q \in DOMAIN t : t[q] # Object}}

\* What is above a path of a tree is an object: nothing cuts the path off.
CutOff(q, s) == \E r \in DOMAIN s : IsStrictPrefix(r, q) /\ s[r] # Object

\* Bugs that merging could have; a mutated model puts one in.
MergedShallow(target, source) ==
  [p \in DOMAIN source \cup
         {q \in DOMAIN target : \A r \in DOMAIN source : ~IsStrictPrefix(r, q)} |->
     IF p \in DOMAIN source THEN source[p] ELSE target[p]]

\* What merge_json makes of two objects: the source where it has anything, and
\* the target elsewhere, but for what is below a leaf of the source.
Merged(target, source) ==
  [p \in DOMAIN source \cup {q \in DOMAIN target : ~CutOff(q, source)} |->
     IF p \in DOMAIN source THEN source[p] ELSE target[p]]
=============================================================================
