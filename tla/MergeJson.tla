----------------------------- MODULE MergeJson -----------------------------
(***************************************************************************)
(* merge_json, call by call.  It walks through the keys of the source and  *)
(* calls itself where both sides have an object; anywhere else the value   *)
(* of the source replaces what the target has.  Here the keys that it has  *)
(* yet to visit, on whatever level, are taken in any order.  (Its names    *)
(* are unlike those of Compose, as one module proves theorems of both.)    *)
(***************************************************************************)
EXTENDS Trees

CONSTANT Objects  \* objects to merge

ASSUME ObjectsAssumption == \A t \in Objects : IsTree(t)

VARIABLES
  original, \* the target before the call
  source,   \* the object that is merged into it
  target,   \* the target as merged so far
  todo      \* the keys of the source to visit, each with the path to it

mergeVars == <<original, source, target, todo>>

MergeTypeOK ==
  /\ IsTree(original) /\ IsTree(source)
  /\ target \in [DOMAIN target -> Values \cup {Object}]
  /\ DOMAIN target \subseteq DOMAIN original \cup DOMAIN source
  /\ todo \subseteq DOMAIN source

\* The keys of the object that is found at p, with their paths.
KeysAt(p, t) == {q \in DOMAIN t : Len(q) = Len(p) + 1 /\ IsPrefix(p, q)}

FirstCall ==
  /\ original \in Objects /\ source \in Objects
  /\ target = original
  /\ todo = KeysAt(<<>>, source)

\* Bugs that merging could have; a mutated model puts one in.
SourceHasObject(p) == source[p] = Object
Graft(p) ==
  [q \in DOMAIN target \cup {r \in DOMAIN source : IsPrefix(p, r)} |->
     IF IsPrefix(p, q) /\ q \in DOMAIN source THEN source[q] ELSE target[q]]

\* Objects on both sides are merged in turn.
BothObjects(p) ==
  /\ p \in DOMAIN target /\ target[p] = Object
  /\ source[p] = Object
Recurse(p) ==
  /\ BothObjects(p)
  /\ todo' = (todo \ {p}) \cup KeysAt(p, source)
  /\ UNCHANGED <<original, source, target>>

\* The value at p, with all that is below it, is replaced.
Replaced(p) ==
  [q \in {r \in DOMAIN target : ~IsPrefix(p, r)}
           \cup {r \in DOMAIN source : IsPrefix(p, r)} |->
     IF IsPrefix(p, q) THEN source[q] ELSE target[q]]
Insert(p) ==
  /\ ~BothObjects(p)
  /\ target' = Replaced(p)
  /\ todo' = todo \ {p}
  /\ UNCHANGED <<original, source>>

NextKey == \E p \in todo : Recurse(p) \/ Insert(p)

MergeSpec == FirstCall /\ [][NextKey]_mergeVars

-----------------------------------------------------------------------------
(* Properties *)

\* Whatever the order of the keys, the calls end with the objects merged: the
\* source wins where it has anything, and what the target has elsewhere stays.
MergesAll == todo = {} => target = Merged(original, source)

\* The inductive invariant: a key is visited once, below objects of both sides;
\* what is at or below a key to visit is as it was, anything else is merged.
Pending(q) == \E p \in todo : IsPrefix(p, q)
Agree(q, t, u) ==
  /\ q \in DOMAIN t <=> q \in DOMAIN u
  /\ q \in DOMAIN t => t[q] = u[q]
Visits ==
  \A p \in todo :
    /\ \A q \in todo : IsPrefix(p, q) => p = q
    /\ \A q \in DOMAIN source : IsStrictPrefix(q, p) =>
         q \in DOMAIN original /\ original[q] = Object
MergeInv ==
  /\ MergeTypeOK
  /\ Visits
  /\ \A q \in DOMAIN original \cup DOMAIN source :
       Agree(q, target, IF Pending(q) THEN original ELSE Merged(original, source))
=============================================================================
