------------------------------ MODULE KeyValues ------------------------------
(***************************************************************************)
(* Key-value configuration (.env, .properties) and JSON: how the pairs of  *)
(* a store's answer are folded into a JSON object, in the order in which a *)
(* HashMap happens to yield them, and how an object is flattened to pairs. *)
(* A key is the sequence of its parts, as split and transformed (module    *)
(* KeySplit splits).  As in module Trees, an object is the function that   *)
(* says what is at each of its paths; here arrays are entered too: a step  *)
(* of a path is a name in an object or a position in an array.             *)
(***************************************************************************)
EXTENDS Integers, SequencesExt

CONSTANTS
  Names,     \* the parts of keys and the names in objects
  Index,     \* the names that parse as a number, each with that number
  Values,    \* the leaves of objects
  Strings,   \* those that are strings, as the values of all pairs are
  Null,      \* one that is not, like numbers and booleans
  Text,      \* the string that each other leaf, or an array, is written as
  Object, Array, \* what is at a path that may have others below
  Pairs,     \* the pairs a configuration may have, [parts, val]
  Trees,     \* JSON objects that are flattened and parsed again
  MaxPairs,  \* bound: pairs of a configuration
  NoTree     \* the pairs come from a store, not from a tree

VARIABLES
  tree,     \* the object that the pairs were flattened from
  pairs,    \* the configuration
  left,     \* the pairs not inserted yet
  map,      \* the object so far
  panicked  \* whether an insertion has ended the process

vars == <<tree, pairs, left, map, panicked>>

ASSUME NamesAssumption == Names \cap Nat = {} /\ DOMAIN Index \subseteq Names
ASSUME IndexAssumption == Index \in [DOMAIN Index -> Nat]
ASSUME ValuesAssumption ==
  /\ Strings \subseteq Values /\ Null \in Values \ Strings
  /\ Object # Array /\ {Object, Array} \cap Values = {}
ASSUME TextAssumption == Text \in [(Values \ Strings) \cup {Array} -> Strings]

Configuration == [parts : Seq(Names) \ {<<>>}, val : Strings]
ASSUME PairsAssumption == Pairs \subseteq Configuration

Paths == Seq(Names \cup Nat) \ {<<>>}
Empty == [p \in {} |-> Null]

\* What is above the next step of a path: positions are below an array.
Above(p, n) == IF p[n + 1] \in Nat THEN Array ELSE Object

IsTree(t) ==
  /\ IsFiniteSet(DOMAIN t) /\ DOMAIN t \subseteq Paths
  /\ t \in [DOMAIN t -> Values \cup {Object, Array}]
  /\ \A p \in DOMAIN t :
       /\ \A n \in DOMAIN p : p[n] \in Nat => \E d \in DOMAIN Index : Index[d] = p[n]
       /\ \A n \in 1 .. Len(p) - 1 :
            SubSeq(p, 1, n) \in DOMAIN t /\ t[SubSeq(p, 1, n)] = Above(p, n)
ASSUME TreesAssumption == NoTree \notin Trees /\ \A t \in Trees : IsTree(t)

-----------------------------------------------------------------------------
(* json_to_key_value: flatten_json *)

Number(i) == CHOOSE d \in DOMAIN Index : Index[d] = i

\* (A mutated model forgets the names above.)
LastOnly(p) == <<p[Len(p)]>>
Named(p) == [n \in DOMAIN p |-> IF p[n] \in Nat THEN Number(p[n]) ELSE p[n]]

\* map_value_to_string: a string stays, anything else becomes its text.
AsText(v) == IF v \in Strings THEN v ELSE Text[v]

\* Objects and arrays of objects are entered; an array inside an array is
\* written as one value.  Nothing is left of an empty object or array.
Inner(t, p) == t[p] = Array /\ p[Len(p)] \in Nat
Flatten(t) ==
  {[parts |-> Named(p), val |-> AsText(t[p])] :
     p \in {q \in DOMAIN t :
              /\ t[q] \in Values \/ Inner(t, q)
              /\ \A r \in DOMAIN t : Inner(t, r) => ~IsStrictPrefix(r, q)}}

-----------------------------------------------------------------------------
(* key_value_to_json: where insert_into_map puts the value of a key *)

\* The array of a number sits under the name of the parent, inside the
\* parent's own object.
Steps(parts, n) ==
  IF n > 1 /\ parts[n] \in DOMAIN Index THEN <<parts[n - 1], Index[parts[n]]>>
  ELSE <<parts[n]>>
Place(parts) == FlattenSeq([n \in DOMAIN parts |-> Steps(parts, n)])

\* Where it finds something else than what it has to enter.
Obstacles(t, x) == {n \in 1 .. Len(x) - 1 :
  SubSeq(x, 1, n) \in DOMAIN t /\ t[SubSeq(x, 1, n)] # Above(x, n)}
InList(x, n) == x[n] \in Nat \/ x[n + 1] \in Nat

\* What is entered on the way is created, and an array that is too short is
\* filled up: with objects when the key goes on, else with nulls.
Entered(x) == {SubSeq(x, 1, n) : n \in DOMAIN x}
Padding(x) == UNION {{Append(SubSeq(x, 1, n - 1), i) : i \in 0 .. x[n] - 1} :
                       n \in {m \in DOMAIN x : x[m] \in Nat}}

\* Bugs of filling up and of replacing; a mutated model puts one in.
NullsOnly(x, p) == Null
Everything(t, x) == DOMAIN t

Fill(x, p) == IF Len(p) = Len(x) THEN Null ELSE Object
Kept(t, x) == {p \in DOMAIN t : ~IsStrictPrefix(x, p)}
Written(t, x, v) ==
  [p \in Kept(t, x) \cup Entered(x) \cup Padding(x) |->
     IF p = x THEN v
     ELSE IF p \in DOMAIN t THEN t[p]
     ELSE IF p \in Entered(x) THEN Above(x, Len(p))
     ELSE Fill(x, p)]

-----------------------------------------------------------------------------
(* The loop of key_value_pairs_to_json *)

Configurations == {{f[i] : i \in 1 .. MaxPairs} : f \in [1 .. MaxPairs -> Pairs]}

Init ==
  /\ \/ tree = NoTree /\ pairs \in Configurations
     \/ tree \in Trees /\ pairs = Flatten(tree)
  /\ left = pairs
  /\ map = Empty
  /\ panicked = FALSE

Fatal(p) ==
  \/ p.parts[1] \in DOMAIN Index
  \/ \E n \in Obstacles(map, Place(p.parts)) : InList(Place(p.parts), n)

\* A key that starts with a number has no parent; in or above an array every
\* other value is unexpected.
PanicAt(p) ==
  /\ Fatal(p)
  /\ panicked' = TRUE
  /\ UNCHANGED map

\* A name inside something that is no object: the pair is dropped.
Drop(p) ==
  /\ ~Fatal(p) /\ Obstacles(map, Place(p.parts)) # {}
  /\ UNCHANGED <<map, panicked>>

\* The value takes the place of whatever is there.
Put(p) ==
  /\ ~Fatal(p) /\ Obstacles(map, Place(p.parts)) = {}
  /\ map' = Written(map, Place(p.parts), p.val)
  /\ UNCHANGED panicked

Next ==
  \E p \in left :
    /\ ~panicked
    /\ PanicAt(p) \/ Drop(p) \/ Put(p)
    /\ left' = left \ {p}
    /\ UNCHANGED <<tree, pairs>>

Spec == Init /\ [][Next]_vars

-----------------------------------------------------------------------------
(* Properties *)

Done == left = {} /\ ~panicked
Places == {Place(p.parts) : p \in pairs}

\* Two keys that cannot both be inserted in every order: where one has an
\* array the other has an object or a value, or a value of a list, with what
\* it is filled up with, takes the place of an object of the list.
Conflict(x, y) ==
  \E n \in 1 .. Len(x) - 1 :
    \/ /\ x[n + 1] \in Nat /\ IsPrefix(SubSeq(x, 1, n), y)
       /\ ~(n < Len(y) /\ y[n + 1] \in Nat)
    \/ /\ x[n] \in Nat /\ Len(y) = n /\ SubSeq(x, 1, n - 1) = SubSeq(y, 1, n - 1)
       /\ y[n] \in Nat /\ y[n] >= x[n]
ConflictFree ==
  /\ \A p \in pairs : p.parts[1] \notin DOMAIN Index
  /\ \A x, y \in Places : ~Conflict(x, y)

\* The parser panics only on a key that starts with a number or on keys that
\* conflict; a plain nesting of names or a regular list never ends the process.
PanicNeedsConflict == panicked => ~ConflictFree

\* One value for each place: numbers may be written in several ways.
OneValue == \A p, q \in pairs : Place(p.parts) = Place(q.parts) => p.val = q.val

\* A list that holds values and objects has a value at every position before
\* its last value: what else would be there depends on the order.
Mixed(x, y) ==
  LET n == Len(y) IN y[n] \in Nat /\ n < Len(x) /\ x[n] \in Nat
                     /\ SubSeq(x, 1, n - 1) = SubSeq(y, 1, n - 1)
EvenLists ==
  \A x, y \in Places : Mixed(x, y) =>
    \A i \in 0 .. y[Len(y)] - 1 : [y EXCEPT ![Len(y)] = i] \in Places

\* Without conflicts, with one value for each place and even lists the object
\* depends on the pairs alone, whatever order the HashMap has.
Reached(X) == UNION {Entered(x) \cup Padding(x) : x \in X}
Uncut(p, X) == \A x \in X : ~IsStrictPrefix(x, p)
Passed(p, X) == \E x \in X : IsStrictPrefix(p, x)
Outcome ==
  [p \in {q \in Reached(Places) : Uncut(q, Places)} |->
     IF p \in Places THEN (CHOOSE q \in pairs : Place(q.parts) = p).val
     ELSE IF \E x \in Places : IsStrictPrefix(p, x) /\ x[Len(p) + 1] \in Nat THEN Array
     ELSE IF \/ Passed(p, Places)
             \/ \E x \in Places : p \in Padding(x) /\ Len(p) < Len(x) THEN Object
     ELSE Null]
OrderIrrelevant == Done /\ ConflictFree /\ OneValue /\ EvenLists => map = Outcome

\* With names only, the object has exactly the pairs whose key does not extend
\* another key: the shorter key wins, even when the longer came first.
NamesOnly == \A p \in pairs : \A n \in DOMAIN p.parts : p.parts[n] \notin DOMAIN Index
ShorterKeyWins ==
  NamesOnly =>
    /\ ~panicked
    /\ Done /\ OneValue =>
         Flatten(map) = {p \in pairs : \A q \in pairs : ~IsStrictPrefix(q.parts, p.parts)}

\* A file the operator wrote of named objects and values can be served by a
\* store again, but not all of it comes back as it was: the structure and every
\* string do, while a number, a boolean or null is the string of its text then.
Nested(t) ==
  /\ \A p \in DOMAIN t : \A n \in DOMAIN p : p[n] \notin Nat \cup DOMAIN Index
  /\ \A p \in DOMAIN t :
       t[p] = Array \/ t[p] = Object => \E q \in DOMAIN t : IsStrictPrefix(p, q)
Textual(t) == [p \in DOMAIN t |-> IF t[p] = Object THEN Object ELSE AsText(t[p])]
ParsesBack == left = {} /\ tree # NoTree /\ Nested(tree) => map = Textual(tree)

\* Why they hold.  Without conflicts the object is, after every pair, that of
\* the pairs inserted; only a position that no key of them names may still be
\* a null or an object, as the order has it.
TypeOK ==
  /\ tree \in Trees \cup {NoTree} /\ (tree # NoTree => pairs = Flatten(tree))
  /\ pairs \subseteq Configuration /\ left \subseteq pairs
  /\ DOMAIN map \subseteq Paths
  /\ map \in [DOMAIN map -> Values \cup {Object, Array}]
  /\ panicked \in BOOLEAN
Inserted == {Place(p.parts) : p \in pairs \ left}
ValuesIn ==
  /\ \A p \in Inserted \cap DOMAIN map : map[p] \in Strings
  /\ OneValue => \A p \in pairs \ left :
       Place(p.parts) \in DOMAIN map => map[Place(p.parts)] = p.val
PassedIn == \A x \in Inserted : \A p \in DOMAIN map \ Inserted :
  IsStrictPrefix(p, x) => map[p] = Above(x, Len(p))
PaddingIn == \A p \in DOMAIN map \ Inserted : ~Passed(p, Inserted) =>
  \E x \in Inserted : p \in Padding(x) /\ map[p] = Fill(x, p)
Inv ==
  /\ TypeOK
  /\ ConflictFree =>
       /\ ~panicked
       /\ DOMAIN map = {p \in Reached(Inserted) : Uncut(p, Inserted)}
       /\ ValuesIn /\ PassedIn /\ PaddingIn
=============================================================================
