---------------------------- MODULE MCKeyValues ----------------------------
(* Small instances of KeyValues for TLC. *)
EXTENDS KeyValues, TLC

CONSTANTS a, b, n0, n1, n2, n00, x, y, one, list

\* The text of the number is also the value of another pair, as "1" may be.
Texts == one :> x @@ Null :> y @@ Array :> list

Digits == n0 :> 0 @@ n1 :> 1 @@ n2 :> 2 @@ n00 :> 0

KeysOver(S, n) == UNION {[1 .. i -> S] : i \in 1 .. n}

\* Names, some with two values, since the case transforms make keys equal.
NameKeys == KeysOver({a, b}, 3)

\* Numbers: at the start, in and behind lists, with gaps, written twice, and
\* names that repeat the name of a list.
ListKeys == {k \in KeysOver({a, n0, n1}, 3) : k[1] = a}
  \cup {<<n0>>, <<n1, a>>, <<a, b, n0>>, <<a, n0, b>>, <<a, n0, a, b>>, <<a, n00>>,
        <<a, n00, b>>, <<a, n2>>, <<a, n2, b>>, <<a, n0, b, n1, b>>, <<a, n00, b, n1>>}

SmallPairs == [parts : ListKeys \cup NameKeys, val : {x}]
                \cup [parts : {<<a>>, <<a, b>>, <<a, n1>>}, val : {y}]

\* Objects of up to three levels, with arrays, numbers as names and blanks.
Below(k, t) == [p \in {<<k>> \o q : q \in DOMAIN t} |-> t[Tail(p)]]
One(v) == [p \in {<<>>} |-> v]
Leaves == {One(x), One(one)}
Arrays == {One(Array), One(Array) @@ Below(0, One(x)) @@ Below(1, One(y)),
           One(Array) @@ Below(0, One(Array)) @@ Below(1, One(Null)),
           One(Array) @@ Below(0, One(Array) @@ Below(0, One(x))),
           One(Array) @@ Below(0, One(Object) @@ Below(b, One(x)))
                      @@ Below(1, One(Object) @@ Below(b, One(one)))}
Level(T) == {Empty} \cup {Below(a, t) : t \in T} \cup {Below(b, t) : t \in T}
              \cup {Below(a, t) @@ Below(b, u) : t \in T, u \in T}
Objects == {One(Object) @@ m : m \in Level(Leaves)}
             \cup {One(Object) @@ Below(n0, One(x)), One(Object) @@ Below(a, One(Null))}
NestedTrees == Level(Leaves \cup Arrays \cup Objects)
=============================================================================
