------------------------- MODULE KeyValues_proofs -------------------------
(* Theorems about KeyValues, for all names, numbers and values, and for any  *)
(* number of keys of any length in every order.                              *)
EXTENDS KeyValues, DataLemmas

USE NamesAssumption, IndexAssumption, ValuesAssumption

-----------------------------------------------------------------------------
(* Lemmas about paths *)

\* A path has steps, which are names or positions.
LEMMA PathType ==
  ASSUME NEW p \in Paths
  PROVE  /\ p \in Seq(Names \cup Nat) /\ p # <<>> /\ Len(p) \in Nat /\ Len(p) >= 1
         /\ DOMAIN p = 1 .. Len(p) /\ \A n \in 1 .. Len(p) : p[n] \in Names \cup Nat
<1>1. p \in Seq(Names \cup Nat) /\ p # <<>> BY DEF Paths
<1>2. Len(p) \in Nat /\ DOMAIN p = 1 .. Len(p) BY <1>1, LenProperties
<1>3. Len(p) # 0 BY <1>1, EmptySeq
<1>4. \A n \in 1 .. Len(p) : p[n] \in Names \cup Nat BY <1>1, ElementOfSeq
<1> QED BY <1>1, <1>2, <1>3, <1>4

\* Prefixes, element by element.
LEMMA PathPrefix ==
  ASSUME NEW p \in Paths, NEW q \in Paths
  PROVE  IsPrefix(p, q) <=> Len(p) <= Len(q) /\ \A n \in 1 .. Len(p) : p[n] = q[n]
BY PathType, PrefixAt

LEMMA StrictAt ==
  ASSUME NEW p \in Paths, NEW q \in Paths
  PROVE  /\ IsStrictPrefix(p, q) <=>
              Len(p) < Len(q) /\ \A n \in 1 .. Len(p) : p[n] = q[n]
         /\ IsStrictPrefix(p, q) => IsPrefix(p, q)
<1>1. Len(p) \in Nat /\ Len(q) \in Nat BY PathType
<1>2. p \in Seq(Names \cup Nat) /\ q \in Seq(Names \cup Nat) BY PathType
<1>3. IsPrefix(p, q) <=> Len(p) <= Len(q) /\ \A n \in 1 .. Len(p) : p[n] = q[n]
  BY PathPrefix
<1>4. IsPrefix(p, q) /\ Len(p) >= Len(q) => p = q BY <1>2, PrefixAsLong
<1> QED BY <1>1, <1>3, <1>4 DEF IsStrictPrefix

\* Paths are equal that have the same steps.
LEMMA PathEqual ==
  ASSUME NEW p \in Paths, NEW q \in Paths, Len(p) = Len(q),
         \A n \in 1 .. Len(p) : p[n] = q[n]
  PROVE  p = q
BY PathType, SeqEqual

\* The first steps of a path are a path.
LEMMA PartAt ==
  ASSUME NEW x \in Paths, NEW n \in 1 .. Len(x)
  PROVE  /\ SubSeq(x, 1, n) \in Paths /\ Len(SubSeq(x, 1, n)) = n
         /\ \A i \in 1 .. n : SubSeq(x, 1, n)[i] = x[i]
<1>1. x \in Seq(Names \cup Nat) /\ Len(x) \in Nat BY PathType
<1>2. SubSeq(x, 1, n) \in Seq(Names \cup Nat) /\ Len(SubSeq(x, 1, n)) = n
  BY <1>1, PartIsPrefix
<1>3. \A i \in 1 .. n : SubSeq(x, 1, n)[i] = x[i] BY <1>1
<1>4. SubSeq(x, 1, n) # <<>> BY <1>2, EmptySeq
<1> QED BY <1>2, <1>3, <1>4 DEF Paths

\* Paths with the same first steps have the same start.
LEMMA SameStart ==
  ASSUME NEW x \in Paths, NEW y \in Paths, NEW n \in Nat, n <= Len(x), n <= Len(y),
         \A i \in 1 .. n - 1 : y[i] = x[i]
  PROVE  SubSeq(x, 1, n - 1) = SubSeq(y, 1, n - 1)
<1>1. x \in Seq(Names \cup Nat) /\ y \in Seq(Names \cup Nat) BY PathType
<1>2. Len(x) \in Nat /\ Len(y) \in Nat BY PathType
<1>3. SubSeq(x, 1, n - 1) = [i \in 1 .. n - 1 |-> x[i]] BY <1>1, <1>2
<1>4. SubSeq(y, 1, n - 1) = [i \in 1 .. n - 1 |-> y[i]] BY <1>1, <1>2
<1> QED BY <1>3, <1>4

\* What is entered are the prefixes.
LEMMA EnteredAt ==
  ASSUME NEW x \in Paths, NEW p
  PROVE  /\ p \in Entered(x) <=> p \in Paths /\ IsPrefix(p, x)
         /\ p \in Paths /\ IsPrefix(p, x) => p = SubSeq(x, 1, Len(p)) /\ Len(p) \in 1 .. Len(x)
<1>1. ASSUME p \in Entered(x) PROVE p \in Paths /\ IsPrefix(p, x)
  <2>1. PICK n \in 1 .. Len(x) : p = SubSeq(x, 1, n) BY <1>1, PathType DEF Entered
  <2>2. p \in Paths /\ Len(p) = n /\ \A i \in 1 .. n : p[i] = x[i] BY <2>1, PartAt
  <2>3. n <= Len(x) BY PathType
  <2> QED BY <2>2, <2>3, PathPrefix
<1>2. ASSUME p \in Paths, IsPrefix(p, x)
      PROVE  p = SubSeq(x, 1, Len(p)) /\ Len(p) \in 1 .. Len(x)
  <2>1. Len(p) \in 1 .. Len(x) BY <1>2, PathType, PathPrefix
  <2>2. p \in Seq(Names \cup Nat) /\ x \in Seq(Names \cup Nat) BY <1>2, PathType
  <2>3. p = SubSeq(x, 1, Len(p)) BY <1>2, <2>2, PrefixIsPart
  <2> QED BY <2>1, <2>3
<1>3. p \in Paths /\ IsPrefix(p, x) => p \in Entered(x) BY <1>2, PathType DEF Entered
<1> QED BY <1>1, <1>2, <1>3

\* What is filled up lies beside a number of the path, before it.
Beside(p, x) ==
  /\ p \in Paths /\ Len(p) <= Len(x)
  /\ x[Len(p)] \in Nat /\ p[Len(p)] \in Nat /\ p[Len(p)] < x[Len(p)]
  /\ \A i \in 1 .. Len(p) - 1 : p[i] = x[i]
LEMMA PaddingAt ==
  ASSUME NEW x \in Paths, NEW p
  PROVE  p \in Padding(x) <=> Beside(p, x)
<1>0. /\ x \in Seq(Names \cup Nat) /\ Len(x) \in Nat /\ DOMAIN x = 1 .. Len(x)
  BY PathType
<1> DEFINE Pad(n, i) == Append(SubSeq(x, 1, n - 1), i)
<1>1. ASSUME NEW n \in 1 .. Len(x), NEW i \in Nat
      PROVE  /\ Pad(n, i) \in Paths /\ Len(Pad(n, i)) = n /\ Pad(n, i)[n] = i
             /\ \A j \in 1 .. n - 1 : Pad(n, i)[j] = x[j]
  <2>1. n - 1 \in 0 .. Len(x) BY <1>0
  <2> DEFINE s == SubSeq(x, 1, n - 1)
  <2>2. s \in Seq(Names \cup Nat) /\ Len(s) = n - 1 BY <1>0, <2>1, PartIsPrefix
  <2>3. \A j \in 1 .. n - 1 : s[j] = x[j] BY <1>0
  <2> HIDE DEF s
  <2>4. /\ Append(s, i) \in Seq(Names \cup Nat) /\ Len(Append(s, i)) = n
        /\ Append(s, i)[n] = i /\ \A j \in 1 .. n - 1 : Append(s, i)[j] = s[j]
    BY <2>2, AppendProperties
  <2>5. Append(s, i) # <<>> BY <2>4, EmptySeq
  <2> QED BY <2>3, <2>4, <2>5 DEF Paths, s
<1> DEFINE Pads(n) == {Append(SubSeq(x, 1, n - 1), i) : i \in 0 .. x[n] - 1}
<1>2. p \in Padding(x) <=>
        \E n \in 1 .. Len(x) : \E i \in 0 .. x[n] - 1 : x[n] \in Nat /\ p = Pad(n, i)
  <2>1. Padding(x) = UNION {Pads(n) : n \in {m \in DOMAIN x : x[m] \in Nat}}
    BY Zenon DEF Padding
  <2>2. \A n : p \in Pads(n) <=> \E i \in 0 .. x[n] - 1 : p = Pad(n, i)
    BY Zenon
  <2> HIDE DEF Pads, Pad
  <2> QED BY <1>0, <2>1, <2>2
<1> HIDE DEF Pad, Pads
<1>3. ASSUME p \in Padding(x) PROVE Beside(p, x)
  <2>1. PICK n \in 1 .. Len(x) : \E i \in 0 .. x[n] - 1 : x[n] \in Nat /\ p = Pad(n, i)
    BY <1>2, <1>3
  <2>2. PICK i \in 0 .. x[n] - 1 : x[n] \in Nat /\ p = Pad(n, i) BY <2>1
  <2>3. i \in Nat /\ i < x[n] BY <2>2
  <2>4. /\ p \in Paths /\ Len(p) = n /\ p[n] = i /\ \A j \in 1 .. n - 1 : p[j] = x[j]
    BY <1>1, <2>2, <2>3
  <2> QED BY <1>0, <2>2, <2>3, <2>4 DEF Beside
<1>4. ASSUME Beside(p, x) PROVE p \in Padding(x)
  <2> DEFINE n == Len(p)
             i == p[Len(p)]
  <2>1. n \in 1 .. Len(x) /\ x[n] \in Nat /\ i \in Nat /\ i < x[n] /\ p \in Paths
    BY <1>0, <1>4, PathType DEF Beside
  <2>2. \A j \in 1 .. n - 1 : p[j] = x[j] BY <1>4 DEF Beside
  <2>3. /\ Pad(n, i) \in Paths /\ Len(Pad(n, i)) = n /\ Pad(n, i)[n] = i
        /\ \A j \in 1 .. n - 1 : Pad(n, i)[j] = x[j]
    BY <1>1, <2>1
  <2>4. \A j \in 1 .. n : p[j] = Pad(n, i)[j] BY <2>1, <2>2, <2>3
  <2>5. p = Pad(n, i) BY <2>1, <2>3, <2>4, PathEqual
  <2>6. i \in 0 .. x[n] - 1 BY <2>1
  <2> HIDE DEF n, i
  <2> QED BY <1>2, <2>1, <2>5, <2>6
<1> QED BY <1>3, <1>4

\* Of two paths above a third one is above the other.
LEMMA Chain ==
  ASSUME NEW x \in Paths, NEW p \in Paths, NEW q \in Paths,
         IsPrefix(p, x), IsPrefix(q, x)
  PROVE  IsStrictPrefix(p, q) \/ p = q \/ IsStrictPrefix(q, p)
<1>1. Len(p) \in Nat /\ Len(q) \in Nat BY PathType
<1>2. \A n \in 1 .. Len(p) : p[n] = x[n] BY PathPrefix
<1>3. \A n \in 1 .. Len(q) : q[n] = x[n] BY PathPrefix
<1>4. CASE Len(p) < Len(q) BY <1>1, <1>2, <1>3, <1>4, StrictAt
<1>5. CASE Len(q) < Len(p) BY <1>1, <1>2, <1>3, <1>5, StrictAt
<1>6. CASE Len(p) = Len(q) BY <1>1, <1>2, <1>3, <1>6, PathEqual
<1> QED BY <1>1, <1>4, <1>5, <1>6

\* What is below a path is below all that is above it.
LEMMA StrictBelow ==
  ASSUME NEW x \in Paths, NEW y \in Paths, NEW p \in Paths,
         IsStrictPrefix(y, x), IsStrictPrefix(x, p)
  PROVE  IsStrictPrefix(y, p)
<1>1. Len(x) \in Nat /\ Len(y) \in Nat /\ Len(p) \in Nat BY PathType
<1>2. Len(y) < Len(x) /\ \A n \in 1 .. Len(y) : y[n] = x[n] BY StrictAt
<1>3. Len(x) < Len(p) /\ \A n \in 1 .. Len(x) : x[n] = p[n] BY StrictAt
<1> QED BY <1>1, <1>2, <1>3, StrictAt

\* On its way to the same place every key finds the same arrays and objects.
LEMMA AboveSame ==
  ASSUME NEW x \in Paths, NEW y \in Paths, IsPrefix(y, x), NEW n \in Nat, n < Len(y)
  PROVE  Above(y, n) = Above(x, n)
<1>1. n + 1 \in 1 .. Len(y) BY PathType
<1>2. y[n + 1] = x[n + 1] BY <1>1, PathPrefix
<1> QED BY <1>2 DEF Above

\* What is above a path that a key reaches is above the key.
LEMMA AboveReached ==
  ASSUME NEW x \in Paths, NEW y \in Paths, NEW p \in Entered(x) \cup Padding(x)
  PROVE  /\ p \in Paths /\ ~IsStrictPrefix(x, p)
         /\ IsStrictPrefix(y, p) => IsStrictPrefix(y, x)
<1>1. p \in Paths BY EnteredAt, PaddingAt DEF Beside
<1>2. Len(x) \in Nat /\ Len(y) \in Nat /\ Len(p) \in Nat BY <1>1, PathType
<1>3. ASSUME NEW z \in Paths, IsStrictPrefix(z, p) PROVE IsStrictPrefix(z, x)
  <2>1. Len(z) < Len(p) /\ \A n \in 1 .. Len(z) : z[n] = p[n] BY <1>1, <1>3, StrictAt
  <2>2. Len(z) \in Nat BY PathType
  <2>3. CASE p \in Entered(x)
    <3>1. Len(p) <= Len(x) /\ \A n \in 1 .. Len(p) : p[n] = x[n]
      BY <1>1, <2>3, EnteredAt, PathPrefix
    <3> QED BY <1>2, <2>1, <2>2, <3>1, StrictAt
  <2>4. CASE p \in Padding(x)
    <3>1. Len(p) <= Len(x) /\ \A n \in 1 .. Len(p) - 1 : p[n] = x[n]
      BY <2>4, PaddingAt DEF Beside
    <3> QED BY <1>2, <2>1, <2>2, <3>1, StrictAt
  <2> QED BY <2>3, <2>4
<1>4. ~IsStrictPrefix(x, x) BY DEF IsStrictPrefix
<1> QED BY <1>1, <1>3, <1>4

\* A key that goes on below another one reaches nothing more that is not below it.
LEMMA CutReached ==
  ASSUME NEW x \in Paths, NEW y \in Paths, IsStrictPrefix(y, x),
         NEW p \in Entered(x) \cup Padding(x), ~IsStrictPrefix(y, p)
  PROVE  p \in Entered(y) \cup Padding(y)
<1>1. p \in Paths BY AboveReached
<1>2. Len(x) \in Nat /\ Len(y) \in Nat /\ Len(p) \in Nat /\ Len(p) >= 1
  BY <1>1, PathType
<1>3. Len(y) < Len(x) /\ \A n \in 1 .. Len(y) : y[n] = x[n] BY StrictAt
<1>4. CASE p \in Entered(x)
  <2>1. IsPrefix(p, x) /\ IsPrefix(y, x) BY <1>4, EnteredAt, StrictAt
  <2>2. IsStrictPrefix(p, y) \/ p = y BY <1>1, <2>1, Chain
  <2>3. IsPrefix(p, y) BY <1>1, <1>2, <2>2, StrictAt, PathPrefix
  <2> QED BY <1>1, <2>3, EnteredAt
<1>5. CASE p \in Padding(x)
  <2>1. Beside(p, x) BY <1>5, PaddingAt
  <2>2. Len(p) <= Len(y)
    <3> SUFFICES ASSUME Len(y) < Len(p) PROVE FALSE
      BY <1>2
    <3>1. \A n \in 1 .. Len(y) : y[n] = p[n] BY <1>2, <1>3, <2>1 DEF Beside
    <3> QED BY <1>1, <3>1, StrictAt
  <2>3. Beside(p, y) BY <1>2, <1>3, <2>1, <2>2 DEF Beside
  <2> QED BY <2>3, PaddingAt
<1> QED BY <1>4, <1>5

\* Of the keys above a path there is a shortest one.
LEMMA Shortest ==
  ASSUME NEW X \in SUBSET Paths, NEW y \in X
  PROVE  \E z \in X : IsPrefix(z, y) /\ Uncut(z, X)
<1> DEFINE T == {n \in Nat : \E z \in X : Len(z) = n /\ IsPrefix(z, y)}
<1>1. IsPrefix(y, y) BY PathPrefix, PathType
<1>2. T \in SUBSET Nat /\ T # {} BY <1>1, PathType
<1>3. PICK n \in T : \A m \in T : n <= m
  <2> HIDE DEF T
  <2> QED BY <1>2, Least
<1>4. PICK z \in X : Len(z) = n /\ IsPrefix(z, y) BY <1>3
<1>5. ASSUME NEW x \in X, IsStrictPrefix(x, z) PROVE FALSE
  <2>1. Len(x) < Len(z) /\ \A i \in 1 .. Len(x) : x[i] = z[i] BY <1>5, StrictAt
  <2>2. Len(z) <= Len(y) /\ \A i \in 1 .. Len(z) : z[i] = y[i] BY <1>4, PathPrefix
  <2>3. Len(x) \in Nat /\ Len(y) \in Nat /\ Len(z) \in Nat BY PathType
  <2>4. IsPrefix(x, y) BY <2>1, <2>2, <2>3, PathPrefix
  <2>5. Len(x) \in T BY <2>3, <2>4
  <2> QED BY <1>3, <1>4, <2>1, <2>3, <2>5
<1> QED BY <1>4, <1>5 DEF Uncut

-----------------------------------------------------------------------------
(* Where the value of a key goes *)

Partial(parts) == [n \in DOMAIN parts |-> Steps(parts, n)]
Regular(p) ==
  /\ p \in Seq(Names \cup Nat) /\ Len(p) >= 1 /\ p[1] \in Names
  /\ \A n \in 1 .. Len(p) - 1 : p[n] \in Nat => p[n + 1] \notin Nat

\* A part makes one step, or a name and a position.
LEMMA StepsAt ==
  ASSUME NEW parts \in Seq(Names) \ {<<>>}
  PROVE  /\ Partial(parts) \in Seq(Seq(Names \cup Nat)) /\ Len(Partial(parts)) = Len(parts)
         /\ Len(parts) \in Nat /\ Len(parts) >= 1 /\ Partial(parts)[1] = <<parts[1]>>
         /\ \A n \in 1 .. Len(parts) :
              /\ Partial(parts)[n] = Steps(parts, n)
              /\ \/ \E s \in Names : Steps(parts, n) = <<s>>
                 \/ \E s \in Names, i \in Nat : Steps(parts, n) = <<s, i>>
<1>1. parts \in Seq(Names) /\ parts # <<>> OBVIOUS
<1>2. Len(parts) \in Nat /\ DOMAIN parts = 1 .. Len(parts) /\ Len(parts) # 0
  BY <1>1, LenProperties, EmptySeq
<1>3. \A n \in 1 .. Len(parts) : parts[n] \in Names BY <1>1, ElementOfSeq
<1>4. ASSUME NEW n \in 1 .. Len(parts)
      PROVE  \/ \E s \in Names : Steps(parts, n) = <<s>>
             \/ \E s \in Names, i \in Nat : Steps(parts, n) = <<s, i>>
  <2>1. CASE n > 1 /\ parts[n] \in DOMAIN Index
    <3>1. parts[n - 1] \in Names /\ Index[parts[n]] \in Nat BY <1>2, <1>3, <2>1
    <3>2. Steps(parts, n) = <<parts[n - 1], Index[parts[n]]>> BY <2>1 DEF Steps
    <3> QED BY <3>1, <3>2
  <2>2. CASE ~(n > 1 /\ parts[n] \in DOMAIN Index)
    <3>1. Steps(parts, n) = <<parts[n]>> BY <2>2 DEF Steps
    <3> QED BY <1>3, <3>1
  <2> QED BY <2>1, <2>2
<1>5. \A n \in 1 .. Len(parts) : Steps(parts, n) \in Seq(Names \cup Nat)
  <2> SUFFICES ASSUME NEW n \in 1 .. Len(parts)
               PROVE  Steps(parts, n) \in Seq(Names \cup Nat)
    OBVIOUS
  <2>1. CASE \E s \in Names : Steps(parts, n) = <<s>> BY <2>1
  <2>2. CASE \E s \in Names, i \in Nat : Steps(parts, n) = <<s, i>> BY <2>2
  <2> QED BY <1>4, <2>1, <2>2
<1>6. Steps(parts, 1) = <<parts[1]>> BY DEF Steps
<1>7. /\ Partial(parts) \in Seq(Seq(Names \cup Nat)) /\ Len(Partial(parts)) = Len(parts)
      /\ \A n \in 1 .. Len(parts) : Partial(parts)[n] = Steps(parts, n)
  <2> DEFINE f == Partial(parts)
  <2>1. f = [n \in 1 .. Len(parts) |-> Steps(parts, n)] BY <1>2 DEF Partial
  <2>2. f \in [1 .. Len(parts) -> Seq(Names \cup Nat)] BY <1>5, <2>1
  <2>3. \A n \in 1 .. Len(parts) : f[n] = Steps(parts, n) BY <2>1
  <2> HIDE DEF f
  <2>4. f \in Seq(Seq(Names \cup Nat)) /\ Len(f) = Len(parts) BY <1>2, <2>2
  <2> QED BY <2>3, <2>4 DEF f
<1> QED BY <1>2, <1>4, <1>6, <1>7

\* The place of a key starts with a name and never goes from a position on to a
\* position: between two numbers there is the name of the second's array.
LEMMA PlaceType ==
  ASSUME NEW parts \in Seq(Names) \ {<<>>}
  PROVE  Place(parts) \in Paths /\ Regular(Place(parts))
<1> DEFINE s == Partial(parts)
           T == {m \in Nat : m \in 1 .. Len(parts) => Regular(Upto(s, m))}
<1>1. /\ s \in Seq(Seq(Names \cup Nat)) /\ Len(s) = Len(parts)
      /\ Len(parts) \in Nat /\ Len(parts) >= 1 /\ s[1] = <<parts[1]>>
      /\ parts[1] \in Names
      /\ \A n \in 1 .. Len(parts) : \/ \E t \in Names : s[n] = <<t>>
                                    \/ \E t \in Names, i \in Nat : s[n] = <<t, i>>
  <2>1. parts[1] \in Names BY StepsAt, ElementOfSeq
  <2> QED BY <2>1, StepsAt
<1> HIDE DEF s
<1>2. 0 \in T OBVIOUS
<1>3. ASSUME NEW m \in Nat, m \in T PROVE m + 1 \in T
  <2> SUFFICES ASSUME m + 1 \in 1 .. Len(parts) PROVE Regular(Upto(s, m + 1))
    OBVIOUS
  <2> DEFINE u == Upto(s, m)
             v == s[m + 1]
             w == Upto(s, m + 1)
  <2>0. m < Len(s) /\ m \in 0 .. Len(s) /\ m + 1 \in 0 .. Len(s) BY <1>1
  <2>1. w = u \o v /\ v \in Seq(Names \cup Nat) BY <1>1, <2>0, UptoNext
  <2>2. u \in Seq(Names \cup Nat) /\ w \in Seq(Names \cup Nat) BY <1>1, <2>0, UptoType
  <2>3. \/ \E t \in Names : v = <<t>>
        \/ \E t \in Names, i \in Nat : v = <<t, i>>
    BY <1>1
  <2>5. u = <<>> \/ Regular(u)
    <3>1. CASE m = 0 BY <3>1, UptoNothing
    <3>2. CASE m # 0
      <4>1. m \in 1 .. Len(parts) BY <1>1, <2>0, <3>2
      <4> QED BY <1>3, <4>1
    <3> QED BY <3>1, <3>2
  <2> HIDE DEF T, u, v, w
  <2>4. Len(v) \in Nat /\ Len(v) >= 1 /\ Len(v) <= 2 /\ v[1] \in Names
    <3>1. ASSUME NEW t \in Names, v = <<t>> PROVE Len(v) = 1 /\ v[1] \in Names BY <3>1
    <3>2. ASSUME NEW t \in Names, NEW i \in Nat, v = <<t, i>>
          PROVE  Len(v) = 2 /\ v[1] \in Names
      BY <3>2
    <3>3. CASE \E t \in Names : v = <<t>> BY <3>1, <3>3
    <3>4. CASE \E t \in Names, i \in Nat : v = <<t, i>> BY <3>2, <3>4
    <3> QED BY <2>3, <3>3, <3>4
  <2>6. /\ Len(w) = Len(u) + Len(v)
        /\ \A i \in 1 .. Len(u) : w[i] = u[i]
        /\ \A i \in 1 .. Len(v) : w[Len(u) + i] = v[i]
        /\ Len(u) \in Nat
    BY <2>1, <2>2, ConcatProperties, LenProperties
  <2>7. w[Len(u) + 1] \in Names
    <3>1. 1 \in 1 .. Len(v) BY <2>4
    <3> QED BY <2>4, <2>6, <3>1
  <2>8. Len(w) >= 1 /\ w[1] \in Names
    <3>1. CASE u = <<>> BY <2>4, <2>6, <2>7, <3>1
    <3>2. CASE Regular(u)
      <4>1. Len(u) >= 1 /\ u[1] \in Names BY <3>2 DEF Regular
      <4> QED BY <2>4, <2>6, <4>1
    <3> QED BY <2>5, <3>1, <3>2
  <2>9. ASSUME NEW n \in 1 .. Len(w) - 1, w[n] \in Nat PROVE w[n + 1] \notin Nat
    <3>1. CASE n < Len(u)
      <4>1. w[n] = u[n] /\ w[n + 1] = u[n + 1] /\ n \in 1 .. Len(u) - 1
        BY <2>6, <3>1
      <4>2. u # <<>> BY <2>6, <3>1
      <4> QED BY <2>5, <2>9, <4>1, <4>2 DEF Regular
    <3>2. CASE n = Len(u) BY <2>7, <3>2
    <3>3. CASE n > Len(u)
      <4>1. n = Len(u) + 1 BY <2>4, <2>6, <3>3
      <4> QED BY <2>7, <2>9, <4>1
    <3> QED BY <2>6, <3>1, <3>2, <3>3
  <2> QED BY <2>2, <2>8, <2>9 DEF Regular, w
<1>4. Nat \subseteq T
  <2> HIDE DEF T
  <2> QED BY <1>2, <1>3, Induct
<1>5. Regular(Upto(s, Len(s))) BY <1>1, <1>4
<1>6. Upto(s, Len(s)) = Place(parts)
  <2>1. Place(parts) = FlattenSeq(s) BY DEF Place, s, Partial
  <2> QED BY <1>1, <2>1, FlattenType
<1>7. Regular(Place(parts)) BY <1>5, <1>6
<1>8. Place(parts) # <<>> BY <1>7 DEF Regular
<1> QED BY <1>7, <1>8 DEF Regular, Paths

\* Where no part is a number, the place is the key itself.
LEMMA PlaceOfNames ==
  ASSUME NEW parts \in Seq(Names) \ {<<>>},
         \A n \in DOMAIN parts : parts[n] \notin DOMAIN Index
  PROVE  Place(parts) = parts
<1> DEFINE s == Partial(parts)
           T == {m \in Nat : m <= Len(parts) => Upto(s, m) = SubSeq(parts, 1, m)}
<1>1. /\ s \in Seq(Seq(Names \cup Nat)) /\ Len(s) = Len(parts) /\ Len(parts) \in Nat
      /\ \A n \in 1 .. Len(parts) : s[n] = Steps(parts, n)
  BY StepsAt
<1>2. \A n \in 1 .. Len(parts) : s[n] = <<parts[n]>>
  <2>1. DOMAIN parts = 1 .. Len(parts) BY LenProperties
  <2> HIDE DEF s
  <2> QED BY <1>1, <2>1 DEF Steps
<1> HIDE DEF s
<1>3. 0 \in T
  <2>1. Upto(s, 0) = <<>> BY UptoNothing
  <2>2. SubSeq(parts, 1, 0) = <<>> BY SubSeqEmpty
  <2> QED BY <2>1, <2>2
<1>4. ASSUME NEW m \in Nat, m \in T PROVE m + 1 \in T
  <2> SUFFICES ASSUME m + 1 <= Len(parts)
               PROVE  Upto(s, m + 1) = SubSeq(parts, 1, m + 1)
    OBVIOUS
  <2>0. m < Len(s) BY <1>1
  <2>1. Upto(s, m + 1) = Upto(s, m) \o s[m + 1] BY <1>1, <2>0, UptoNext
  <2>2. Upto(s, m) = SubSeq(parts, 1, m) BY <1>1, <1>4
  <2>3. s[m + 1] = <<parts[m + 1]>> BY <1>1, <1>2
  <2>4. SubSeq(parts, 1, m + 1) = SubSeq(parts, 1, m) \o <<parts[m + 1]>>
    <3>1. parts \in Seq(Names) /\ m < Len(parts) BY <1>1
    <3> HIDE DEF T
    <3> QED BY <3>1, OneLonger
  <2> QED BY <2>1, <2>2, <2>3, <2>4
<1>5. Nat \subseteq T
  <2> HIDE DEF T
  <2> QED BY <1>3, <1>4, Induct
<1>6. Upto(s, Len(s)) = SubSeq(parts, 1, Len(parts)) BY <1>1, <1>5
<1>7. Upto(s, Len(s)) = Place(parts)
  <2>1. Place(parts) = FlattenSeq(s) BY DEF Place, s, Partial
  <2> QED BY <1>1, <2>1, FlattenType
<1> QED BY <1>6, <1>7, SubSeqFull

-----------------------------------------------------------------------------
(* Types *)

\* Every number in an object can be written.
LEMMA NumberType ==
  ASSUME NEW i, \E d \in DOMAIN Index : Index[d] = i
  PROVE  Number(i) \in Names
<1>1. Number(i) \in DOMAIN Index BY DEF Number
<1> QED BY <1>1

\* Whatever is written is a string, and strings stay what they are.
LEMMA TextType ==
  ASSUME NEW v \in Values \cup {Array}
  PROVE  AsText(v) \in Strings /\ (v \in Strings => AsText(v) = v)
BY TextAssumption DEF AsText

\* Flattening makes pairs of keys and strings.
LEMMA FlattenPairs ==
  ASSUME NEW t \in Trees
  PROVE  Flatten(t) \subseteq Configuration
<1>1. IsTree(t) BY TreesAssumption
<1>2. ASSUME NEW p \in DOMAIN t PROVE Named(p) \in Seq(Names) \ {<<>>}
  <2>1. p \in Paths BY <1>1 DEF IsTree
  <2>2. /\ Len(p) \in Nat /\ Len(p) >= 1 /\ DOMAIN p = 1 .. Len(p)
        /\ \A n \in 1 .. Len(p) : p[n] \in Names \cup Nat
    BY <2>1, PathType
  <2>3. \A n \in 1 .. Len(p) : p[n] \in Nat => Number(p[n]) \in Names
    <3> SUFFICES ASSUME NEW n \in 1 .. Len(p), p[n] \in Nat PROVE Number(p[n]) \in Names
      OBVIOUS
    <3>1. \E d \in DOMAIN Index : Index[d] = p[n] BY <1>1, <2>2 DEF IsTree
    <3> QED BY <3>1, NumberType
  <2> DEFINE f == Named(p)
  <2>4. f = [n \in 1 .. Len(p) |-> IF p[n] \in Nat THEN Number(p[n]) ELSE p[n]]
    BY <2>2 DEF Named
  <2>5. f \in [1 .. Len(p) -> Names] BY <2>2, <2>3, <2>4
  <2> HIDE DEF f
  <2>6. f \in Seq(Names) /\ Len(f) = Len(p) BY <2>2, <2>5
  <2>7. f # <<>> BY <2>2, <2>6
  <2> QED BY <2>6, <2>7 DEF f
<1>3. ASSUME NEW p \in DOMAIN t, t[p] \in Values \/ Inner(t, p)
      PROVE  AsText(t[p]) \in Strings
  BY <1>3, TextType DEF Inner
<1> QED BY <1>2, <1>3 DEF Flatten, Configuration

\* What is above a step is an array or an object.
LEMMA AboveType == ASSUME NEW p, NEW n PROVE Above(p, n) \in {Object, Array}
BY DEF Above

\* What writing a value leaves, and what it adds.
At(t, x, v, p) ==
  IF p = x THEN v
  ELSE IF p \in DOMAIN t THEN t[p]
  ELSE IF p \in Entered(x) THEN Above(x, Len(p))
  ELSE Fill(x, p)
LEMMA WrittenAt ==
  ASSUME NEW t, NEW x, NEW v
  PROVE  /\ DOMAIN Written(t, x, v) = Kept(t, x) \cup Entered(x) \cup Padding(x)
         /\ \A p \in DOMAIN Written(t, x, v) : Written(t, x, v)[p] = At(t, x, v, p)
<1> DEFINE D == Kept(t, x) \cup Entered(x) \cup Padding(x)
<1>1. Written(t, x, v) = [p \in D |-> At(t, x, v, p)] BY Zenon DEF Written, At
<1> HIDE DEF D
<1>2. DOMAIN Written(t, x, v) = D /\ \A p \in D : Written(t, x, v)[p] = At(t, x, v, p)
  BY <1>1
<1> QED BY <1>2 DEF D

\* What a value is written into remains an object with paths.
LEMMA WrittenType ==
  ASSUME NEW t, DOMAIN t \subseteq Paths,
         \A p \in DOMAIN t : t[p] \in Values \cup {Object, Array},
         NEW x \in Paths, NEW v \in Values, NEW w, w = Written(t, x, v)
  PROVE  DOMAIN w \subseteq Paths /\ w \in [DOMAIN w -> Values \cup {Object, Array}]
<1> DEFINE D == Kept(t, x) \cup Entered(x) \cup Padding(x)
<1>1. w = [p \in D |-> At(t, x, v, p)] BY Zenon DEF Written, At
<1>2. D \subseteq Paths
  <2>1. Kept(t, x) \subseteq Paths BY DEF Kept
  <2>2. Entered(x) \cup Padding(x) \subseteq Paths BY AboveReached
  <2> QED BY <2>1, <2>2
<1>3. \A p \in D : At(t, x, v, p) \in Values \cup {Object, Array}
  <2> SUFFICES ASSUME NEW p \in D PROVE At(t, x, v, p) \in Values \cup {Object, Array}
    OBVIOUS
  <2>1. Above(x, Len(p)) \in {Object, Array} BY AboveType
  <2>2. Fill(x, p) \in Values \cup {Object} BY DEF Fill
  <2> QED BY <2>1, <2>2 DEF At
<1> HIDE DEF D
<1> QED BY <1>1, <1>2, <1>3

LEMMA TypeInit == Init => TypeOK
<1> SUFFICES ASSUME Init PROVE TypeOK
  OBVIOUS
<1>1. pairs \subseteq Configuration
  <2>1. CASE tree \in Trees BY <2>1, FlattenPairs, TreesAssumption DEF Init
  <2>2. CASE tree = NoTree /\ pairs \in Configurations
    <3>1. PICK f \in [1 .. MaxPairs -> Pairs] : pairs = {f[i] : i \in 1 .. MaxPairs}
      BY <2>2 DEF Configurations
    <3> QED BY <3>1, PairsAssumption
  <2> QED BY <2>1, <2>2 DEF Init
<1>2. tree \in Trees \cup {NoTree} /\ (tree # NoTree => pairs = Flatten(tree))
  BY DEF Init
<1>3. /\ DOMAIN map \subseteq Paths
      /\ map \in [DOMAIN map -> Values \cup {Object, Array}]
  BY DEF Init, Empty
<1> QED BY <1>1, <1>2, <1>3 DEF Init, TypeOK

\* The keys of a configuration and their places.
LEMMA PlacesType ==
  ASSUME TypeOK
  PROVE  /\ \A p \in pairs :
              /\ p.parts \in Seq(Names) \ {<<>>} /\ p.val \in Strings
              /\ Place(p.parts) \in Paths /\ Regular(Place(p.parts))
         /\ Places \subseteq Paths /\ Inserted \subseteq Places
<1>1. ASSUME NEW p \in pairs
      PROVE  /\ p.parts \in Seq(Names) \ {<<>>} /\ p.val \in Strings
             /\ Place(p.parts) \in Paths /\ Regular(Place(p.parts))
  <2>1. p.parts \in Seq(Names) \ {<<>>} /\ p.val \in Strings BY DEF TypeOK, Configuration
  <2> QED BY <2>1, PlaceType
<1> QED BY <1>1 DEF Places, Inserted

LEMMA TypeStep == TypeOK /\ [Next]_vars => TypeOK'
<1> SUFFICES ASSUME TypeOK, [Next]_vars PROVE TypeOK'
  OBVIOUS
<1>1. CASE UNCHANGED vars BY <1>1 DEF TypeOK, vars
<1>2. ASSUME NEW p \in left, PanicAt(p) \/ Drop(p) \/ Put(p),
             left' = left \ {p}, UNCHANGED <<tree, pairs>>
      PROVE  TypeOK'
  <2>1. p \in pairs BY DEF TypeOK
  <2>2. /\ DOMAIN map' \subseteq Paths
        /\ map' \in [DOMAIN map' -> Values \cup {Object, Array}]
        /\ panicked' \in BOOLEAN
    <3>1. CASE PanicAt(p) BY <3>1 DEF PanicAt, TypeOK
    <3>2. CASE Drop(p) BY <3>2 DEF Drop, TypeOK
    <3>3. CASE Put(p)
      <4>1. Place(p.parts) \in Paths /\ p.val \in Values BY <2>1, PlacesType
      <4>2. map' = Written(map, Place(p.parts), p.val) /\ panicked' = panicked
        BY <3>3 DEF Put
      <4>3. /\ DOMAIN map \subseteq Paths /\ panicked \in BOOLEAN
            /\ \A q \in DOMAIN map : map[q] \in Values \cup {Object, Array}
        BY DEF TypeOK
      <4> QED BY <4>1, <4>2, <4>3, WrittenType
    <3> QED BY <1>2, <3>1, <3>2, <3>3
  <2> QED BY <1>2, <2>2 DEF TypeOK
<1> QED BY <1>1, <1>2 DEF Next

-----------------------------------------------------------------------------
(* The invariant *)

\* Of keys that do not conflict only a shorter one stands in the way of a key,
\* and not in a list: nothing is unexpected.
LEMMA ObstacleIsKey ==
  ASSUME Inv, ConflictFree, NEW p \in left, NEW n \in Obstacles(map, Place(p.parts))
  PROVE  /\ SubSeq(Place(p.parts), 1, n) \in Inserted
         /\ ~InList(Place(p.parts), n)
<1> DEFINE x == Place(p.parts)
           q == SubSeq(x, 1, n)
<1>1. TypeOK /\ p \in pairs BY DEF Inv, TypeOK
<1>2. x \in Paths /\ Regular(x) /\ x \in Places BY <1>1, PlacesType DEF Places
<1>3. Inserted \subseteq Paths /\ Inserted \subseteq Places BY <1>1, PlacesType
<1>4. n \in 1 .. Len(x) - 1 /\ q \in DOMAIN map /\ map[q] # Above(x, n)
  BY DEF Obstacles
<1> HIDE DEF x
<1>5. Len(x) \in Nat /\ n \in Nat /\ n < Len(x) /\ n + 1 \in 1 .. Len(x) /\ n \in 1 .. Len(x)
  BY <1>2, <1>4, PathType
<1>6. q \in Paths /\ Len(q) = n /\ \A i \in 1 .. n : q[i] = x[i]
  BY <1>2, <1>5, PartAt
<1>7. \A y \in Places : ~Conflict(x, y) /\ ~Conflict(y, x) BY <1>2 DEF ConflictFree
<1> HIDE DEF q
<1>8. ASSUME NEW y \in Inserted, q \notin Inserted, IsStrictPrefix(q, y) PROVE FALSE
  <2>1. y \in Paths /\ y \in Places BY <1>3
  <2>2. map[q] = Above(y, n) BY <1>2, <1>4, <1>6, <1>8 DEF Inv, PassedIn
  <2>3. Len(y) \in Nat /\ n < Len(y) /\ \A i \in 1 .. n : q[i] = y[i]
    BY <1>6, <1>8, <2>1, StrictAt, PathType
  <2>4. IsPrefix(q, x) /\ IsPrefix(q, y) BY <1>2, <1>5, <1>6, <2>1, <2>3, PathPrefix
  <2>5. SubSeq(y, 1, n) = q BY <1>6, <2>1, <2>4, EnteredAt
  <2>6. n \in 1 .. Len(y) - 1 BY <1>4, <2>3
  <2>7. CASE x[n + 1] \in Nat
    <3>1. y[n + 1] \notin Nat BY <1>4, <2>2, <2>7 DEF Above
    <3>2. Conflict(x, y) BY <1>4, <2>4, <2>7, <3>1 DEF Conflict, q
    <3> QED BY <1>7, <2>1, <3>2
  <2>8. CASE y[n + 1] \in Nat
    <3>1. x[n + 1] \notin Nat BY <1>4, <2>2, <2>8 DEF Above
    <3>2. Conflict(y, x) BY <2>4, <2>5, <2>6, <2>8, <3>1 DEF Conflict
    <3> QED BY <1>7, <2>1, <3>2
  <2> QED BY <1>4, <2>2, <2>7, <2>8 DEF Above
<1>9. ASSUME NEW y \in Inserted, q \in Padding(y), map[q] = Fill(y, q) PROVE FALSE
  <2>1. y \in Paths /\ y \in Places /\ Len(y) \in Nat BY <1>3, PathType
  <2>2. Beside(q, y) BY <1>9, <2>1, PaddingAt
  <2>3. x[n] \in Nat /\ y[n] \in Nat /\ x[n] < y[n] /\ n <= Len(y)
    BY <1>4, <1>6, <2>2 DEF Beside
  <2>4. \A i \in 1 .. n - 1 : y[i] = x[i] BY <1>4, <1>6, <2>2 DEF Beside
  <2>5. x[n + 1] \notin Nat BY <1>2, <1>4, <2>3 DEF Regular
  <2>6. Above(x, n) = Object BY <2>5 DEF Above
  <2>7. Len(y) = n BY <1>4, <1>6, <1>9, <2>6 DEF Fill
  <2>8. SubSeq(x, 1, n - 1) = SubSeq(y, 1, n - 1)
    <3>1. n <= Len(x) /\ n <= Len(y) BY <1>5, <2>7
    <3> QED BY <1>2, <1>5, <2>1, <2>4, <3>1, SameStart
  <2>9. Conflict(x, y) BY <1>4, <2>3, <2>7, <2>8 DEF Conflict
  <2> QED BY <1>7, <2>1, <2>9
<1>10. q \in Inserted
  <2> SUFFICES ASSUME q \notin Inserted PROVE FALSE
    OBVIOUS
  <2>1. ~Passed(q, Inserted) BY <1>8 DEF Passed
  <2>2. \E y \in Inserted : q \in Padding(y) /\ map[q] = Fill(y, q)
    BY <1>4, <2>1 DEF Inv, PaddingIn
  <2> QED BY <1>9, <2>2
<1>11. ~InList(x, n)
  <2>1. q \in Places BY <1>3, <1>10
  <2>2. CASE x[n + 1] \in Nat
    <3>1. IsPrefix(q, q) BY <1>6, PathPrefix
    <3>2. Conflict(x, q) BY <1>4, <1>6, <2>2, <3>1 DEF Conflict, q
    <3> QED BY <1>7, <2>1, <3>2
  <2>3. CASE x[n] \in Nat
    <3>1. q[n] = x[n] BY <1>4, <1>6
    <3>2. SubSeq(x, 1, n - 1) = SubSeq(q, 1, n - 1)
      <4>1. \A i \in 1 .. n - 1 : q[i] = x[i] BY <1>5, <1>6
      <4>2. n \in Nat /\ n <= Len(x) /\ n <= Len(q) BY <1>5, <1>6
      <4> HIDE DEF q
      <4> QED BY <1>2, <1>6, <4>1, <4>2, SameStart
    <3>3. Conflict(x, q) BY <1>4, <1>6, <2>3, <3>1, <3>2 DEF Conflict
    <3> QED BY <1>7, <2>1, <3>3
  <2> QED BY <2>2, <2>3 DEF InList
<1> QED BY <1>10, <1>11 DEF x, q

\* What is true of the object without conflicts.
Sound ==
  /\ DOMAIN map = {p \in Reached(Inserted) : Uncut(p, Inserted)}
  /\ ValuesIn /\ PassedIn /\ PaddingIn

\* One pair more.
Take(p) == left' = left \ {p} /\ UNCHANGED <<tree, pairs>>
LEMMA OneMore ==
  ASSUME TypeOK, NEW p \in left, Take(p)
  PROVE  /\ p \in pairs /\ Inserted' = Inserted \cup {Place(p.parts)}
         /\ \A q \in pairs \ left' : q \in pairs \ left \/ q = p
         /\ ConflictFree' = ConflictFree /\ OneValue' = OneValue
<1>1. p \in pairs /\ left \subseteq pairs BY DEF TypeOK
<1>2. pairs \ left' = (pairs \ left) \cup {p} /\ pairs' = pairs BY <1>1 DEF Take
<1>3. Inserted' = Inserted \cup {Place(p.parts)} BY <1>2 DEF Inserted
<1>4. ConflictFree' = ConflictFree BY <1>2 DEF ConflictFree, Places
<1>5. OneValue' = OneValue BY <1>2 DEF OneValue
<1> QED BY <1>1, <1>2, <1>3, <1>4, <1>5

\* What a set of keys reaches is there, unless it is below another key.
LEMMA ReachedBy ==
  ASSUME NEW X \in SUBSET Paths, NEW p
  PROVE  /\ p \in Reached(X) <=> \E x \in X : p \in Entered(x) \cup Padding(x)
         /\ p \in X => p \in Reached(X) /\ p \in Entered(p)
         /\ p \in Paths => \A x \in X : IsStrictPrefix(p, x) => p \in Reached(X)
<1>1. p \in Reached(X) <=> \E x \in X : p \in Entered(x) \cup Padding(x) BY DEF Reached
<1>2. ASSUME p \in Paths, NEW x \in X, IsPrefix(p, x) PROVE p \in Reached(X)
  <2>1. p \in Entered(x) BY <1>2, EnteredAt
  <2> QED BY <1>1, <2>1
<1>3. ASSUME p \in X PROVE p \in Entered(p)
  <2>1. p \in Paths /\ IsPrefix(p, p) BY <1>3, PathPrefix
  <2> QED BY <2>1, EnteredAt
<1>4. p \in X => p \in Reached(X) BY <1>1, <1>3
<1>5. p \in Paths => \A x \in X : IsStrictPrefix(p, x) => p \in Reached(X)
  BY <1>2, StrictAt
<1> QED BY <1>1, <1>3, <1>4, <1>5

\* A pair that is dropped is one below another key: nothing would be there.
LEMMA DropSound ==
  ASSUME Inv, ConflictFree, Sound, NEW p \in left, Drop(p), Take(p)
  PROVE  Sound'
<1> DEFINE x == Place(p.parts)
           X == Inserted
<1>1. TypeOK BY DEF Inv
<1>2. p \in pairs /\ X' = X \cup {x} /\ X \subseteq Paths /\ x \in Paths
  BY <1>1, OneMore, PlacesType
<1>3. map' = map /\ pairs' = pairs /\ Obstacles(map, x) # {} BY DEF Drop, Take
<1>4. PICK n \in Obstacles(map, x) : TRUE BY <1>3
<1> DEFINE y == SubSeq(x, 1, n)
<1>5. y \in X BY <1>4, ObstacleIsKey
<1>6. IsStrictPrefix(y, x)
  <2>1. n \in 1 .. Len(x) - 1 BY <1>4 DEF Obstacles
  <2> HIDE DEF x
  <2>2. n \in 1 .. Len(x) /\ n < Len(x) BY <1>2, <2>1, PathType
  <2>3. y \in Paths /\ Len(y) = n /\ \A i \in 1 .. n : y[i] = x[i] BY <1>2, <2>2, PartAt
  <2> HIDE DEF y
  <2> QED BY <1>2, <2>2, <2>3, StrictAt
<1> HIDE DEF y, x
<1>7. \A q \in DOMAIN map : Uncut(q, X) /\ q \in Reached(X) /\ q \in Paths
  <2>1. DOMAIN map \subseteq Paths BY <1>1 DEF TypeOK
  <2> QED BY <2>1 DEF Sound
<1>8. DOMAIN map' = {q \in Reached(X') : Uncut(q, X')}
  <2>1. ASSUME NEW q \in Reached(X'), Uncut(q, X') PROVE q \in DOMAIN map
    <3>1. Uncut(q, X) BY <1>2, <2>1 DEF Uncut
    <3>2. PICK z \in X' : q \in Entered(z) \cup Padding(z) BY <1>2, ReachedBy
    <3>3. CASE z \in X
      <4>1. q \in Reached(X) BY <1>2, <3>2, <3>3, ReachedBy
      <4> QED BY <3>1, <4>1 DEF Sound
    <3>4. CASE z = x
      <4>1. q \in Entered(y) \cup Padding(y)
        BY <1>2, <1>5, <1>6, <3>1, <3>2, <3>4, CutReached DEF Uncut
      <4>2. q \in Reached(X) BY <1>2, <1>5, <4>1, ReachedBy
      <4> QED BY <3>1, <4>2 DEF Sound
    <3> QED BY <1>2, <3>2, <3>3, <3>4
  <2>2. ASSUME NEW q \in DOMAIN map PROVE q \in Reached(X') /\ Uncut(q, X')
    <3>1. q \in Reached(X') BY <1>2, <1>7, ReachedBy
    <3>2. ~IsStrictPrefix(x, q)
      <4> SUFFICES ASSUME IsStrictPrefix(x, q) PROVE FALSE
        OBVIOUS
      <4>1. IsStrictPrefix(y, q) BY <1>2, <1>5, <1>6, <1>7, StrictBelow
      <4> QED BY <1>5, <1>7, <4>1 DEF Uncut
    <3> QED BY <1>2, <1>7, <3>1, <3>2 DEF Uncut
  <2> QED BY <1>3, <2>1, <2>2
<1>9. x \notin DOMAIN map BY <1>5, <1>6, <1>7 DEF Uncut
<1>10. ValuesIn'
  <2>1. \A q \in X' \cap DOMAIN map' : map'[q] \in Strings
    BY <1>2, <1>3, <1>9 DEF Sound, ValuesIn
  <2>2. ASSUME OneValue', NEW q \in pairs' \ left', Place(q.parts) \in DOMAIN map'
        PROVE  map'[Place(q.parts)] = q.val
    <3>1. q # p BY <1>3, <1>9, <2>2 DEF x
    <3>2. q \in pairs \ left /\ OneValue BY <1>1, <1>3, <2>2, <3>1, OneMore
    <3> QED BY <1>3, <2>2, <3>2 DEF Sound, ValuesIn
  <2> QED BY <2>1, <2>2 DEF ValuesIn
<1>11. PassedIn'
  <2>1. ASSUME NEW q \in DOMAIN map \ X', NEW z \in X', IsStrictPrefix(q, z)
        PROVE  map[q] = Above(z, Len(q))
    <3>1. CASE z \in X BY <1>2, <2>1, <3>1 DEF Sound, PassedIn
    <3>2. CASE z = x
      <4>1. q \in Paths /\ ~IsStrictPrefix(y, q) /\ q # y /\ q \notin X
        BY <1>2, <1>5, <1>7, <2>1 DEF Uncut
      <4>2. IsPrefix(q, x) /\ IsPrefix(y, x)
        BY <1>2, <1>5, <1>6, <2>1, <3>2, <4>1, StrictAt
      <4>3. IsStrictPrefix(q, y) BY <1>2, <1>5, <4>1, <4>2, Chain
      <4>4. Len(q) \in Nat /\ Len(q) < Len(y) BY <1>2, <1>5, <4>1, <4>3, StrictAt, PathType
      <4>5. Above(y, Len(q)) = Above(x, Len(q)) BY <1>2, <1>5, <4>2, <4>4, AboveSame
      <4>6. map[q] = Above(y, Len(q)) BY <1>5, <2>1, <4>1, <4>3 DEF Sound, PassedIn
      <4> QED BY <3>2, <4>5, <4>6
    <3> QED BY <1>2, <3>1, <3>2
  <2> QED BY <1>3, <2>1 DEF PassedIn
<1>12. PaddingIn'
  <2>1. ASSUME NEW q \in DOMAIN map \ X', ~Passed(q, X')
        PROVE  \E z \in X' : q \in Padding(z) /\ map[q] = Fill(z, q)
    <3>1. ~Passed(q, X) /\ q \notin X BY <1>2, <2>1 DEF Passed
    <3> QED BY <1>2, <2>1, <3>1 DEF Sound, PaddingIn
  <2> QED BY <1>3, <2>1 DEF PaddingIn
<1> QED BY <1>8, <1>10, <1>11, <1>12 DEF Sound

\* A pair that is put in has no key above it.
LEMMA NothingAbove ==
  ASSUME Inv, ConflictFree, Sound, NEW p \in left, Obstacles(map, Place(p.parts)) = {}
  PROVE  Uncut(Place(p.parts), Inserted)
<1> DEFINE x == Place(p.parts)
           X == Inserted
<1>1. TypeOK /\ p \in pairs BY DEF Inv, TypeOK
<1>2. x \in Paths /\ X \subseteq Paths BY <1>1, PlacesType
<1> SUFFICES ASSUME NEW y \in X, IsStrictPrefix(y, x) PROVE FALSE
  BY DEF Uncut
<1>3. PICK z \in X : IsPrefix(z, y) /\ Uncut(z, X) BY <1>2, Shortest
<1>4. z \in DOMAIN map /\ map[z] \in Values
  <2>1. z \in Reached(X) BY <1>2, ReachedBy
  <2>2. z \in DOMAIN map BY <1>3, <2>1 DEF Sound
  <2> QED BY <2>2 DEF Sound, ValuesIn
<1> HIDE DEF x, X
<1>5. IsPrefix(z, x) /\ Len(z) < Len(x)
  <2>1. Len(z) \in Nat /\ Len(y) \in Nat /\ Len(x) \in Nat BY <1>2, PathType
  <2>2. Len(y) < Len(x) /\ \A n \in 1 .. Len(y) : y[n] = x[n] BY <1>2, StrictAt
  <2>3. Len(z) <= Len(y) /\ \A n \in 1 .. Len(z) : z[n] = y[n]
    BY <1>2, <1>3, PathPrefix
  <2> QED BY <1>2, <2>1, <2>2, <2>3, PathPrefix
<1>6. z = SubSeq(x, 1, Len(z)) /\ Len(z) \in 1 .. Len(x) - 1
  <2>1. z \in Paths BY <1>2
  <2>2. z = SubSeq(x, 1, Len(z)) /\ Len(z) \in 1 .. Len(x)
    BY <1>2, <1>5, <2>1, EnteredAt
  <2> QED BY <1>2, <1>5, <2>1, <2>2, PathType
<1>7. map[z] # Above(x, Len(z)) BY <1>4, AboveType
<1>8. Len(z) \in Obstacles(map, x) BY <1>4, <1>6, <1>7 DEF Obstacles
<1> QED BY <1>8 DEF x

\* What is put in takes the place of what is below it, and of nothing else.
LEMMA PutSound ==
  ASSUME Inv, ConflictFree, Sound, NEW p \in left, Put(p), Take(p)
  PROVE  Sound'
<1> DEFINE x == Place(p.parts)
           X == Inserted
           v == p.val
<1>1. TypeOK BY DEF Inv
<1>2. p \in pairs /\ X' = X \cup {x} /\ X \subseteq Paths /\ x \in Paths /\ v \in Strings
  BY <1>1, OneMore, PlacesType
<1>3. map' = Written(map, x, v) /\ pairs' = pairs /\ Obstacles(map, x) = {}
  BY DEF Put, Take
<1>4. Uncut(x, X) BY <1>3, NothingAbove
<1>5. /\ DOMAIN map' = Kept(map, x) \cup Entered(x) \cup Padding(x)
      /\ \A q \in DOMAIN map' : map'[q] = At(map, x, v, q)
  BY <1>3, WrittenAt
<1>6. \A n \in 1 .. Len(x) - 1 :
        SubSeq(x, 1, n) \in DOMAIN map => map[SubSeq(x, 1, n)] = Above(x, n)
  BY <1>3 DEF Obstacles
<1>7. \A q \in pairs \ left' : q \in pairs \ left \/ q = p BY <1>1, OneMore
<1> HIDE DEF x, v
<1>8. \A q \in DOMAIN map : Uncut(q, X) /\ q \in Reached(X) /\ q \in Paths
  <2>1. DOMAIN map \subseteq Paths BY <1>1 DEF TypeOK
  <2> QED BY <2>1 DEF Sound
<1>9. ASSUME NEW q \in DOMAIN map' PROVE q \in Reached(X') /\ Uncut(q, X')
  <2>1. CASE q \in Kept(map, x)
    <3>1. q \in DOMAIN map /\ ~IsStrictPrefix(x, q) BY <2>1 DEF Kept
    <3>2. q \in Reached(X') BY <1>2, <1>8, <3>1, ReachedBy
    <3> QED BY <1>2, <1>8, <3>1, <3>2 DEF Uncut
  <2>2. CASE q \in Entered(x) \cup Padding(x)
    <3>1. q \in Reached(X') BY <1>2, <2>2, ReachedBy
    <3>2. \A y \in X' : ~IsStrictPrefix(y, q)
      <4> SUFFICES ASSUME NEW y \in X', IsStrictPrefix(y, q) PROVE FALSE
        OBVIOUS
      <4>1. y \in Paths BY <1>2
      <4>2. y # x BY <1>2, <2>2, AboveReached
      <4>3. IsStrictPrefix(y, x) BY <1>2, <2>2, <4>1, AboveReached
      <4> QED BY <1>2, <1>4, <4>2, <4>3 DEF Uncut
    <3> QED BY <3>1, <3>2 DEF Uncut
  <2> QED BY <1>5, <2>1, <2>2
<1>10. ASSUME NEW q \in Reached(X), Uncut(q, X') PROVE q \in DOMAIN map /\ q \in DOMAIN map'
  <2>1. Uncut(q, X) /\ ~IsStrictPrefix(x, q) BY <1>2, <1>10 DEF Uncut
  <2>2. q \in DOMAIN map BY <2>1 DEF Sound
  <2> QED BY <1>5, <2>1, <2>2 DEF Kept
<1>11. DOMAIN map' = {q \in Reached(X') : Uncut(q, X')}
  <2>1. ASSUME NEW q \in Reached(X'), Uncut(q, X') PROVE q \in DOMAIN map'
    <3>1. PICK z \in X' : q \in Entered(z) \cup Padding(z) BY <1>2, ReachedBy
    <3>2. CASE z \in X BY <1>2, <1>10, <2>1, <3>1, <3>2, ReachedBy
    <3>3. CASE z = x BY <1>5, <3>1, <3>3
    <3> QED BY <1>2, <3>1, <3>2, <3>3
  <2> QED BY <1>9, <2>1
<1>12. \A q \in DOMAIN map' : q \in X => q \in DOMAIN map
  BY <1>2, <1>9, <1>10, ReachedBy
<1>13. ValuesIn'
  <2>1. ASSUME NEW q \in X' \cap DOMAIN map' PROVE map'[q] \in Strings
    <3>1. CASE q = x BY <1>2, <1>5, <3>1 DEF At
    <3>2. CASE q # x
      <4>1. q \in X \cap DOMAIN map BY <1>2, <1>12, <3>2
      <4> QED BY <1>5, <3>2, <4>1 DEF Sound, ValuesIn, At
    <3> QED BY <3>1, <3>2
  <2>2. ASSUME OneValue', NEW q \in pairs' \ left', Place(q.parts) \in DOMAIN map'
        PROVE  map'[Place(q.parts)] = q.val
    <3>1. OneValue BY <1>1, <2>2, OneMore
    <3>2. CASE Place(q.parts) = x
      <4>1. q.val = v BY <1>2, <1>3, <2>2, <3>1, <3>2 DEF OneValue, x, v
      <4> QED BY <1>5, <2>2, <3>2, <4>1 DEF At
    <3>3. CASE Place(q.parts) # x
      <4>1. q \in pairs \ left BY <1>3, <1>7, <2>2, <3>3 DEF x
      <4>2. Place(q.parts) \in X BY <4>1 DEF Inserted
      <4>3. Place(q.parts) \in DOMAIN map BY <1>12, <2>2, <4>2
      <4>4. map[Place(q.parts)] = q.val BY <3>1, <4>1, <4>3 DEF Sound, ValuesIn
      <4> QED BY <1>5, <2>2, <3>3, <4>3, <4>4 DEF At
    <3> QED BY <3>2, <3>3
  <2> QED BY <2>1, <2>2 DEF ValuesIn
<1>14. PassedIn'
  <2>1. ASSUME NEW q \in DOMAIN map' \ X', NEW z \in X', IsStrictPrefix(q, z)
        PROVE  map'[q] = Above(z, Len(q))
    <3>1. q # x /\ q \notin X BY <1>2, <2>1
    <3>2. q \in Paths
      <4>1. q \in Reached(X') BY <1>9, <2>1
      <4> QED BY <1>2, <4>1, ReachedBy, AboveReached
    <3>3. CASE z \in X
      <4>1. q \in Reached(X) BY <1>2, <2>1, <3>2, <3>3, ReachedBy
      <4>2. q \in DOMAIN map BY <1>9, <1>10, <2>1, <4>1
      <4>3. map[q] = Above(z, Len(q)) BY <2>1, <3>1, <3>3, <4>2 DEF Sound, PassedIn
      <4> QED BY <1>5, <2>1, <3>1, <4>2, <4>3 DEF At
    <3>4. CASE z = x
      <4>1. q \in Entered(x) /\ q = SubSeq(x, 1, Len(q)) /\ Len(q) \in 1 .. Len(x) - 1
        <5>1. IsPrefix(q, x) /\ Len(q) < Len(x) BY <1>2, <2>1, <3>2, <3>4, StrictAt
        <5>2. /\ q \in Entered(x) /\ q = SubSeq(x, 1, Len(q)) /\ Len(q) \in 1 .. Len(x)
          BY <1>2, <3>2, <5>1, EnteredAt
        <5> QED BY <1>2, <5>1, <5>2, PathType
      <4>2. CASE q \in DOMAIN map
        <5>1. map[q] = Above(x, Len(q)) BY <1>6, <4>1, <4>2
        <5> QED BY <1>5, <2>1, <3>1, <3>4, <4>2, <5>1 DEF At
      <4>3. CASE q \notin DOMAIN map BY <1>5, <2>1, <3>1, <3>4, <4>1, <4>3 DEF At
      <4> QED BY <4>2, <4>3
    <3> QED BY <1>2, <3>3, <3>4
  <2> QED BY <2>1 DEF PassedIn
<1>15. PaddingIn'
  <2>1. ASSUME NEW q \in DOMAIN map' \ X', ~Passed(q, X')
        PROVE  \E z \in X' : q \in Padding(z) /\ map'[q] = Fill(z, q)
    <3>1. q # x /\ q \notin X /\ ~Passed(q, X) /\ ~IsStrictPrefix(q, x)
      BY <1>2, <2>1 DEF Passed
    <3>2. CASE q \in DOMAIN map
      <4>1. PICK z \in X : q \in Padding(z) /\ map[q] = Fill(z, q)
        BY <3>1, <3>2 DEF Sound, PaddingIn
      <4>2. map'[q] = map[q] BY <1>5, <2>1, <3>1, <3>2 DEF At
      <4> QED BY <1>2, <4>1, <4>2
    <3>3. CASE q \notin DOMAIN map
      <4>1. q \notin Entered(x)
        <5> SUFFICES ASSUME q \in Entered(x) PROVE FALSE
          OBVIOUS
        <5>1. q \in Paths /\ IsPrefix(q, x) BY <1>2, EnteredAt
        <5> QED BY <3>1, <5>1 DEF IsStrictPrefix
      <4>2. q \in Padding(x) BY <1>5, <2>1, <3>3, <4>1 DEF Kept, At
      <4>3. map'[q] = Fill(x, q) BY <1>5, <2>1, <3>1, <3>3, <4>1 DEF At
      <4> QED BY <1>2, <4>2, <4>3
    <3> QED BY <3>2, <3>3
  <2> QED BY <2>1 DEF PaddingIn
<1> QED BY <1>11, <1>13, <1>14, <1>15 DEF Sound

LEMMA InitInv == Init => Inv
<1> SUFFICES ASSUME Init PROVE Inv
  OBVIOUS
<1>1. TypeOK BY TypeInit
<1>2. left = pairs /\ DOMAIN map = {} /\ ~panicked BY DEF Init, Empty
<1>3. Inserted = {} BY <1>2 DEF Inserted
<1>4. Reached({}) = {} BY DEF Reached
<1>5. ValuesIn /\ PassedIn /\ PaddingIn
  BY <1>2, <1>3 DEF ValuesIn, PassedIn, PaddingIn
<1> QED BY <1>1, <1>2, <1>3, <1>4, <1>5 DEF Inv

LEMMA StepInv == Inv /\ [Next]_vars => Inv'
<1> SUFFICES ASSUME Inv, [Next]_vars PROVE Inv'
  OBVIOUS
<1>1. TypeOK' BY TypeStep DEF Inv
<1>2. CASE UNCHANGED vars
  <2>1. Inserted' = Inserted /\ ConflictFree' = ConflictFree /\ OneValue' = OneValue
    BY <1>2 DEF vars, Inserted, ConflictFree, Places, OneValue
  <2>2. map' = map /\ panicked' = panicked /\ pairs' = pairs /\ left' = left
    BY <1>2 DEF vars
  <2>3. ASSUME Sound PROVE Sound'
    BY <2>1, <2>2, <2>3 DEF Sound, ValuesIn, PassedIn, PaddingIn
  <2> QED BY <1>1, <2>1, <2>2, <2>3 DEF Inv, Sound
<1>3. ASSUME NEW p \in left, PanicAt(p) \/ Drop(p) \/ Put(p), Take(p), ConflictFree
      PROVE  ~panicked' /\ Sound'
  <2>1. ~panicked /\ Sound BY <1>3 DEF Inv, Sound
  <2>2. ~Fatal(p)
    <3>1. p \in pairs BY DEF Inv, TypeOK
    <3>2. p.parts[1] \notin DOMAIN Index BY <1>3, <3>1 DEF ConflictFree
    <3>3. \A n \in Obstacles(map, Place(p.parts)) : ~InList(Place(p.parts), n)
      BY <1>3, ObstacleIsKey
    <3> QED BY <3>2, <3>3 DEF Fatal
  <2>3. ~PanicAt(p) BY <2>2 DEF PanicAt
  <2>4. CASE Drop(p)
    <3>1. Sound' BY <1>3, <2>1, <2>4, DropSound
    <3> QED BY <2>1, <2>4, <3>1 DEF Drop
  <2>5. CASE Put(p)
    <3>1. Sound' BY <1>3, <2>1, <2>5, PutSound
    <3> QED BY <2>1, <2>5, <3>1 DEF Put
  <2> QED BY <1>3, <2>3, <2>4, <2>5
<1>4. CASE Next
  <2>1. PICK p \in left : (PanicAt(p) \/ Drop(p) \/ Put(p)) /\ Take(p)
    BY <1>4 DEF Next, Take
  <2>2. ConflictFree' = ConflictFree BY <2>1, OneMore DEF Inv
  <2>3. ConflictFree => ~panicked' /\ Sound' BY <1>3, <2>1
  <2> QED BY <1>1, <2>2, <2>3 DEF Inv, Sound
<1> QED BY <1>2, <1>4

\* The types of key_value_to_json's state and, without conflicts, what the object
\* is after every pair: the reached paths that are below no other key, with the
\* values of the pairs, arrays and objects above them and filled up lists.
THEOREM Invariant == Spec => []Inv
<1>1. Init => Inv BY InitInv
<1>2. Inv /\ [Next]_vars => Inv' BY StepInv
<1> QED BY <1>1, <1>2, PTL DEF Spec

\* key_value_to_json panics only on a number at the start of a key or on keys
\* that conflict.
THEOREM PanicsOnConflicts == Spec => []PanicNeedsConflict
<1>1. Inv => PanicNeedsConflict BY DEF Inv, PanicNeedsConflict
<1> QED BY <1>1, Invariant, PTL

-----------------------------------------------------------------------------
(* What becomes of a whole configuration *)

\* All pairs have been inserted.
LEMMA AllInserted ==
  ASSUME Inv, left = {}
  PROVE  Inserted = Places /\ pairs \ left = pairs
BY DEF Inserted, Places

LEMMA OutcomeReached == Inv => OrderIrrelevant
<1> SUFFICES ASSUME Inv, Done, ConflictFree, OneValue, EvenLists PROVE map = Outcome
  BY DEF OrderIrrelevant
<1> DEFINE D == {q \in Reached(Places) : Uncut(q, Places)}
           Value(p) == IF p \in Places THEN (CHOOSE q \in pairs : Place(q.parts) = p).val
                    ELSE IF \E x \in Places : IsStrictPrefix(p, x) /\ x[Len(p) + 1] \in Nat
                         THEN Array
                    ELSE IF \/ Passed(p, Places)
                            \/ \E x \in Places : p \in Padding(x) /\ Len(p) < Len(x)
                         THEN Object
                    ELSE Null
<1>1. TypeOK /\ Inserted = Places /\ pairs \ left = pairs /\ Places \subseteq Paths
  BY AllInserted, PlacesType DEF Inv, Done
<1>2. DOMAIN map = D /\ ValuesIn /\ PassedIn /\ PaddingIn BY <1>1 DEF Inv
<1>3. ASSUME NEW p \in D PROVE map[p] = Value(p)
  <2>0. p \in DOMAIN map /\ p \in Paths BY <1>1, <1>2, ReachedBy, AboveReached
  <2>1. CASE p \in Places
    <3> DEFINE q == CHOOSE r \in pairs : Place(r.parts) = p
    <3>1. q \in pairs /\ Place(q.parts) = p BY <2>1 DEF Places
    <3> HIDE DEF q
    <3>2. map[p] = q.val BY <1>1, <1>2, <2>0, <3>1 DEF ValuesIn
    <3> QED BY <2>1, <3>2 DEF q
  <2>2. CASE p \notin Places /\ Passed(p, Places)
    <3>1. \A x \in Places : IsStrictPrefix(p, x) => map[p] = Above(x, Len(p))
      BY <1>1, <1>2, <2>0, <2>2 DEF PassedIn
    <3>2. CASE \E x \in Places : IsStrictPrefix(p, x) /\ x[Len(p) + 1] \in Nat
      BY <2>2, <3>1, <3>2 DEF Above
    <3>3. CASE ~ \E x \in Places : IsStrictPrefix(p, x) /\ x[Len(p) + 1] \in Nat
      BY <2>2, <3>1, <3>3 DEF Above, Passed
    <3> QED BY <3>2, <3>3
  <2>3. CASE p \notin Places /\ ~Passed(p, Places)
    <3>1. PICK x \in Places : p \in Padding(x) /\ map[p] = Fill(x, p)
      BY <1>1, <1>2, <2>0, <2>3 DEF PaddingIn
    <3>2. ~ \E y \in Places : IsStrictPrefix(p, y) /\ y[Len(p) + 1] \in Nat
      BY <2>3 DEF Passed
    <3>3. Beside(p, x) /\ x \in Paths /\ Len(x) \in Nat /\ Len(p) \in Nat
      BY <1>1, <2>0, <3>1, PaddingAt, PathType
    <3>4. ASSUME NEW y \in Places, p \in Padding(y), Len(p) < Len(y), Len(x) = Len(p)
          PROVE  FALSE
      <4>1. Beside(p, y) /\ y \in Paths /\ Len(y) \in Nat BY <1>1, <3>4, PaddingAt, PathType
      <4>2. \A i \in 1 .. Len(p) - 1 : x[i] = y[i] BY <3>3, <4>1 DEF Beside
      <4>3. SubSeq(y, 1, Len(p) - 1) = SubSeq(x, 1, Len(p) - 1)
        BY <3>3, <3>4, <4>1, <4>2, SameStart
      <4>4. Mixed(y, x) BY <3>3, <3>4, <4>1, <4>3 DEF Mixed, Beside
      <4>5. p[Len(p)] \in 0 .. x[Len(x)] - 1 BY <3>3, <3>4 DEF Beside
      <4> DEFINE z == [x EXCEPT ![Len(x)] = p[Len(p)]]
      <4>6. z \in Places BY <3>4, <4>4, <4>5 DEF EvenLists
      <4>7. z = p
        <5>1. z \in Paths BY <1>1, <4>6
        <5>2. DOMAIN x = 1 .. Len(x) /\ Len(x) >= 1 BY <3>3, PathType
        <5>3. DOMAIN z = 1 .. Len(x) BY <5>2
        <5>4. Len(z) = Len(p)
          <6>1. DOMAIN z = 1 .. Len(z) /\ Len(z) \in Nat BY <5>1, PathType
          <6> HIDE DEF z
          <6> QED BY <3>3, <3>4, <5>2, <5>3, <6>1
        <5>5. \A i \in 1 .. Len(p) : z[i] = p[i]
          BY <3>3, <3>4, <5>2 DEF Beside
        <5> HIDE DEF z
        <5> QED BY <2>0, <5>1, <5>4, <5>5, PathEqual
      <4> QED BY <2>3, <4>6, <4>7
    <3>5. CASE \E y \in Places : p \in Padding(y) /\ Len(p) < Len(y)
      <4>1. Len(p) # Len(x) BY <3>4, <3>5
      <4> QED BY <2>3, <3>1, <3>2, <3>5, <4>1 DEF Fill
    <3>6. CASE ~ \E y \in Places : p \in Padding(y) /\ Len(p) < Len(y)
      <4>1. Len(p) = Len(x) BY <3>1, <3>3, <3>6 DEF Beside
      <4> QED BY <2>3, <3>1, <3>2, <3>6, <4>1 DEF Fill
    <3> QED BY <3>5, <3>6
  <2> QED BY <2>1, <2>2, <2>3
<1>4. map = [p \in D |-> map[p]]
  <2>1. map \in [DOMAIN map -> Values \cup {Object, Array}] BY <1>1 DEF TypeOK
  <2> HIDE DEF D
  <2> QED BY <1>2, <2>1
<1>5. Outcome = [p \in D |-> Value(p)] BY Zenon DEF Outcome
<1> HIDE DEF D, Value
<1>6. [p \in D |-> map[p]] = [p \in D |-> Value(p)] BY <1>3
<1> QED BY <1>4, <1>5, <1>6

\* In whatever order the HashMap yields the pairs, without conflicts they make
\* the same object: that of Outcome, which does not mention the order.
THEOREM OrderDoesNotMatter == Spec => []OrderIrrelevant
BY Invariant, OutcomeReached, PTL

-----------------------------------------------------------------------------
(* Names only *)

\* Keys of names do not conflict, and every key stands for itself.
LEMMA NamesDoNotConflict ==
  ASSUME TypeOK, NamesOnly
  PROVE  /\ ConflictFree
         /\ \A p \in pairs : Place(p.parts) = p.parts
         /\ \A x \in Places : /\ x \in Paths /\ Padding(x) = {}
                             /\ \A n \in 1 .. Len(x) : x[n] \in Names \ DOMAIN Index
<1>1. ASSUME NEW p \in pairs
      PROVE  /\ Place(p.parts) = p.parts /\ p.parts[1] \notin DOMAIN Index
             /\ \A n \in 1 .. Len(p.parts) : p.parts[n] \in Names \ DOMAIN Index
  <2> DEFINE x == p.parts
  <2>1. x \in Seq(Names) \ {<<>>} BY PlacesType
  <2>2. \A n \in DOMAIN x : x[n] \notin DOMAIN Index BY DEF NamesOnly
  <2> HIDE DEF x
  <2>3. Place(x) = x BY <2>1, <2>2, PlaceOfNames
  <2>4. x \in Seq(Names) /\ x # <<>> BY <2>1
  <2>5. DOMAIN x = 1 .. Len(x) /\ Len(x) \in Nat /\ Len(x) # 0
    BY <2>4, LenProperties, EmptySeq
  <2>6. \A n \in 1 .. Len(x) : x[n] \in Names BY <2>4, ElementOfSeq
  <2> QED BY <2>2, <2>3, <2>5, <2>6 DEF x
<1>2. ASSUME NEW x \in Places
      PROVE  /\ x \in Paths /\ Padding(x) = {} /\ Len(x) \in Nat
             /\ \A n \in 1 .. Len(x) : x[n] \in Names \ DOMAIN Index
  <2>1. x \in Paths BY PlacesType
  <2>2. \A n \in 1 .. Len(x) : x[n] \in Names \ DOMAIN Index BY <1>1 DEF Places
  <2>3. ASSUME NEW p \in Padding(x) PROVE FALSE
    <3>1. Beside(p, x) BY <2>1, PaddingAt
    <3>2. Len(p) \in 1 .. Len(x) BY <2>1, <3>1, PathType DEF Beside
    <3> QED BY <2>2, <3>1, <3>2 DEF Beside
  <2> QED BY <2>1, <2>2, <2>3, PathType
<1>3. ASSUME NEW x \in Places, NEW y \in Places PROVE ~Conflict(x, y)
  <2>1. \A n \in 1 .. Len(x) - 1 : x[n] \notin Nat /\ x[n + 1] \notin Nat
    <3>1. \A n \in 1 .. Len(x) : x[n] \notin Nat /\ Len(x) \in Nat BY <1>2
    <3> QED BY <3>1
  <2> QED BY <2>1 DEF Conflict
<1> QED BY <1>1, <1>2, <1>3 DEF ConflictFree

\* What the object has at the end: the keys that extend no other one, and what
\* is above them.
LEMMA NamesAtEnd ==
  ASSUME Inv, NamesOnly, left = {}
  PROVE  /\ ~panicked /\ Places \subseteq Paths
         /\ DOMAIN map = {p \in UNION {Entered(x) : x \in Places} : Uncut(p, Places)}
         /\ \A p \in DOMAIN map :
              /\ p \in Paths /\ \A n \in 1 .. Len(p) : p[n] \notin Nat
              /\ p \in Places => map[p] \in Strings
              /\ p \notin Places => map[p] = Object
         /\ OneValue => \A p \in pairs : p.parts \in DOMAIN map => map[p.parts] = p.val
<1>1. TypeOK /\ ConflictFree /\ Inserted = Places /\ pairs \ left = pairs
  BY AllInserted, NamesDoNotConflict DEF Inv
<1>2. /\ \A p \in pairs : Place(p.parts) = p.parts
      /\ \A x \in Places : /\ x \in Paths /\ Padding(x) = {}
                          /\ \A n \in 1 .. Len(x) : x[n] \notin Nat
  BY <1>1, NamesDoNotConflict
<1>3. ~panicked /\ ValuesIn /\ PassedIn BY <1>1 DEF Inv
<1>4. Reached(Places) = UNION {Entered(x) : x \in Places} BY <1>2 DEF Reached
<1>5. DOMAIN map = {p \in UNION {Entered(x) : x \in Places} : Uncut(p, Places)}
  BY <1>1, <1>4 DEF Inv
<1>6. ASSUME NEW p \in DOMAIN map
      PROVE  /\ p \in Paths /\ \A n \in 1 .. Len(p) : p[n] \notin Nat
             /\ p \in Places => map[p] \in Strings
             /\ p \notin Places => map[p] = Object
  <2>1. PICK x \in Places : p \in Entered(x) BY <1>5
  <2>2. p \in Paths /\ x \in Paths /\ IsPrefix(p, x) BY <1>2, <2>1, EnteredAt
  <2>3. /\ Len(p) \in Nat /\ Len(x) \in Nat /\ Len(p) <= Len(x)
        /\ \A n \in 1 .. Len(p) : p[n] = x[n]
    BY <2>2, PathPrefix, PathType
  <2>4. \A n \in 1 .. Len(p) : p[n] \notin Nat BY <1>2, <2>3
  <2>5. p \in Places => map[p] \in Strings BY <1>1, <1>3 DEF ValuesIn
  <2>6. ASSUME p \notin Places PROVE map[p] = Object
    <3>1. IsStrictPrefix(p, x) BY <2>2, <2>6 DEF IsStrictPrefix
    <3>2. Len(p) + 1 \in 1 .. Len(x) BY <2>2, <2>3, <3>1, StrictAt
    <3>3. map[p] = Above(x, Len(p)) BY <1>1, <1>3, <2>6, <3>1 DEF PassedIn
    <3> QED BY <1>2, <3>2, <3>3 DEF Above
  <2> QED BY <2>2, <2>4, <2>5, <2>6
<1>7. OneValue => \A p \in pairs : p.parts \in DOMAIN map => map[p.parts] = p.val
  BY <1>1, <1>2, <1>3 DEF ValuesIn
<1> QED BY <1>2, <1>3, <1>5, <1>6, <1>7

\* Where there are no positions, the leaves are what is flattened.
LEMMA FlattenNames ==
  ASSUME NEW t, \A p \in DOMAIN t : p \in Paths /\ \A n \in 1 .. Len(p) : p[n] \notin Nat
  PROVE  Flatten(t) =
           {[parts |-> p, val |-> AsText(t[p])] : p \in {q \in DOMAIN t : t[q] \in Values}}
<1>1. ASSUME NEW p \in DOMAIN t PROVE ~Inner(t, p) /\ Named(p) = p
  <2>1. /\ Len(p) \in Nat /\ Len(p) >= 1 /\ DOMAIN p = 1 .. Len(p)
        /\ p \in Seq(Names \cup Nat) /\ \A n \in 1 .. Len(p) : p[n] \notin Nat
    BY PathType
  <2>2. ~Inner(t, p) BY <2>1 DEF Inner
  <2>3. Named(p) = [n \in 1 .. Len(p) |-> p[n]] BY <2>1 DEF Named
  <2>4. p = [n \in 1 .. Len(p) |-> p[n]] BY <2>1
  <2> QED BY <2>2, <2>3, <2>4
<1> QED BY <1>1 DEF Flatten

LEMMA ShorterKeysFlatten == Inv => ShorterKeyWins
<1> SUFFICES ASSUME Inv, NamesOnly
             PROVE  /\ ~panicked
                    /\ Done /\ OneValue =>
                         Flatten(map) = {p \in pairs : \A q \in pairs :
                                           ~IsStrictPrefix(q.parts, p.parts)}
  BY DEF ShorterKeyWins
<1>1. TypeOK BY DEF Inv
<1>2. /\ ConflictFree /\ Places \subseteq Paths
      /\ \A p \in pairs : Place(p.parts) = p.parts
  BY <1>1, NamesDoNotConflict
<1>3. ~panicked BY <1>2 DEF Inv
<1>4. ASSUME Done, OneValue
      PROVE  Flatten(map) = {p \in pairs : \A q \in pairs : ~IsStrictPrefix(q.parts, p.parts)}
  <2>1. /\ DOMAIN map = {p \in UNION {Entered(x) : x \in Places} : Uncut(p, Places)}
        /\ \A p \in DOMAIN map :
             /\ p \in Paths /\ \A n \in 1 .. Len(p) : p[n] \notin Nat
             /\ p \in Places => map[p] \in Strings
             /\ p \notin Places => map[p] = Object
        /\ \A p \in pairs : p.parts \in DOMAIN map => map[p.parts] = p.val
    BY <1>4, NamesAtEnd DEF Done
  <2>2. Flatten(map) =
          {[parts |-> p, val |-> AsText(map[p])] : p \in {q \in DOMAIN map : map[q] \in Values}}
    BY <2>1, FlattenNames
  <2>3. \A p \in pairs : p = [parts |-> p.parts, val |-> p.val] /\ p.val \in Strings
    BY <1>1 DEF TypeOK, Configuration
  <2>4. ASSUME NEW p \in DOMAIN map, map[p] \in Values
        PROVE  /\ [parts |-> p, val |-> AsText(map[p])] \in pairs
               /\ \A q \in pairs : ~IsStrictPrefix(q.parts, p)
    <3>1. p \in Places BY <2>1, <2>4
    <3>2. PICK r \in pairs : r.parts = p BY <1>2, <3>1 DEF Places
    <3>3. [parts |-> p, val |-> AsText(map[p])] = r BY <2>1, <2>3, <3>1, <3>2, TextType
    <3>4. \A q \in pairs : q.parts \in Places BY <1>2 DEF Places
    <3> QED BY <2>1, <3>2, <3>3, <3>4 DEF Uncut
  <2>5. ASSUME NEW p \in pairs, \A q \in pairs : ~IsStrictPrefix(q.parts, p.parts)
        PROVE  /\ p.parts \in DOMAIN map /\ map[p.parts] \in Values
               /\ p = [parts |-> p.parts, val |-> AsText(map[p.parts])]
    <3>1. p.parts \in Places BY <1>2 DEF Places
    <3>2. p.parts \in Entered(p.parts) BY <1>2, <3>1, ReachedBy
    <3>3. Uncut(p.parts, Places) BY <1>2, <2>5 DEF Uncut, Places
    <3>4. p.parts \in DOMAIN map BY <2>1, <3>1, <3>2, <3>3
    <3>5. map[p.parts] = p.val BY <2>1, <3>4
    <3> QED BY <2>3, <3>4, <3>5, TextType
  <2> QED BY <2>2, <2>4, <2>5
<1> QED BY <1>3, <1>4

\* Of keys of names, the one that another extends wins, whichever came first.
THEOREM ShorterKeysWin == Spec => []ShorterKeyWins
BY Invariant, ShorterKeysFlatten, PTL

\* Below every path of a nested object there is a value.
LEMMA LeafBelow ==
  ASSUME NEW t, IsTree(t), Nested(t), NEW p \in DOMAIN t
  PROVE  \E l \in DOMAIN t : IsPrefix(p, l) /\ t[l] \notin {Array, Object}
<1> DEFINE Lower(q) == {r \in DOMAIN t : IsStrictPrefix(q, r)}
           T == {Lower(q) : q \in {r \in DOMAIN t : IsPrefix(p, r)}}
<1>1. IsFiniteSet(DOMAIN t) /\ DOMAIN t \subseteq Paths BY DEF IsTree
<1>2. IsPrefix(p, p) BY <1>1, PathPrefix
<1>3. T \in SUBSET SUBSET DOMAIN t /\ T # {}
  <2>1. Lower(p) \in T BY <1>2
  <2>2. \A s \in T : s \in SUBSET DOMAIN t OBVIOUS
  <2> HIDE DEF T, Lower
  <2> QED BY <2>1, <2>2
<1>4. PICK m \in T : \A s \in T : ~(s \subseteq m /\ s # m)
  <2> HIDE DEF T
  <2> QED BY <1>1, <1>3, Smallest
<1>5. PICK l \in DOMAIN t : IsPrefix(p, l) /\ m = Lower(l) BY <1>4
<1>6. ASSUME t[l] \in {Array, Object} PROVE FALSE
  <2>1. PICK r \in DOMAIN t : IsStrictPrefix(l, r) BY <1>6 DEF Nested
  <2>2. IsPrefix(p, r)
    <3>1. Len(p) <= Len(l) /\ \A n \in 1 .. Len(p) : p[n] = l[n] BY <1>1, <1>5, PathPrefix
    <3>2. Len(l) < Len(r) /\ \A n \in 1 .. Len(l) : l[n] = r[n] BY <1>1, <2>1, StrictAt
    <3>3. Len(p) \in Nat /\ Len(l) \in Nat /\ Len(r) \in Nat BY <1>1, PathType
    <3>4. Len(p) <= Len(r) /\ \A n \in 1 .. Len(p) : p[n] = r[n] BY <3>1, <3>2, <3>3
    <3> QED BY <1>1, <3>4, PathPrefix
  <2>3. Lower(r) \in T BY <2>2
  <2>4. Lower(r) \subseteq Lower(l) BY <1>1, <2>1, StrictBelow
  <2>5. r \in Lower(l) /\ r \notin Lower(r) BY <2>1 DEF IsStrictPrefix
  <2> HIDE DEF T, Lower
  <2> QED BY <1>4, <1>5, <2>3, <2>4, <2>5
<1> QED BY <1>5, <1>6

\* What is above a path of an object of names is an object.
LEMMA NestedAbove ==
  ASSUME NEW t, IsTree(t), Nested(t), NEW q \in DOMAIN t, NEW p \in Paths,
         IsStrictPrefix(p, q)
  PROVE  p \in DOMAIN t /\ t[p] = Object
<1>1. q \in Paths BY DEF IsTree
<1>2. Len(p) \in 1 .. Len(q) - 1 /\ p = SubSeq(q, 1, Len(p))
  <2>1. Len(p) < Len(q) /\ IsPrefix(p, q) BY <1>1, StrictAt
  <2>2. p = SubSeq(q, 1, Len(p)) /\ Len(p) \in 1 .. Len(q) BY <1>1, <2>1, EnteredAt
  <2> QED BY <1>1, <2>1, <2>2, PathType
<1>3. p \in DOMAIN t /\ t[p] = Above(q, Len(p))
  <2>1. \A n \in 1 .. Len(q) - 1 :
          SubSeq(q, 1, n) \in DOMAIN t /\ t[SubSeq(q, 1, n)] = Above(q, n)
    BY Zenon DEF IsTree
  <2> QED BY <1>2, <2>1, Zenon
<1>4. q[Len(p) + 1] \notin Nat
  <2>1. Len(p) + 1 \in DOMAIN q BY <1>1, <1>2, PathType
  <2> QED BY <2>1 DEF Nested
<1> QED BY <1>3, <1>4 DEF Above

LEMMA NestedParsesBack == Inv => ParsesBack
<1> SUFFICES ASSUME Inv, left = {}, tree # NoTree, Nested(tree)
             PROVE  map = Textual(tree)
  BY DEF ParsesBack
<1> DEFINE t == tree
           L == {q \in DOMAIN t : t[q] \in Values}
<1>1. TypeOK /\ t \in Trees /\ pairs = Flatten(t) BY DEF Inv, TypeOK
<1>2. IsTree(t) /\ Nested(t) BY <1>1, TreesAssumption
<1> HIDE DEF t
<1>3. /\ DOMAIN t \subseteq Paths /\ t \in [DOMAIN t -> Values \cup {Object, Array}]
      /\ \A p \in DOMAIN t : \A n \in 1 .. Len(p) : p[n] \notin Nat \cup DOMAIN Index
  <2>1. DOMAIN t \subseteq Paths BY <1>2 DEF IsTree
  <2>2. \A p \in DOMAIN t : DOMAIN p = 1 .. Len(p) BY <2>1, PathType
  <2> QED BY <1>2, <2>1, <2>2 DEF IsTree, Nested
<1>4. \A p \in DOMAIN t : t[p] \in Values \/ t[p] = Object
  <2> SUFFICES ASSUME NEW p \in DOMAIN t, t[p] = Array PROVE FALSE
    BY <1>3
  <2>1. PICK q \in DOMAIN t : IsStrictPrefix(p, q) BY <1>2 DEF Nested
  <2>2. t[p] = Object BY <1>2, <1>3, <2>1, NestedAbove
  <2> QED BY <2>2
<1>5. pairs = {[parts |-> p, val |-> AsText(t[p])] : p \in L}
  <2>1. \A p \in DOMAIN t : p \in Paths /\ \A n \in 1 .. Len(p) : p[n] \notin Nat
    BY <1>3
  <2> QED BY <1>1, <2>1, FlattenNames
<1>6. NamesOnly
  <2>1. ASSUME NEW p \in L PROVE \A n \in DOMAIN p : p[n] \notin DOMAIN Index
    <3>1. DOMAIN p = 1 .. Len(p) BY <1>3, PathType
    <3> QED BY <1>3, <3>1
  <2> QED BY <1>5, <2>1 DEF NamesOnly
<1>7. \A p \in pairs : Place(p.parts) = p.parts BY <1>1, <1>6, NamesDoNotConflict
<1>8. Places = L
  <2>1. ASSUME NEW p \in pairs PROVE Place(p.parts) \in L
    <3>1. p.parts \in L BY <1>5
    <3> QED BY <1>7, <3>1
  <2>2. ASSUME NEW l \in L PROVE \E p \in pairs : Place(p.parts) = l
    <3> DEFINE p == [parts |-> l, val |-> AsText(t[l])]
    <3>1. p \in pairs /\ p.parts = l BY <1>5
    <3> HIDE DEF p
    <3> QED BY <1>7, <3>1
  <2> HIDE DEF L
  <2> QED BY <2>1, <2>2 DEF Places
<1>9. OneValue BY <1>5, <1>7 DEF OneValue
<1>10. /\ DOMAIN map = {p \in UNION {Entered(x) : x \in L} : Uncut(p, L)}
       /\ \A p \in DOMAIN map : p \notin L => map[p] = Object
       /\ \A p \in pairs : p.parts \in DOMAIN map => map[p.parts] = p.val
  BY <1>6, <1>8, <1>9, NamesAtEnd
<1>11. ASSUME NEW p \in DOMAIN t PROVE p \in DOMAIN map
  <2>1. PICK l \in DOMAIN t : IsPrefix(p, l) /\ t[l] \notin {Array, Object}
    BY <1>2, LeafBelow
  <2>2. l \in L BY <1>4, <2>1
  <2>3. p \in Entered(l) BY <1>3, <2>1, EnteredAt
  <2>4. ASSUME NEW x \in L, IsStrictPrefix(x, p) PROVE FALSE
    <3>1. t[x] = Object BY <1>2, <1>3, <2>4, NestedAbove
    <3> QED BY <2>4, <3>1
  <2> QED BY <1>10, <2>2, <2>3, <2>4 DEF Uncut
<1>12. ASSUME NEW p \in DOMAIN map PROVE p \in DOMAIN t
  <2>1. PICK l \in L : p \in Entered(l) BY <1>10
  <2>2. p \in Paths /\ IsPrefix(p, l) BY <1>3, <2>1, EnteredAt
  <2>3. CASE p = l BY <2>3
  <2>4. CASE p # l
    <3>1. IsStrictPrefix(p, l) BY <2>2, <2>4 DEF IsStrictPrefix
    <3> QED BY <1>2, <2>2, <3>1, NestedAbove
  <2> QED BY <2>3, <2>4
<1>13. ASSUME NEW p \in DOMAIN t
       PROVE  map[p] = IF t[p] = Object THEN Object ELSE AsText(t[p])
  <2>1. p \in DOMAIN map BY <1>11
  <2>2. CASE p \in L
    <3>1. [parts |-> p, val |-> AsText(t[p])] \in pairs BY <1>5, <2>2
    <3> QED BY <1>10, <2>1, <2>2, <3>1
  <2>3. CASE p \notin L BY <1>4, <1>10, <2>1, <2>3
  <2> QED BY <2>2, <2>3
<1>14. DOMAIN map = DOMAIN t BY <1>11, <1>12
<1>15. map = [p \in DOMAIN map |-> map[p]] BY <1>1 DEF TypeOK
<1> HIDE DEF L
<1>16. map = Textual(t) BY <1>13, <1>14, <1>15 DEF Textual
<1> QED BY <1>16 DEF t

\* What json_to_key_value wrote of nested objects of names, key_value_to_json
\* reads as the same object with every leaf as its text.
THEOREM FilesParseBack == Spec => []ParsesBack
BY Invariant, NestedParsesBack, PTL
=============================================================================
