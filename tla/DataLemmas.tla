--------------------------- MODULE DataLemmas ---------------------------
(* Induction over the naturals and over finite sets as facts about sets, and *)
(* what it gives of FlattenSeq and of sums over sets: the community modules  *)
(* define them by recursive functions.                                       *)
EXTENDS Integers, SequencesExt, SequenceTheorems, FiniteSetTheorems,
        WellFoundedInduction, TLAPS

\* Every set of naturals has a least element.
LEMMA Least ==
  ASSUME NEW T \in SUBSET Nat, T # {}
  PROVE  \E n \in T : \A m \in T : n <= m
<1>1. \E n \in T : \A m \in T : ~ (<<m, n>> \in OpToRel(<, Nat))
  BY WFMin, NatLessThanWellFounded
<1>2. \A m, n \in T : m < n => <<m, n>> \in OpToRel(<, Nat)
  BY DEF OpToRel
<1>3. \E n \in T : \A m \in T : ~ (m < n)
  BY <1>1, <1>2, Zenon
<1> QED BY <1>3

\* A set with zero and every successor has all naturals.
LEMMA Induct ==
  ASSUME NEW T, 0 \in T, \A n \in Nat : n \in T => n + 1 \in T
  PROVE  Nat \subseteq T
<1> SUFFICES ASSUME Nat \ T # {} PROVE FALSE
  OBVIOUS
<1>1. PICK n \in Nat \ T : \A m \in Nat \ T : n <= m BY Least
<1>2. n # 0 /\ n - 1 \in Nat /\ n - 1 \in T BY <1>1
<1> QED BY <1>1, <1>2

-----------------------------------------------------------------------------
(* The function behind FlattenSeq: what the first i sequences flatten to *)

Step(s, f) == [i \in 1 .. Len(s) |-> IF i = 1 THEN s[i] ELSE f[i - 1] \o s[i]]
Flat(s) == CHOOSE f : f = Step(s, f)

\* The values of such a function.
LEMMA StepValues ==
  ASSUME NEW s, NEW f, f = Step(s, f)
  PROVE  /\ DOMAIN f = 1 .. Len(s)
         /\ \A i \in 1 .. Len(s) : f[i] = IF i = 1 THEN s[i] ELSE f[i - 1] \o s[i]
BY Zenon DEF Step

\* Such a function exists for every sequence ...
LEMMA FlatExists ==
  ASSUME NEW S, NEW s \in Seq(Seq(S))
  PROVE  Flat(s) = Step(s, Flat(s))
<1> DEFINE Upto(n) == \E f : f = [i \in 1 .. n |-> IF i = 1 THEN s[i]
                                                   ELSE f[i - 1] \o s[i]]
           T == {n \in Nat : Upto(n)}
<1>1. 0 \in T
  <2> DEFINE f == [i \in 1 .. 0 |-> s[i]]
  <2>1. f = [i \in 1 .. 0 |-> IF i = 1 THEN s[i] ELSE f[i - 1] \o s[i]]
    OBVIOUS
  <2> QED BY <2>1
<1>2. ASSUME NEW n \in Nat, Upto(n) PROVE Upto(n + 1)
  <2>1. PICK f : f = [i \in 1 .. n |-> IF i = 1 THEN s[i] ELSE f[i - 1] \o s[i]]
    BY <1>2
  <2> DEFINE g == [i \in 1 .. n + 1 |->
                     IF i \in 1 .. n THEN f[i]
                     ELSE IF i = 1 THEN s[i] ELSE f[i - 1] \o s[i]]
  <2>2. \A i \in 1 .. n + 1 : i # 1 => i - 1 \in 1 .. n /\ g[i - 1] = f[i - 1]
    OBVIOUS
  <2>3. \A i \in 1 .. n : f[i] = IF i = 1 THEN s[i] ELSE f[i - 1] \o s[i]
    BY <2>1, Zenon
  <2>4. \A i \in 1 .. n + 1 : g[i] = IF i = 1 THEN s[i] ELSE f[i - 1] \o s[i]
    BY <2>3
  <2>5. \A i \in 1 .. n + 1 : g[i] = IF i = 1 THEN s[i] ELSE g[i - 1] \o s[i]
    BY <2>2, <2>4
  <2>6. g = [i \in 1 .. n + 1 |-> IF i = 1 THEN s[i] ELSE g[i - 1] \o s[i]]
    BY <2>5
  <2> HIDE DEF g
  <2> QED BY <2>6
<1>3. Nat \subseteq T
  <2> HIDE DEF Upto
  <2>1. \A n \in Nat : n \in T => n + 1 \in T BY <1>2
  <2> HIDE DEF T
  <2> QED BY <1>1, <2>1, Induct
<1>4. \E f : f = Step(s, f)
  <2>1. Len(s) \in Nat BY LenProperties
  <2>2. Upto(Len(s))
    <3> HIDE DEF Upto
    <3> QED BY <1>3, <2>1
  <2> QED BY <2>2, Zenon DEF Step
<1> QED BY <1>4 DEF Flat

\* ... and is the only one.
LEMMA FlatUnique ==
  ASSUME NEW S, NEW s \in Seq(Seq(S)), NEW f, f = Step(s, f)
  PROVE  f = Flat(s)
<1> DEFINE g == Flat(s)
           T == {i \in 1 .. Len(s) : f[i] # g[i]}
<1>1. g = Step(s, g) BY FlatExists
<1> HIDE DEF g
<1>2. /\ DOMAIN f = 1 .. Len(s) /\ DOMAIN g = 1 .. Len(s)
      /\ \A i \in 1 .. Len(s) :
           /\ f[i] = IF i = 1 THEN s[i] ELSE f[i - 1] \o s[i]
           /\ g[i] = IF i = 1 THEN s[i] ELSE g[i - 1] \o s[i]
  BY <1>1, StepValues
<1>3. f = [i \in 1 .. Len(s) |-> f[i]] /\ g = [i \in 1 .. Len(s) |-> g[i]]
  BY <1>1 DEF Step
<1>4. ASSUME T # {} PROVE FALSE
  <2>1. T \in SUBSET Nat OBVIOUS
  <2> HIDE DEF T
  <2>2. PICK n \in T : \A m \in T : n <= m BY <1>4, <2>1, Least
  <2> USE DEF T
  <2>3. n # 1 BY <1>2, <2>2
  <2>4. n - 1 \in 1 .. Len(s) /\ n - 1 \notin T BY <2>2, <2>3
  <2>5. f[n] # g[n] /\ f[n - 1] = g[n - 1] BY <2>2, <2>4
  <2>6. f[n] = f[n - 1] \o s[n] /\ g[n] = g[n - 1] \o s[n] BY <1>2, <2>2, <2>3
  <2> QED BY <2>5, <2>6
<1>5. \A i \in 1 .. Len(s) : f[i] = g[i] BY <1>4
<1>6. f = g BY <1>3, <1>5, Zenon
<1> QED BY <1>6 DEF g

\* FlattenSeq takes that function's last value.
LEMMA FlattenIsFlat ==
  ASSUME NEW S, NEW s \in Seq(Seq(S)), s # <<>>
  PROVE  FlattenSeq(s) = Flat(s)[Len(s)]
BY DEF FlattenSeq, Flat, Step

\* Nothing flattens to nothing.
LEMMA FlattenEmpty == FlattenSeq(<<>>) = <<>>
BY DEF FlattenSeq

\* Flattening adds one sequence after the other.
LEMMA FlattenAppend ==
  ASSUME NEW S, NEW s \in Seq(Seq(S)), NEW x \in Seq(S)
  PROVE  FlattenSeq(Append(s, x)) = FlattenSeq(s) \o x
<1> DEFINE t == Append(s, x)
<1>1. /\ t \in Seq(Seq(S)) /\ Len(t) = Len(s) + 1 /\ t[Len(t)] = x /\ t # <<>>
      /\ \A i \in 1 .. Len(s) : t[i] = s[i]
  BY AppendProperties
<1> HIDE DEF t
<1>2. Flat(t) = Step(t, Flat(t)) BY <1>1, FlatExists
<1>3. \A i \in 1 .. Len(t) :
        Flat(t)[i] = IF i = 1 THEN t[i] ELSE Flat(t)[i - 1] \o t[i]
  BY <1>2, StepValues
<1>4. FlattenSeq(t) = Flat(t)[Len(t)] BY <1>1, FlattenIsFlat
<1>5. CASE s = <<>>
  BY <1>1, <1>3, <1>4, <1>5, FlattenEmpty DEF t
<1>6. CASE s # <<>>
  <2> DEFINE f == [i \in 1 .. Len(s) |-> Flat(t)[i]]
  <2>1. Len(s) >= 1 /\ Len(s) \in Nat BY <1>6
  <2>2. \A i \in 1 .. Len(s) : f[i] = IF i = 1 THEN s[i] ELSE f[i - 1] \o s[i]
    BY <1>1, <1>3, <2>1
  <2>3. f = Step(s, f) BY <2>2, Zenon DEF Step
  <2>4. f = Flat(s) BY <2>3, FlatUnique
  <2>5. Flat(t)[Len(t)] = Flat(t)[Len(s)] \o x
    <3>1. Len(t) \in 1 .. Len(t) /\ Len(t) # 1 /\ Len(t) - 1 = Len(s)
      BY <1>1, <2>1
    <3> QED BY <1>1, <1>3, <3>1
  <2>6. Flat(t)[Len(s)] = f[Len(s)] BY <2>1
  <2>7. f[Len(s)] = FlattenSeq(s) BY <1>6, <2>4, FlattenIsFlat
  <2> QED BY <1>4, <2>5, <2>6, <2>7 DEF t
<1> QED BY <1>5, <1>6

-----------------------------------------------------------------------------
(* What the first elements of a sequence flatten to *)

Upto(s, n) == FlattenSeq(SubSeq(s, 1, n))

\* Before the first element there is nothing.
LEMMA UptoNothing == ASSUME NEW s PROVE Upto(s, 0) = <<>>
<1>1. SubSeq(s, 1, 0) = <<>> BY SubSeqEmpty
<1> QED BY <1>1, FlattenEmpty DEF Upto

\* One element more of a sequence.
LEMMA OneLonger ==
  ASSUME NEW S, NEW s \in Seq(S), NEW n \in Nat, n < Len(s)
  PROVE  SubSeq(s, 1, n + 1) = SubSeq(s, 1, n) \o <<s[n + 1]>>
<1>1. 1 \in 1 .. Len(s) /\ n + 1 \in 1 .. Len(s) BY LenProperties
<1>2. SubSeq(s, 1, n + 1) = SubSeq(s, 1, (n + 1) - 1) \o <<s[n + 1]>>
  BY <1>1, SubSeqRecursiveSecond
<1>3. (n + 1) - 1 = n OBVIOUS
<1> QED BY <1>2, <1>3

\* The next element comes behind those before it.
LEMMA UptoNext ==
  ASSUME NEW S, NEW s \in Seq(Seq(S)), NEW n \in Nat, n < Len(s)
  PROVE  Upto(s, n + 1) = Upto(s, n) \o s[n + 1] /\ s[n + 1] \in Seq(S)
<1>1. s[n + 1] \in Seq(S) BY ElementOfSeq
<1>2. SubSeq(s, 1, n) \in Seq(Seq(S)) BY SubSeqProperties
<1>3. SubSeq(s, 1, n + 1) = SubSeq(s, 1, n) \o <<s[n + 1]>>
  BY OneLonger
<1>4. SubSeq(s, 1, n + 1) = Append(SubSeq(s, 1, n), s[n + 1])
  BY <1>1, <1>2, <1>3, AppendIsConcat
<1> QED BY <1>1, <1>2, <1>4, FlattenAppend DEF Upto

\* What the first elements flatten to is a sequence over the same set.
LEMMA UptoType ==
  ASSUME NEW S, NEW s \in Seq(Seq(S)), NEW n \in 0 .. Len(s)
  PROVE  Upto(s, n) \in Seq(S)
<1> DEFINE T == {m \in Nat : m <= Len(s) => Upto(s, m) \in Seq(S)}
<1>1. Len(s) \in Nat BY LenProperties
<1>2. 0 \in T
  <2>1. Upto(s, 0) = <<>> BY UptoNothing
  <2> QED BY <2>1, EmptySeq
<1>3. ASSUME NEW m \in Nat, m \in T PROVE m + 1 \in T
  <2>1. CASE m + 1 <= Len(s)
    <3>1. Upto(s, m) \in Seq(S) BY <1>1, <1>3, <2>1
    <3>2. Upto(s, m + 1) = Upto(s, m) \o s[m + 1] /\ s[m + 1] \in Seq(S)
      BY <1>1, <2>1, UptoNext
    <3>3. Upto(s, m + 1) \in Seq(S) BY <3>1, <3>2, ConcatProperties
    <3> QED BY <3>3
  <2> QED BY <2>1
<1>4. Nat \subseteq T
  <2> HIDE DEF T
  <2> QED BY <1>2, <1>3, Induct
<1> QED BY <1>1, <1>4

\* A sequence of sequences over S flattens to a sequence over S.
LEMMA FlattenType ==
  ASSUME NEW S, NEW s \in Seq(Seq(S))
  PROVE  FlattenSeq(s) \in Seq(S) /\ Upto(s, Len(s)) = FlattenSeq(s)
<1>1. Len(s) \in 0 .. Len(s) BY LenProperties
<1>2. Upto(s, Len(s)) = FlattenSeq(s) BY SubSeqFull DEF Upto
<1> QED BY <1>1, <1>2, UptoType

\* What the first elements flatten to, all of them flatten to something longer.
LEMMA UptoGrows ==
  ASSUME NEW S, NEW s \in Seq(Seq(S)), NEW n \in 0 .. Len(s)
  PROVE  /\ Len(Upto(s, n)) <= Len(FlattenSeq(s))
         /\ \A i \in 1 .. Len(Upto(s, n)) : FlattenSeq(s)[i] = Upto(s, n)[i]
<1> DEFINE Grown(m) == /\ Len(Upto(s, n)) <= Len(Upto(s, m))
                       /\ \A i \in 1 .. Len(Upto(s, n)) : Upto(s, m)[i] = Upto(s, n)[i]
           T == {m \in Nat : n <= m /\ m <= Len(s) => Grown(m)}
<1>1. Len(Upto(s, n)) \in Nat /\ Len(s) \in Nat BY UptoType, LenProperties
<1>2. 0 \in T BY <1>1
<1>3. ASSUME NEW m \in Nat, m \in T PROVE m + 1 \in T
  <2>1. CASE m + 1 <= n BY <1>1, <2>1
  <2>2. CASE n <= m /\ m + 1 <= Len(s)
    <3>1. Upto(s, m) \in Seq(S) /\ Grown(m) BY <1>1, <1>3, <2>2, UptoType
    <3>2. Upto(s, m + 1) = Upto(s, m) \o s[m + 1] /\ s[m + 1] \in Seq(S)
      BY <1>1, <2>2, UptoNext
    <3> QED BY <1>1, <3>1, <3>2, ConcatProperties, LenProperties
  <2> QED BY <1>1, <2>1, <2>2
<1> HIDE DEF Grown
<1>4. Len(s) \in T
  <2> HIDE DEF T
  <2> QED BY <1>1, <1>2, <1>3, Induct
<1>5. Grown(Len(s)) BY <1>1, <1>4
<1> QED BY <1>5, FlattenType DEF Grown

\* So an element stands in the flattened sequence behind those before it.
LEMMA FlattenAt ==
  ASSUME NEW S, NEW s \in Seq(Seq(S)), NEW n \in Nat, n < Len(s)
  PROVE  /\ Len(Upto(s, n)) + Len(s[n + 1]) <= Len(FlattenSeq(s))
         /\ \A i \in 1 .. Len(s[n + 1]) :
              FlattenSeq(s)[Len(Upto(s, n)) + i] = s[n + 1][i]
<1>1. Upto(s, n) \in Seq(S) /\ n + 1 \in 0 .. Len(s)
  BY UptoType, LenProperties
<1>2. Upto(s, n + 1) = Upto(s, n) \o s[n + 1] /\ s[n + 1] \in Seq(S)
  BY UptoNext
<1>3. /\ Len(Upto(s, n + 1)) = Len(Upto(s, n)) + Len(s[n + 1])
      /\ Len(Upto(s, n)) \in Nat /\ Len(s[n + 1]) \in Nat
      /\ \A i \in 1 .. Len(s[n + 1]) :
           Upto(s, n + 1)[Len(Upto(s, n)) + i] = s[n + 1][i]
  BY <1>1, <1>2, ConcatProperties, LenProperties
<1> QED BY <1>1, <1>3, UptoGrows

-----------------------------------------------------------------------------
(* Concatenation by its laws: a prover that sees \o expands it to functions  *)
(* of indices                                                                *)

Cat(s, t) == s \o t

\* A concatenation is a sequence over the same set.
LEMMA CatType ==
  ASSUME NEW S
  PROVE  \A s, t \in Seq(S) : Cat(s, t) \in Seq(S)
BY ConcatProperties DEF Cat

\* Brackets do not matter.
LEMMA CatAssociative ==
  ASSUME NEW S
  PROVE  \A s, t, u \in Seq(S) : Cat(Cat(s, t), u) = Cat(s, Cat(t, u))
<1>1. \A s, t, u \in Seq(S) : (s \o t) \o u = s \o (t \o u)
  BY ConcatAssociative
<1> QED BY <1>1, Zenon DEF Cat

\* The empty sequence adds nothing.
LEMMA CatEmpty ==
  ASSUME NEW S
  PROVE  \A s \in Seq(S) : Cat(s, <<>>) = s /\ Cat(<<>>, s) = s
BY ConcatEmptySeq DEF Cat

\* What stands where in a concatenation.
LEMMA CatValues ==
  ASSUME NEW S, NEW s \in Seq(S), NEW t \in Seq(S)
  PROVE  /\ Len(Cat(s, t)) = Len(s) + Len(t)
         /\ \A i \in 1 .. Len(s) : Cat(s, t)[i] = s[i]
         /\ \A i \in 1 .. Len(t) : Cat(s, t)[Len(s) + i] = t[i]
<1>1. Len(s) \in Nat /\ Len(t) \in Nat BY LenProperties
<1> QED BY <1>1, ConcatProperties DEF Cat

-----------------------------------------------------------------------------
(* Sums over finite sets *)

\* Among sets within a finite one there is a smallest.
LEMMA Smallest ==
  ASSUME NEW S, IsFiniteSet(S), NEW T \in SUBSET SUBSET S, T # {}
  PROVE  \E m \in T : \A s \in T : ~(s \subseteq m /\ s # m)
<1>1. \A s \in T : IsFiniteSet(s) /\ Cardinality(s) \in Nat
  BY FS_Subset, FS_CardinalityType
<1> DEFINE N == {Cardinality(s) : s \in T}
<1>2. N \in SUBSET Nat /\ N # {} BY <1>1
<1>3. PICK n \in N : \A k \in N : n <= k BY <1>2, Least
<1>4. PICK m \in T : n = Cardinality(m) BY <1>3
<1>5. ASSUME NEW s \in T, s \subseteq m, s # m PROVE FALSE
  <2>1. Cardinality(s) < Cardinality(m) BY <1>1, <1>5, FS_Subset
  <2>2. Cardinality(m) <= Cardinality(s) BY <1>3, <1>4
  <2> QED BY <1>1, <2>1, <2>2
<1> QED BY <1>5

\* The values of f on S, added up.
Sum(f, S) == MapThenSumSet(LAMBDA x : f[x], S)

\* The function behind it: what the elements of each subset add up to.
Pick(s) == CHOOSE x \in s : TRUE
Added(f, S, g) ==
  [s \in SUBSET S |-> IF s = {} THEN 0 ELSE f[Pick(s)] + g[s \ {Pick(s)}]]
Adding(f, S) == CHOOSE g : g = Added(f, S, g)

\* A sum is that function's value for the whole set.
LEMMA SumIsAdding == ASSUME NEW f, NEW S PROVE Sum(f, S) = Adding(f, S)[S]
BY DEF Sum, MapThenSumSet, MapThenFoldSet, Adding, Added, Pick

\* A set without the element that is picked of it is a smaller one.
LEMMA Picked ==
  ASSUME NEW S, IsFiniteSet(S), NEW s \in SUBSET S, s # {}
  PROVE  /\ Pick(s) \in s /\ s \ {Pick(s)} \in SUBSET S
         /\ s \ {Pick(s)} \subseteq s /\ s \ {Pick(s)} # s
         /\ Cardinality(s) \in Nat /\ Cardinality(s) >= 1
         /\ Cardinality(s \ {Pick(s)}) = Cardinality(s) - 1
<1>1. Pick(s) \in s BY DEF Pick
<1>2. IsFiniteSet(s) /\ Cardinality(s) \in Nat BY FS_Subset, FS_CardinalityType
<1>3. Cardinality(s \ {Pick(s)}) = Cardinality(s) - 1
  BY <1>1, <1>2, FS_RemoveElement
<1>4. Cardinality(s) # 0 BY <1>2, FS_EmptySet
<1> QED BY <1>1, <1>2, <1>3, <1>4

\* The values of such a function.
LEMMA AddedValues ==
  ASSUME NEW f, NEW S, NEW g, g = Added(f, S, g)
  PROVE  \A s \in SUBSET S :
           g[s] = IF s = {} THEN 0 ELSE f[Pick(s)] + g[s \ {Pick(s)}]
BY Zenon DEF Added

\* It exists on every finite set ...
LEMMA AddingExists ==
  ASSUME NEW f, NEW S, IsFiniteSet(S)
  PROVE  Adding(f, S) = Added(f, S, Adding(f, S))
<1> DEFINE V(g, s) == g[s] = IF s = {} THEN 0 ELSE f[Pick(s)] + g[s \ {Pick(s)}]
           Upon(n) == \E g : \A s \in SUBSET S : Cardinality(s) <= n => V(g, s)
           T == {n \in Nat : Upon(n)}
<1>1. 0 \in T
  <2> DEFINE g == [s \in SUBSET S |-> 0]
  <2>1. ASSUME NEW s \in SUBSET S, Cardinality(s) <= 0 PROVE s = {}
    <3>1. ASSUME s # {} PROVE FALSE
      <4>1. Cardinality(s) \in Nat /\ Cardinality(s) >= 1 BY <3>1, Picked
      <4> QED BY <2>1, <4>1
    <3> QED BY <3>1
  <2>2. \A s \in SUBSET S : g[s] = 0 OBVIOUS
  <2> HIDE DEF g
  <2>3. \A s \in SUBSET S : Cardinality(s) <= 0 => V(g, s) BY <2>1, <2>2
  <2> QED BY <2>3
<1>2. ASSUME NEW n \in Nat, Upon(n) PROVE Upon(n + 1)
  <2>1. PICK g : \A s \in SUBSET S : Cardinality(s) <= n => V(g, s) BY <1>2
  <2> DEFINE h == [s \in SUBSET S |->
                     IF Cardinality(s) <= n THEN g[s]
                     ELSE f[Pick(s)] + g[s \ {Pick(s)}]]
  <2>2. \A s \in SUBSET S : h[s] = IF Cardinality(s) <= n THEN g[s]
                                   ELSE f[Pick(s)] + g[s \ {Pick(s)}]
    OBVIOUS
  <2> HIDE DEF h
  <2>3. ASSUME NEW s \in SUBSET S, Cardinality(s) <= n + 1 PROVE V(h, s)
    <3>1. CASE s = {}
      <4>1. Cardinality(s) <= n BY <3>1, FS_EmptySet
      <4> QED BY <2>1, <2>2, <3>1, <4>1
    <3>2. CASE s # {}
      <4> DEFINE r == s \ {Pick(s)}
      <4>1. /\ r \in SUBSET S /\ Cardinality(s) \in Nat
            /\ Cardinality(r) = Cardinality(s) - 1
        BY <3>2, Picked
      <4> HIDE DEF r
      <4>2. Cardinality(r) <= n BY <2>3, <4>1
      <4>3. h[r] = g[r] BY <2>2, <4>1, <4>2
      <4>4. h[s] = f[Pick(s)] + g[r]
        <5>1. CASE Cardinality(s) <= n
          <6>1. h[s] = g[s] BY <2>2, <5>1
          <6>2. g[s] = f[Pick(s)] + g[r] BY <2>1, <3>2, <5>1 DEF r
          <6> QED BY <6>1, <6>2
        <5>2. CASE ~(Cardinality(s) <= n) BY <2>2, <5>2 DEF r
        <5> QED BY <5>1, <5>2
      <4> QED BY <3>2, <4>3, <4>4 DEF r
    <3> QED BY <3>1, <3>2
  <2> HIDE DEF V
  <2> QED BY <2>3
<1>3. Nat \subseteq T
  <2> HIDE DEF Upon
  <2>1. \A n \in Nat : n \in T => n + 1 \in T BY <1>2
  <2> HIDE DEF T
  <2> QED BY <1>1, <2>1, Induct
<1>4. Cardinality(S) \in T BY <1>3, FS_CardinalityType
<1>5. PICK g : \A s \in SUBSET S : Cardinality(s) <= Cardinality(S) => V(g, s)
  BY <1>4
<1>6. \A s \in SUBSET S : V(g, s)
  <2> HIDE DEF V
  <2> QED BY <1>5, FS_Subset, FS_CardinalityType
<1> DEFINE h == [s \in SUBSET S |-> g[s]]
<1>7. \A s \in SUBSET S : h[s] = IF s = {} THEN 0 ELSE f[Pick(s)] + h[s \ {Pick(s)}]
  <2>1. \A s \in SUBSET S : s \ {Pick(s)} \in SUBSET S /\ h[s] = g[s] OBVIOUS
  <2> HIDE DEF h
  <2> QED BY <1>6, <2>1
<1>8. h = [s \in SUBSET S |-> h[s]] OBVIOUS
<1> HIDE DEF h
<1>9. h = Added(f, S, h) BY <1>7, <1>8, Zenon DEF Added
<1> QED BY <1>9, Zenon DEF Adding

\* ... and says of each part what it adds up to.
LEMMA AddingPart ==
  ASSUME NEW f, NEW S, IsFiniteSet(S), NEW T \in SUBSET S
  PROVE  Adding(f, S)[T] = Sum(f, T)
<1> DEFINE g == Adding(f, S)
           h == Adding(f, T)
           B == {s \in SUBSET T : g[s] # h[s]}
<1>1. IsFiniteSet(T) BY FS_Subset
<1>2. /\ \A s \in SUBSET S : g[s] = IF s = {} THEN 0 ELSE f[Pick(s)] + g[s \ {Pick(s)}]
      /\ \A s \in SUBSET T : h[s] = IF s = {} THEN 0 ELSE f[Pick(s)] + h[s \ {Pick(s)}]
  <2>1. g = Added(f, S, g) BY AddingExists
  <2>2. h = Added(f, T, h) BY <1>1, AddingExists
  <2> HIDE DEF g, h
  <2>3. \A s \in SUBSET S : g[s] = IF s = {} THEN 0 ELSE f[Pick(s)] + g[s \ {Pick(s)}]
    BY <2>1, AddedValues
  <2>4. \A s \in SUBSET T : h[s] = IF s = {} THEN 0 ELSE f[Pick(s)] + h[s \ {Pick(s)}]
    BY <2>2, Zenon DEF Added
  <2> QED BY <2>3, <2>4
<1> HIDE DEF g, h
<1>3. ASSUME B # {} PROVE FALSE
  <2>1. B \in SUBSET SUBSET T OBVIOUS
  <2> HIDE DEF B
  <2>2. PICK m \in B : \A s \in B : ~(s \subseteq m /\ s # m)
    BY <1>1, <1>3, <2>1, Smallest
  <2>3. m \in SUBSET T /\ m \in SUBSET S /\ g[m] # h[m] BY <2>2 DEF B
  <2>4. m # {} BY <1>2, <2>3
  <2> DEFINE r == m \ {Pick(m)}
  <2>5. r \in SUBSET T /\ r \subseteq m /\ r # m BY <1>1, <2>3, <2>4, Picked
  <2>6. g[m] = f[Pick(m)] + g[r] /\ h[m] = f[Pick(m)] + h[r] BY <1>2, <2>3, <2>4
  <2> HIDE DEF r
  <2>7. r \notin B BY <2>2, <2>5
  <2>8. g[r] = h[r] BY <2>5, <2>7 DEF B
  <2> QED BY <2>3, <2>6, <2>8
<1>4. g[T] = h[T] BY <1>3
<1> QED BY <1>4, SumIsAdding DEF g, h

\* Nothing adds up to zero.
LEMMA SumEmpty == ASSUME NEW f PROVE Sum(f, {}) = 0
<1>1. IsFiniteSet({}) BY FS_EmptySet
<1>2. Adding(f, {}) = Added(f, {}, Adding(f, {})) BY <1>1, AddingExists
<1>3. Adding(f, {})[{}] = 0 BY <1>2, AddedValues
<1> QED BY <1>3, SumIsAdding

\* A sum is the value of the element that is picked and the sum of the others.
LEMMA SumPicked ==
  ASSUME NEW f, NEW S, IsFiniteSet(S), S # {}
  PROVE  Sum(f, S) = f[Pick(S)] + Sum(f, S \ {Pick(S)})
<1>1. Adding(f, S) = Added(f, S, Adding(f, S)) BY AddingExists
<1>2. Adding(f, S)[S] = f[Pick(S)] + Adding(f, S)[S \ {Pick(S)}]
  BY <1>1, AddedValues
<1>3. Adding(f, S)[S \ {Pick(S)}] = Sum(f, S \ {Pick(S)}) BY AddingPart
<1> QED BY <1>2, <1>3, SumIsAdding

\* A sum of naturals is a natural.
LEMMA SumType ==
  ASSUME NEW f, NEW S, IsFiniteSet(S), \A x \in S : f[x] \in Nat
  PROVE  Sum(f, S) \in Nat
<1> DEFINE B == {s \in SUBSET S : Sum(f, s) \notin Nat}
<1>1. ASSUME B # {} PROVE FALSE
  <2>1. B \in SUBSET SUBSET S OBVIOUS
  <2> HIDE DEF B
  <2>2. PICK m \in B : \A s \in B : ~(s \subseteq m /\ s # m)
    BY <1>1, <2>1, Smallest
  <2>3. m \in SUBSET S /\ Sum(f, m) \notin Nat /\ IsFiniteSet(m)
    BY <2>2, FS_Subset DEF B
  <2>4. m # {} BY <2>3, SumEmpty
  <2> DEFINE r == m \ {Pick(m)}
  <2>5. r \in SUBSET S /\ r \subseteq m /\ r # m /\ Pick(m) \in S
    BY <2>3, <2>4, Picked
  <2>6. Sum(f, m) = f[Pick(m)] + Sum(f, r) BY <2>3, <2>4, SumPicked
  <2> HIDE DEF r
  <2>7. Sum(f, r) \in Nat BY <2>2, <2>5 DEF B
  <2> QED BY <2>3, <2>5, <2>6, <2>7
<1> QED BY <1>1

\* Any element can be taken out of a sum, in whatever order it was added up.
LEMMA SumRemove ==
  ASSUME NEW f, NEW S, IsFiniteSet(S), \A x \in S : f[x] \in Nat, NEW x \in S
  PROVE  Sum(f, S) = f[x] + Sum(f, S \ {x})
<1> DEFINE B == {s \in SUBSET S : \E y \in s : Sum(f, s) # f[y] + Sum(f, s \ {y})}
<1>1. \A s \in SUBSET S : IsFiniteSet(s) /\ Sum(f, s) \in Nat
  <2>1. \A s \in SUBSET S : IsFiniteSet(s) BY FS_Subset
  <2> QED BY <2>1, SumType
<1>2. ASSUME B # {} PROVE FALSE
  <2>1. B \in SUBSET SUBSET S OBVIOUS
  <2> HIDE DEF B
  <2>2. PICK m \in B : \A s \in B : ~(s \subseteq m /\ s # m)
    BY <1>2, <2>1, Smallest
  <2>3. m \in SUBSET S /\ \E y \in m : Sum(f, m) # f[y] + Sum(f, m \ {y})
    BY <2>2 DEF B
  <2>4. PICK y \in m : Sum(f, m) # f[y] + Sum(f, m \ {y}) BY <2>3
  <2>5. PICK z \in m : z = Pick(m) BY <2>4 DEF Pick
  <2>6. Sum(f, m) = f[z] + Sum(f, m \ {z}) BY <1>1, <2>3, <2>4, <2>5, SumPicked
  <2>7. y # z BY <2>4, <2>6
  <2>8. ASSUME NEW u \in m, NEW v \in m, u # v
        PROVE  Sum(f, m \ {u}) = f[v] + Sum(f, m \ {u, v})
    <3>1. m \ {u} \notin B BY <2>2
    <3>2. m \ {u} \in SUBSET S /\ v \in m \ {u} BY <2>3, <2>8
    <3>3. Sum(f, m \ {u}) = f[v] + Sum(f, (m \ {u}) \ {v}) BY <3>1, <3>2 DEF B
    <3>4. (m \ {u}) \ {v} = m \ {u, v} OBVIOUS
    <3> QED BY <3>3, <3>4
  <2>9. Sum(f, m \ {z}) = f[y] + Sum(f, m \ {y, z})
    <3>1. m \ {z, y} = m \ {y, z} OBVIOUS
    <3> QED BY <2>7, <2>8, <3>1
  <2>10. Sum(f, m \ {y}) = f[z] + Sum(f, m \ {y, z}) BY <2>7, <2>8
  <2>11. f[y] \in Nat /\ f[z] \in Nat /\ Sum(f, m \ {y, z}) \in Nat
    BY <1>1, <2>3
  <2> QED BY <2>4, <2>6, <2>9, <2>10, <2>11
<1>3. S \notin B BY <1>2
<1> QED BY <1>3

\* A sum says nothing of values outside its set.
LEMMA SumSame ==
  ASSUME NEW f, NEW g, NEW S, IsFiniteSet(S), \A x \in S : f[x] = g[x]
  PROVE  Sum(f, S) = Sum(g, S)
<1> DEFINE B == {s \in SUBSET S : Sum(f, s) # Sum(g, s)}
<1>1. ASSUME B # {} PROVE FALSE
  <2>1. B \in SUBSET SUBSET S OBVIOUS
  <2> HIDE DEF B
  <2>2. PICK m \in B : \A s \in B : ~(s \subseteq m /\ s # m)
    BY <1>1, <2>1, Smallest
  <2>3. m \in SUBSET S /\ Sum(f, m) # Sum(g, m) /\ IsFiniteSet(m)
    BY <2>2, FS_Subset DEF B
  <2>4. m # {} BY <2>3, SumEmpty
  <2> DEFINE r == m \ {Pick(m)}
  <2>5. r \in SUBSET S /\ r \subseteq m /\ r # m /\ Pick(m) \in S
    BY <2>3, <2>4, Picked
  <2>6. Sum(f, m) = f[Pick(m)] + Sum(f, r) /\ Sum(g, m) = g[Pick(m)] + Sum(g, r)
    BY <2>3, <2>4, SumPicked
  <2> HIDE DEF r
  <2>7. Sum(f, r) = Sum(g, r) BY <2>2, <2>5 DEF B
  <2>8. f[Pick(m)] = g[Pick(m)] BY <2>5
  <2> QED BY <2>3, <2>6, <2>7, <2>8
<1> QED BY <1>1

\* Zeros add up to zero.
LEMMA SumZero ==
  ASSUME NEW f, NEW S, IsFiniteSet(S), \A x \in S : f[x] = 0
  PROVE  Sum(f, S) = 0
<1> DEFINE B == {s \in SUBSET S : Sum(f, s) # 0}
<1>1. ASSUME B # {} PROVE FALSE
  <2>1. B \in SUBSET SUBSET S OBVIOUS
  <2> HIDE DEF B
  <2>2. PICK m \in B : \A s \in B : ~(s \subseteq m /\ s # m)
    BY <1>1, <2>1, Smallest
  <2>3. m \in SUBSET S /\ Sum(f, m) # 0 /\ IsFiniteSet(m)
    BY <2>2, FS_Subset DEF B
  <2>4. m # {} BY <2>3, SumEmpty
  <2> DEFINE r == m \ {Pick(m)}
  <2>5. r \in SUBSET S /\ r \subseteq m /\ r # m /\ Pick(m) \in S
    BY <2>3, <2>4, Picked
  <2>6. Sum(f, m) = f[Pick(m)] + Sum(f, r) BY <2>3, <2>4, SumPicked
  <2> HIDE DEF r
  <2>7. Sum(f, r) = 0 BY <2>2, <2>5 DEF B
  <2> QED BY <2>3, <2>5, <2>6, <2>7
<1> QED BY <1>1

\* A value that grows by one makes the sum grow by one.
LEMMA SumGrows ==
  ASSUME NEW f, NEW g, NEW S, IsFiniteSet(S), NEW x \in S,
         \A y \in S : f[y] \in Nat,
         g[x] = f[x] + 1, \A y \in S \ {x} : g[y] = f[y]
  PROVE  Sum(g, S) = Sum(f, S) + 1
<1>1. \A y \in S : g[y] \in Nat OBVIOUS
<1>2. IsFiniteSet(S \ {x}) BY FS_Subset
<1>3. Sum(g, S \ {x}) = Sum(f, S \ {x}) BY <1>2, SumSame
<1>4. Sum(f, S) = f[x] + Sum(f, S \ {x}) BY SumRemove
<1>5. Sum(g, S) = g[x] + Sum(g, S \ {x}) BY <1>1, SumRemove
<1>6. Sum(f, S \ {x}) \in Nat BY <1>2, SumType
<1> QED BY <1>3, <1>4, <1>5, <1>6

\* An element more adds its value.
LEMMA SumAdd ==
  ASSUME NEW f, NEW S, IsFiniteSet(S), NEW x, x \notin S,
         \A y \in S \cup {x} : f[y] \in Nat
  PROVE  Sum(f, S \cup {x}) = Sum(f, S) + f[x]
<1>1. IsFiniteSet(S \cup {x}) BY FS_AddElement
<1>2. (S \cup {x}) \ {x} = S OBVIOUS
<1>3. Sum(f, S \cup {x}) = f[x] + Sum(f, S) BY <1>1, <1>2, SumRemove
<1>4. Sum(f, S) \in Nat BY SumType
<1> QED BY <1>3, <1>4

-----------------------------------------------------------------------------
(* Prefixes *)

\* A prefix is shorter or as long, and has the same elements.
LEMMA PrefixAt ==
  ASSUME NEW S, NEW s \in Seq(S), NEW t \in Seq(S)
  PROVE  IsPrefix(s, t) <=> /\ Len(s) <= Len(t)
                            /\ \A i \in 1 .. Len(s) : s[i] = t[i]
<1>1. Len(s) \in Nat /\ Len(t) \in Nat BY LenProperties
<1> DEFINE a == SubSeq(s, 1, Len(s))
           b == SubSeq(t, 1, Len(s))
<1>2. ASSUME Len(s) <= Len(t)
      PROVE  a = b <=> \A i \in 1 .. Len(s) : s[i] = t[i]
  <2>1. a = [i \in 1 .. Len(s) |-> s[i]] /\ b = [i \in 1 .. Len(s) |-> t[i]]
    BY <1>1, <1>2
  <2> HIDE DEF a, b
  <2> QED BY <2>1
<1> QED BY <1>1, <1>2 DEF IsPrefix

\* Every sequence is a prefix of itself ...
LEMMA PrefixOfItself ==
  ASSUME NEW S, NEW s \in Seq(S)
  PROVE  IsPrefix(s, s)
<1>1. Len(s) \in Nat BY LenProperties
<1> QED BY <1>1, PrefixAt

\* ... and a prefix of a prefix is one.
LEMMA PrefixOfPrefix ==
  ASSUME NEW S, NEW s \in Seq(S), NEW t \in Seq(S), NEW u \in Seq(S),
         IsPrefix(s, t), IsPrefix(t, u)
  PROVE  IsPrefix(s, u)
<1>1. Len(s) \in Nat /\ Len(t) \in Nat /\ Len(u) \in Nat BY LenProperties
<1>2. Len(s) <= Len(t) /\ \A i \in 1 .. Len(s) : s[i] = t[i] BY PrefixAt
<1>3. Len(t) <= Len(u) /\ \A i \in 1 .. Len(t) : t[i] = u[i] BY PrefixAt
<1>4. Len(s) <= Len(u) /\ \A i \in 1 .. Len(s) : s[i] = u[i] BY <1>1, <1>2, <1>3
<1> QED BY <1>4, PrefixAt

\* Of two prefixes of a sequence the shorter is a prefix of the longer.
LEMMA PrefixesOfOne ==
  ASSUME NEW S, NEW s \in Seq(S), NEW t \in Seq(S), NEW u \in Seq(S),
         IsPrefix(s, u), IsPrefix(t, u), Len(s) <= Len(t)
  PROVE  IsPrefix(s, t)
<1>1. Len(s) \in Nat /\ Len(t) \in Nat /\ Len(u) \in Nat BY LenProperties
<1>2. \A i \in 1 .. Len(s) : s[i] = u[i] BY PrefixAt
<1>3. \A i \in 1 .. Len(t) : t[i] = u[i] BY PrefixAt
<1>4. \A i \in 1 .. Len(s) : s[i] = t[i] BY <1>1, <1>2, <1>3
<1> QED BY <1>4, PrefixAt

\* A prefix as long as the whole is the whole.
LEMMA PrefixAsLong ==
  ASSUME NEW S, NEW s \in Seq(S), NEW t \in Seq(S),
         IsPrefix(s, t), Len(s) >= Len(t)
  PROVE  s = t
<1>1. Len(s) \in Nat /\ Len(t) \in Nat BY LenProperties
<1>2. Len(s) <= Len(t) /\ \A i \in 1 .. Len(s) : s[i] = t[i] BY PrefixAt
<1>3. Len(s) = Len(t) BY <1>1, <1>2
<1> QED BY <1>2, <1>3, SeqEqual

\* The prefixes of a sequence are its first parts.
LEMMA PrefixIsPart ==
  ASSUME NEW S, NEW s \in Seq(S), NEW t \in Seq(S), IsPrefix(s, t)
  PROVE  s = SubSeq(t, 1, Len(s))
<1>1. Len(s) \in Nat BY LenProperties
<1>2. SubSeq(s, 1, Len(s)) = s BY <1>1
<1> QED BY <1>2 DEF IsPrefix
LEMMA PartIsPrefix ==
  ASSUME NEW S, NEW t \in Seq(S), NEW n \in 0 .. Len(t)
  PROVE  /\ SubSeq(t, 1, n) \in Seq(S)
         /\ Len(SubSeq(t, 1, n)) = n
         /\ IsPrefix(SubSeq(t, 1, n), t)
<1>1. Len(t) \in Nat BY LenProperties
<1>2. SubSeq(t, 1, n) \in Seq(S) /\ Len(SubSeq(t, 1, n)) = n
  BY <1>1
<1>3. \A i \in 1 .. n : SubSeq(t, 1, n)[i] = t[i] BY <1>1
<1>4. n <= Len(t) BY <1>1
<1> QED BY <1>2, <1>3, <1>4, PrefixAt
=============================================================================
