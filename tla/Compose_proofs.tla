-------------------------- MODULE Compose_proofs --------------------------
(* Theorems about Compose, for all stores, servers and texts, any number of  *)
(* references and objects of any depth; and about MergeJson, for all objects *)
(* and every order of their keys.                                            *)
EXTENDS Compose, MergeJson, DataLemmas

USE ObjectAssumption, ObjectsAssumption

Paths == Seq(Keys)

-----------------------------------------------------------------------------
(* Lemmas about paths and trees *)

\* Prefixes are a partial order in which what is above a path is a chain.
LEMMA Order ==
  /\ \A p \in Paths : IsPrefix(p, p)
  /\ \A p, q, r \in Paths : IsPrefix(p, q) /\ IsPrefix(q, r) => IsPrefix(p, r)
  /\ \A p, q, r \in Paths :
       IsPrefix(p, r) /\ IsPrefix(q, r) => IsPrefix(p, q) \/ IsPrefix(q, p)
  /\ \A p, q \in Paths : IsPrefix(p, q) /\ IsPrefix(q, p) => p = q
<1>1. \A p \in Paths : IsPrefix(p, p) BY PrefixOfItself DEF Paths
<1>2. \A p, q, r \in Paths : IsPrefix(p, q) /\ IsPrefix(q, r) => IsPrefix(p, r)
  BY PrefixOfPrefix DEF Paths
<1>3. ASSUME NEW p \in Paths, NEW q \in Paths, NEW r \in Paths,
             IsPrefix(p, r), IsPrefix(q, r)
      PROVE  IsPrefix(p, q) \/ IsPrefix(q, p)
  <2>1. Len(p) \in Nat /\ Len(q) \in Nat BY LenProperties DEF Paths
  <2>2. CASE Len(p) <= Len(q) BY <1>3, <2>2, PrefixesOfOne DEF Paths
  <2>3. CASE Len(q) <= Len(p) BY <1>3, <2>3, PrefixesOfOne DEF Paths
  <2> QED BY <2>1, <2>2, <2>3
<1>4. ASSUME NEW p \in Paths, NEW q \in Paths, IsPrefix(p, q), IsPrefix(q, p)
      PROVE  p = q
  <2>1. Len(q) <= Len(p) BY <1>4 DEF IsPrefix
  <2>2. Len(p) \in Nat /\ Len(q) \in Nat BY LenProperties DEF Paths
  <2> QED BY <1>4, <2>1, <2>2, PrefixAsLong DEF Paths
<1> QED BY <1>1, <1>2, <1>3, <1>4

\* The paths of a tree.
LEMMA TreePaths ==
  ASSUME NEW t, IsTree(t)
  PROVE  DOMAIN t \subseteq Paths \ {<<>>}
BY DEF IsTree, Paths

\* Whatever is above a path of a tree is an object of it.
LEMMA TreeAbove ==
  ASSUME NEW t, IsTree(t), NEW q \in DOMAIN t, NEW p \in Paths,
         p # <<>>, IsPrefix(p, q), p # q
  PROVE  p \in DOMAIN t /\ t[p] = Object
<1>1. q \in Paths BY TreePaths
<1>2. Len(p) \in Nat /\ Len(q) \in Nat /\ Len(p) # 0
  BY <1>1, LenProperties, EmptySeq DEF Paths
<1>3. Len(p) < Len(q)
  <2>1. ~(Len(p) >= Len(q)) BY <1>1, PrefixAsLong DEF Paths
  <2> QED BY <1>2, <2>1
<1>4. p = SubSeq(q, 1, Len(p)) BY <1>1, PrefixIsPart DEF Paths
<1>5. Len(p) \in 1 .. Len(q) - 1 BY <1>2, <1>3
<1>6. SubSeq(q, 1, Len(p)) \in DOMAIN t /\ t[SubSeq(q, 1, Len(p))] = Object
  BY <1>5, Zenon DEF IsTree
<1> QED BY <1>4, <1>6

\* The keys of an object lie directly below it ...
LEMMA KeysBelow ==
  ASSUME NEW t, IsTree(t), NEW p \in Paths, NEW c \in KeysAt(p, t)
  PROVE  /\ c \in DOMAIN t /\ IsPrefix(p, c) /\ c # p
         /\ \A q \in Paths : IsPrefix(q, c) => q = c \/ IsPrefix(q, p)
<1>1. c \in DOMAIN t /\ Len(c) = Len(p) + 1 /\ IsPrefix(p, c) BY DEF KeysAt
<1>2. c \in Paths BY <1>1, TreePaths
<1>3. Len(p) \in Nat /\ Len(c) \in Nat BY <1>2, LenProperties DEF Paths
<1>4. ASSUME NEW q \in Paths, IsPrefix(q, c), q # c PROVE IsPrefix(q, p)
  <2>1. Len(q) \in Nat BY LenProperties DEF Paths
  <2>2. ~(Len(q) >= Len(c)) BY <1>2, <1>4, PrefixAsLong DEF Paths
  <2>3. Len(q) <= Len(p) BY <1>1, <1>3, <2>1, <2>2
  <2> QED BY <1>1, <1>2, <1>4, <2>3, PrefixesOfOne DEF Paths
<1> QED BY <1>1, <1>3, <1>4

\* ... and every path below it passes one of them.
LEMMA KeysOnTheWay ==
  ASSUME NEW t, IsTree(t), NEW p \in Paths, NEW q \in DOMAIN t,
         IsPrefix(p, q), p # q
  PROVE  \E c \in KeysAt(p, t) : IsPrefix(c, q)
<1>1. q \in Paths BY TreePaths
<1>2. Len(p) \in Nat /\ Len(q) \in Nat BY <1>1, LenProperties DEF Paths
<1>3. Len(p) < Len(q)
  <2>1. ~(Len(p) >= Len(q)) BY <1>1, PrefixAsLong DEF Paths
  <2> QED BY <1>2, <2>1
<1> DEFINE c == SubSeq(q, 1, Len(p) + 1)
<1>4. Len(p) + 1 \in 0 .. Len(q) BY <1>2, <1>3
<1>5. c \in Paths /\ Len(c) = Len(p) + 1 /\ IsPrefix(c, q)
  BY <1>1, <1>4, PartIsPrefix DEF Paths
<1> HIDE DEF c
<1>6. IsPrefix(p, c)
  <2>1. Len(p) <= Len(c) BY <1>2, <1>5
  <2> QED BY <1>1, <1>5, <2>1, PrefixesOfOne DEF Paths
<1>7. c # <<>> BY <1>2, <1>5, EmptySeq DEF Paths
<1>8. c \in DOMAIN t BY <1>5, <1>7, TreeAbove
<1>9. c \in KeysAt(p, t) BY <1>5, <1>6, <1>8 DEF KeysAt
<1> QED BY <1>5, <1>9

-----------------------------------------------------------------------------
(* Lemmas about merged objects *)

\* Where the source has anything it wins, below its leaves nothing is left, and
\* everywhere else the target stays.
LEMMA MergedAt ==
  ASSUME NEW t, NEW s, NEW q
  PROVE  /\ q \in DOMAIN s => Agree(q, Merged(t, s), s)
         /\ q \notin DOMAIN s /\ ~CutOff(q, s) => Agree(q, Merged(t, s), t)
         /\ q \notin DOMAIN s /\ CutOff(q, s) => q \notin DOMAIN Merged(t, s)
BY DEF Merged, Agree

\* Agreement is an equivalence.
LEMMA AgreeWith ==
  ASSUME NEW q, NEW t, NEW u, NEW v
  PROVE  /\ Agree(q, t, t)
         /\ Agree(q, t, u) => Agree(q, u, t)
         /\ Agree(q, t, u) /\ Agree(q, u, v) => Agree(q, t, v)
BY DEF Agree

-----------------------------------------------------------------------------
(* The first call *)

LEMMA MergeInit == FirstCall => MergeInv
<1> SUFFICES ASSUME FirstCall PROVE MergeInv
  OBVIOUS
<1>1. IsTree(original) /\ IsTree(source) /\ target = original
  BY DEF FirstCall
<1>2. todo = KeysAt(<<>>, source) BY DEF FirstCall
<1>3. <<>> \in Paths /\ \A q \in Paths : IsPrefix(<<>>, q)
  <2>1. <<>> \in Paths BY DEF Paths
  <2>2. \A q \in Paths : IsPrefix(<<>>, q)
    <3> SUFFICES ASSUME NEW q \in Paths PROVE IsPrefix(<<>>, q)
      OBVIOUS
    <3>1. 0 \in 0 .. Len(q) BY LenProperties DEF Paths
    <3>2. SubSeq(q, 1, 0) \in Paths /\ Len(SubSeq(q, 1, 0)) = 0
          /\ IsPrefix(SubSeq(q, 1, 0), q)
      BY <3>1, PartIsPrefix DEF Paths
    <3> QED BY <3>2, EmptySeq DEF Paths
  <2> QED BY <2>1, <2>2
<1>4. MergeTypeOK
  <2>1. target \in [DOMAIN target -> Values \cup {Object}] BY <1>1 DEF IsTree
  <2>2. todo \subseteq DOMAIN source BY <1>2 DEF KeysAt
  <2> QED BY <1>1, <2>1, <2>2 DEF MergeTypeOK
<1>5. Visits
  <2> SUFFICES ASSUME NEW p \in todo
               PROVE  /\ \A q \in todo : IsPrefix(p, q) => p = q
                      /\ \A q \in DOMAIN source : ~IsStrictPrefix(q, p)
    BY DEF Visits
  <2>1. p \in Paths \ {<<>>} BY <1>1, <1>4, TreePaths DEF MergeTypeOK
  <2>2. ASSUME NEW q \in Paths \ {<<>>}, NEW c \in todo, IsPrefix(q, c) PROVE q = c
    <3>1. q = c \/ IsPrefix(q, <<>>) BY <1>1, <1>2, <1>3, <2>2, KeysBelow
    <3>2. IsPrefix(q, <<>>) => q = <<>> BY <1>3, Order
    <3> QED BY <3>1, <3>2
  <2>3. \A q \in todo : IsPrefix(p, q) => p = q BY <2>1, <2>2
  <2>4. ASSUME NEW q \in DOMAIN source, IsPrefix(q, p) PROVE q = p
    BY <1>1, <2>2, <2>4, TreePaths
  <2> QED BY <2>3, <2>4 DEF IsStrictPrefix
<1>6. ASSUME NEW q \in Paths \ {<<>>}, ~Pending(q)
      PROVE  q \notin DOMAIN source /\ ~CutOff(q, source)
  <2>1. ASSUME NEW r \in DOMAIN source, IsPrefix(r, q) PROVE FALSE
    <3>1. r \in Paths \ {<<>>} BY <1>1, TreePaths
    <3>2. PICK c \in todo : IsPrefix(c, r)
      BY <1>1, <1>2, <1>3, <3>1, KeysOnTheWay
    <3>3. c \in Paths BY <1>1, <1>4, TreePaths DEF MergeTypeOK
    <3>4. IsPrefix(c, q) BY <2>1, <3>1, <3>2, <3>3, Order
    <3> QED BY <1>6, <3>4 DEF Pending
  <2>2. q \notin DOMAIN source BY <2>1, Order
  <2> QED BY <2>1, <2>2 DEF CutOff, IsStrictPrefix
<1>7. ASSUME NEW q \in DOMAIN original \cup DOMAIN source
      PROVE  Agree(q, target, IF Pending(q) THEN original ELSE Merged(original, source))
  <2>1. q \in Paths \ {<<>>} BY <1>1, TreePaths
  <2>2. CASE Pending(q) BY <1>1, <2>2, AgreeWith
  <2>3. CASE ~Pending(q)
    <3>1. Agree(q, Merged(original, source), original)
      BY <1>6, <2>1, <2>3, MergedAt
    <3> QED BY <1>1, <2>3, <3>1, AgreeWith
  <2> QED BY <2>2, <2>3
<1> QED BY <1>4, <1>5, <1>7 DEF MergeInv

-----------------------------------------------------------------------------
(* One key more *)

\* Objects on both sides: their keys are to be visited now.
LEMMA MergeRecurses ==
  ASSUME MergeInv, NEW p \in todo, Recurse(p)
  PROVE  MergeInv'
<1>1. IsTree(original) /\ IsTree(source) BY DEF MergeInv, MergeTypeOK
<1>2. todo \subseteq DOMAIN source /\ DOMAIN source \subseteq Paths \ {<<>>}
      /\ DOMAIN original \subseteq Paths \ {<<>>}
  BY <1>1, TreePaths DEF MergeInv, MergeTypeOK
<1>3. UNCHANGED <<original, source, target>> BY DEF Recurse
<1>4. p \in DOMAIN source /\ source[p] = Object BY <1>2 DEF Recurse, BothObjects
<1>5. todo' = (todo \ {p}) \cup KeysAt(p, source) BY DEF Recurse
<1>6. \A c \in KeysAt(p, source) :
        /\ c \in DOMAIN source /\ IsPrefix(p, c) /\ c # p
        /\ \A q \in Paths : IsPrefix(q, c) => q = c \/ IsPrefix(q, p)
  BY <1>1, <1>2, KeysBelow
<1>7. p \in DOMAIN original /\ original[p] = Object
  <2>1. Pending(p) BY <1>2, Order DEF Pending
  <2>2. Agree(p, target, original) BY <1>4, <2>1 DEF MergeInv
  <2> QED BY <2>2 DEF Agree, Recurse, BothObjects
<1>8. \A a, b \in todo : IsPrefix(a, b) => a = b BY DEF MergeInv, Visits
<1>9. MergeTypeOK' BY <1>2, <1>3, <1>5, <1>6 DEF MergeInv, MergeTypeOK
<1>10. Visits'
  <2>1. ASSUME NEW a \in todo', NEW b \in todo', IsPrefix(a, b) PROVE a = b
    <3>1. a \in Paths /\ b \in Paths BY <1>2, <1>5, <1>6
    <3>2. CASE a \in todo \ {p} /\ b \in todo BY <1>8, <2>1, <3>2
    <3>3. CASE a \in todo \ {p} /\ b \in KeysAt(p, source)
      <4>1. a = b \/ IsPrefix(a, p) BY <1>6, <2>1, <3>1, <3>3
      <4>2. ~IsPrefix(a, p) BY <1>8, <3>3
      <4> QED BY <4>1, <4>2
    <3>4. CASE a \in KeysAt(p, source) /\ b \in todo \ {p}
      <4>1. IsPrefix(p, b) BY <1>2, <1>6, <2>1, <3>1, <3>4, Order
      <4> QED BY <1>8, <3>4, <4>1
    <3>5. CASE a \in KeysAt(p, source) /\ b \in KeysAt(p, source)
      <4>1. a = b \/ IsPrefix(a, p) BY <1>6, <2>1, <3>1, <3>5
      <4>2. ~IsPrefix(a, p) BY <1>2, <1>6, <3>1, <3>5, Order
      <4> QED BY <4>1, <4>2
    <3> QED BY <1>5, <3>2, <3>3, <3>4, <3>5
  <2>2. ASSUME NEW a \in todo', NEW q \in DOMAIN source, IsStrictPrefix(q, a)
        PROVE  q \in DOMAIN original /\ original[q] = Object
    <3>1. CASE a \in todo BY <2>2, <3>1 DEF MergeInv, Visits
    <3>2. CASE a \in KeysAt(p, source)
      <4>1. IsPrefix(q, p) BY <1>2, <1>6, <2>2, <3>2 DEF IsStrictPrefix
      <4>2. CASE q = p BY <1>7, <4>2
      <4>3. CASE q # p
        <5>1. IsStrictPrefix(q, p) BY <4>1, <4>3 DEF IsStrictPrefix
        <5> QED BY <5>1 DEF MergeInv, Visits
      <4> QED BY <4>2, <4>3
    <3> QED BY <1>5, <3>1, <3>2
  <2> QED BY <1>3, <2>1, <2>2 DEF Visits
<1>11. ASSUME NEW q \in DOMAIN original \cup DOMAIN source
       PROVE  Agree(q, target, IF Pending(q)' THEN original
                                             ELSE Merged(original, source))
  <2> DEFINE M == Merged(original, source)
  <2>1. q \in Paths \ {<<>>} BY <1>2
  <2>2. Agree(q, target, IF Pending(q) THEN original ELSE M) BY DEF MergeInv
  <2>3. Pending(q)' => Pending(q)
    <3>1. ASSUME NEW a \in todo', IsPrefix(a, q) PROVE Pending(q)
      <4>1. CASE a \in todo BY <3>1, <4>1 DEF Pending
      <4>2. CASE a \in KeysAt(p, source)
        <5>1. a \in Paths /\ p \in Paths /\ IsPrefix(p, a) BY <1>2, <1>6, <4>2
        <5>2. IsPrefix(p, q) BY <2>1, <3>1, <5>1, Order
        <5> QED BY <5>2 DEF Pending
      <4> QED BY <1>5, <4>1, <4>2
    <3> QED BY <3>1 DEF Pending
  <2>4. ASSUME Pending(q), ~Pending(q)' PROVE Agree(q, M, original)
    <3>1. PICK a \in todo : IsPrefix(a, q) BY <2>4 DEF Pending
    <3>2. a = p BY <1>5, <2>4, <3>1 DEF Pending
    <3>3. CASE q = p BY <1>4, <1>7, <3>3 DEF Agree, Merged
    <3>4. CASE q # p
      <4>1. ASSUME NEW r \in DOMAIN source, IsPrefix(r, q)
            PROVE  source[r] = Object /\ r # q
        <5>1. r \in Paths \ {<<>>} BY <1>2
        <5>2. ~(IsPrefix(p, r) /\ p # r)
          <6> SUFFICES ASSUME IsPrefix(p, r), p # r PROVE FALSE
            OBVIOUS
          <6>1. PICK c \in KeysAt(p, source) : IsPrefix(c, r)
            BY <1>1, <1>2, KeysOnTheWay
          <6>2. c \in Paths BY <1>2, <1>6
          <6>3. IsPrefix(c, q) BY <2>1, <4>1, <5>1, <6>1, <6>2, Order
          <6> QED BY <1>5, <2>4, <6>3 DEF Pending
        <5>3. IsPrefix(r, p)
          BY <1>2, <2>1, <3>1, <3>2, <4>1, <5>1, <5>2, Order
        <5>4. r # q BY <1>2, <2>1, <3>1, <3>2, <3>4, <5>3, Order
        <5>5. CASE r = p BY <1>4, <5>4, <5>5
        <5>6. CASE r # p
          <6>1. source[r] = Object BY <1>1, <1>2, <5>1, <5>3, <5>6, TreeAbove
          <6> QED BY <5>4, <6>1
        <5> QED BY <5>5, <5>6
      <4>2. q \notin DOMAIN source BY <2>1, <4>1, Order
      <4>3. ~CutOff(q, source) BY <4>1 DEF CutOff, IsStrictPrefix
      <4> QED BY <4>2, <4>3, MergedAt
    <3> QED BY <3>3, <3>4
  <2> HIDE DEF M
  <2>5. CASE Pending(q)' BY Zenon, <2>2, <2>3, <2>5 DEF M
  <2>6. CASE ~Pending(q)' /\ ~Pending(q) BY Zenon, <2>2, <2>6 DEF M
  <2>7. CASE ~Pending(q)' /\ Pending(q)
    <3>1. Agree(q, target, original) /\ Agree(q, original, M)
      BY <2>2, <2>4, <2>7, AgreeWith
    <3>2. Agree(q, target, M) BY <3>1, AgreeWith
    <3> QED BY Zenon, <2>7, <3>2 DEF M
  <2> QED BY Zenon, <2>5, <2>6, <2>7
<1>12. (\A q \in DOMAIN original \cup DOMAIN source :
          Agree(q, target, IF Pending(q) THEN original
                                         ELSE Merged(original, source)))'
  BY <1>3, <1>11
<1> QED BY <1>9, <1>10, <1>12 DEF MergeInv

\* Anything else is replaced, with all that is below it.
LEMMA MergeInserts ==
  ASSUME MergeInv, NEW p \in todo, Insert(p)
  PROVE  MergeInv'
<1>1. IsTree(original) /\ IsTree(source) BY DEF MergeInv, MergeTypeOK
<1>2. todo \subseteq DOMAIN source /\ DOMAIN source \subseteq Paths \ {<<>>}
      /\ DOMAIN original \subseteq Paths \ {<<>>}
  BY <1>1, TreePaths DEF MergeInv, MergeTypeOK
<1>3. UNCHANGED <<original, source>> /\ todo' = todo \ {p} BY DEF Insert
<1>4. target' = Replaced(p) BY DEF Insert
<1>5. \A a, b \in todo : IsPrefix(a, b) => a = b BY DEF MergeInv, Visits
<1>6. MergeTypeOK'
  <2>1. target \in [DOMAIN target -> Values \cup {Object}]
        /\ DOMAIN target \subseteq DOMAIN original \cup DOMAIN source
    BY DEF MergeInv, MergeTypeOK
  <2>2. source \in [DOMAIN source -> Values \cup {Object}] BY <1>1 DEF IsTree
  <2>3. DOMAIN Replaced(p) = {r \in DOMAIN target : ~IsPrefix(p, r)}
                               \cup {r \in DOMAIN source : IsPrefix(p, r)}
    BY DEF Replaced
  <2>4. Replaced(p) \in [DOMAIN Replaced(p) -> Values \cup {Object}]
    BY <2>1, <2>2 DEF Replaced
  <2> QED BY <1>1, <1>2, <1>3, <1>4, <2>1, <2>3, <2>4 DEF MergeTypeOK
<1>7. Visits' BY <1>3 DEF MergeInv, Visits
<1>8. ASSUME NEW q \in DOMAIN original \cup DOMAIN source
      PROVE  Agree(q, target', IF Pending(q)' THEN original
                                              ELSE Merged(original, source))
  <2> DEFINE M == Merged(original, source)
  <2>1. q \in Paths \ {<<>>} /\ p \in Paths BY <1>2
  <2>2. Agree(q, target, IF Pending(q) THEN original ELSE M) BY DEF MergeInv
  <2>3. CASE ~IsPrefix(p, q)
    <3>1. Agree(q, target', target) BY <1>4, <2>3 DEF Agree, Replaced
    <3>2. Pending(q)' <=> Pending(q) BY <1>3, <2>3 DEF Pending
    <3>3. Agree(q, target', IF Pending(q) THEN original ELSE M)
      BY <2>2, <3>1, AgreeWith
    <3> QED BY Zenon, <3>2, <3>3
  <2>4. CASE IsPrefix(p, q)
    <3>1. ~Pending(q)'
      <4> SUFFICES ASSUME NEW a \in todo \ {p}, IsPrefix(a, q) PROVE FALSE
        BY <1>3 DEF Pending
      <4>1. IsPrefix(a, p) \/ IsPrefix(p, a) BY <1>2, <2>1, <2>4, Order
      <4> QED BY <1>5, <4>1
    <3>2. Agree(q, target', source) BY <1>4, <2>4 DEF Agree, Replaced
    <3>3. Agree(q, source, M)
      <4>1. CASE q \in DOMAIN source BY <4>1, MergedAt, AgreeWith
      <4>2. CASE q \notin DOMAIN source
        <5>1. q \in DOMAIN original /\ p # q BY <1>2, <4>2
        <5>2. p \in DOMAIN original /\ original[p] = Object
          BY <1>1, <1>2, <2>4, <5>1, TreeAbove
        <5>3. Pending(p) BY <2>1, Order DEF Pending
        <5>4. Agree(p, target, original) BY <5>2, <5>3 DEF MergeInv
        <5>5. p \in DOMAIN target /\ target[p] = Object BY <5>2, <5>4 DEF Agree
        <5>6. source[p] # Object BY <5>5 DEF Insert, BothObjects
        <5>7. CutOff(q, source) BY <1>2, <2>4, <5>1, <5>6 DEF CutOff, IsStrictPrefix
        <5>8. q \notin DOMAIN M BY <4>2, <5>7, MergedAt
        <5> QED BY <4>2, <5>8 DEF Agree
      <4> QED BY <4>1, <4>2
    <3>4. Agree(q, target', M) BY <3>2, <3>3, AgreeWith
    <3> QED BY Zenon, <3>1, <3>4
  <2> QED BY <2>3, <2>4
<1>9. (\A q \in DOMAIN original \cup DOMAIN source :
         Agree(q, target, IF Pending(q) THEN original
                                        ELSE Merged(original, source)))'
  BY <1>3, <1>8
<1> QED BY <1>6, <1>7, <1>9 DEF MergeInv

-----------------------------------------------------------------------------
(* Theorems about merge_json *)

\* However far merge_json has come, what is at or below a key that it has yet
\* to visit is as it was before, and everything else is merged.
THEOREM MergeInvariant == MergeSpec => []MergeInv
<1>1. MergeInv /\ [NextKey]_mergeVars => MergeInv'
  <2> SUFFICES ASSUME MergeInv, [NextKey]_mergeVars PROVE MergeInv'
    OBVIOUS
  <2>1. ASSUME NEW p \in todo, Recurse(p) PROVE MergeInv' BY <2>1, MergeRecurses
  <2>2. ASSUME NEW p \in todo, Insert(p) PROVE MergeInv' BY <2>2, MergeInserts
  <2>3. CASE UNCHANGED mergeVars
    BY <2>3 DEF mergeVars, MergeInv, MergeTypeOK, Visits, Pending
  <2> QED BY <2>1, <2>2, <2>3 DEF NextKey
<1> QED BY <1>1, MergeInit, PTL DEF MergeSpec

\* The target of merge_json has no paths but those of its two sides, and only
\* keys of the source are visited.
THEOREM MergeTypes == MergeSpec => []MergeTypeOK
<1>1. MergeInv => MergeTypeOK BY DEF MergeInv
<1> QED BY <1>1, MergeInvariant, PTL

\* When merge_json returns, the target is what Merged says, whatever the two
\* objects are and in whatever order it took their keys.
THEOREM MergesObjects == MergeSpec => []MergesAll
<1>1. MergeInv => MergesAll
  <2> SUFFICES ASSUME MergeInv, todo = {} PROVE target = Merged(original, source)
    BY DEF MergesAll
  <2> DEFINE M == Merged(original, source)
  <2>1. \A q \in DOMAIN original \cup DOMAIN source : Agree(q, target, M)
    BY DEF MergeInv, Pending
  <2>2. DOMAIN target \subseteq DOMAIN original \cup DOMAIN source
    BY DEF MergeInv, MergeTypeOK
  <2>3. DOMAIN M \subseteq DOMAIN original \cup DOMAIN source BY DEF Merged
  <2>4. target = [q \in DOMAIN target |-> target[q]] BY DEF MergeInv, MergeTypeOK
  <2>5. M = [q \in DOMAIN M |-> M[q]] BY DEF Merged
  <2> HIDE DEF M
  <2>6. DOMAIN target = DOMAIN M BY <2>1, <2>2, <2>3 DEF Agree
  <2>7. \A q \in DOMAIN target : target[q] = M[q] BY <2>1, <2>2 DEF Agree
  <2> QED BY <2>4, <2>5, <2>6, <2>7 DEF M
<1> QED BY <1>1, MergeInvariant, PTL

-----------------------------------------------------------------------------
(* Composing a file *)

USE ContentsAssumption, TextsAssumption, NoneAssumption

IInv ==
  /\ TypeOK /\ Inv
  /\ MergeTakesLatest /\ MergeIsComplete /\ FallbackTakesFirst
  /\ PanicHasCause

-----------------------------------------------------------------------------
(* Lemmas about merged objects *)

\* Prefixes of paths are transitive.
LEMMA Above ==
  ASSUME NEW p \in Seq(Keys), NEW q \in Seq(Keys), NEW r \in Seq(Keys),
         IsStrictPrefix(p, q), IsStrictPrefix(q, r)
  PROVE  IsStrictPrefix(p, r)
<1>1. IsPrefix(p, q) /\ IsPrefix(q, r) /\ p # q BY DEF IsStrictPrefix
<1>2. IsPrefix(p, r) BY <1>1, PrefixOfPrefix
<1>3. p # r
  <2> SUFFICES ASSUME p = r PROVE FALSE
    OBVIOUS
  <2>1. Len(q) <= Len(p) BY <1>1 DEF IsPrefix
  <2>2. Len(p) \in Nat /\ Len(q) \in Nat BY LenProperties
  <2> QED BY <1>1, <2>1, <2>2, PrefixAsLong
<1> QED BY <1>2, <1>3 DEF IsStrictPrefix

\* Merging two objects makes an object.
LEMMA MergedIsTree ==
  ASSUME NEW t, NEW s, IsTree(t), IsTree(s)
  PROVE  IsTree(Merged(t, s))
<1> DEFINE m == Merged(t, s)
<1>1. t \in [DOMAIN t -> Values \cup {Object}] /\ DOMAIN t \subseteq Seq(Keys) \ {<<>>}
  BY DEF IsTree
<1>2. s \in [DOMAIN s -> Values \cup {Object}] /\ DOMAIN s \subseteq Seq(Keys) \ {<<>>}
  BY DEF IsTree
<1>3. DOMAIN m = DOMAIN s \cup {q \in DOMAIN t : ~CutOff(q, s)} BY DEF Merged
<1>4. \A p \in DOMAIN m : m[p] = IF p \in DOMAIN s THEN s[p] ELSE t[p] BY DEF Merged
<1>5. m \in [DOMAIN m -> Values \cup {Object}]
  <2>1. m = [p \in DOMAIN m |-> m[p]] BY DEF Merged
  <2> HIDE DEF m
  <2>2. \A p \in DOMAIN m : m[p] \in Values \cup {Object} BY <1>1, <1>2, <1>3, <1>4
  <2> QED BY <2>1, <2>2
<1> HIDE DEF m
<1>6. ASSUME NEW p \in DOMAIN m, NEW n \in 1 .. Len(p) - 1
      PROVE  SubSeq(p, 1, n) \in DOMAIN m /\ m[SubSeq(p, 1, n)] = Object
  <2> DEFINE q == SubSeq(p, 1, n)
  <2>1. p \in Seq(Keys) BY <1>1, <1>2, <1>3
  <2>2. Len(p) \in Nat /\ n \in 0 .. Len(p) /\ n < Len(p) BY <2>1, LenProperties
  <2>3. q \in Seq(Keys) /\ Len(q) = n /\ IsPrefix(q, p) BY <2>1, <2>2, PartIsPrefix
  <2>4. p \in DOMAIN s => q \in DOMAIN s /\ s[q] = Object BY DEF IsTree
  <2>5. p \in DOMAIN t => q \in DOMAIN t /\ t[q] = Object BY DEF IsTree
  <2> HIDE DEF q
  <2>6. IsStrictPrefix(q, p) BY <2>2, <2>3 DEF IsStrictPrefix
  <2>7. q \in DOMAIN m /\ m[q] = Object
    <3>1. CASE p \in DOMAIN s BY <1>3, <1>4, <2>4, <3>1
    <3>2. CASE p \notin DOMAIN s
      <4>1. p \in DOMAIN t /\ ~CutOff(p, s) BY <1>3, <3>2
      <4>2. CASE q \in DOMAIN s
        <5>1. s[q] = Object BY <2>6, <4>1, <4>2 DEF CutOff
        <5> QED BY <1>3, <1>4, <4>2, <5>1
      <4>3. CASE q \notin DOMAIN s
        <5>1. ~CutOff(q, s)
          <6> SUFFICES ASSUME NEW r \in DOMAIN s, IsStrictPrefix(r, q), s[r] # Object
                       PROVE  FALSE
            BY DEF CutOff
          <6>1. IsStrictPrefix(r, p) BY <1>2, <2>1, <2>3, <2>6, Above
          <6> QED BY <4>1, <6>1 DEF CutOff
        <5> QED BY <1>3, <1>4, <2>5, <4>1, <4>3, <5>1
      <4> QED BY <4>2, <4>3
    <3> QED BY <3>1, <3>2
  <2> QED BY <2>7 DEF q
<1>7. IsTree(m) BY <1>1, <1>2, <1>3, <1>5, <1>6 DEF IsTree
<1> QED BY <1>7 DEF m

\* The leaves of a merged object: all of the source, and those of the target that
\* the source neither sets nor cuts off.
LEMMA LeavesMerged ==
  ASSUME NEW t, NEW s
  PROVE  Leaves(Merged(t, s)) =
           Leaves(s) \cup {l \in Leaves(t) : l[1] \notin DOMAIN s /\ ~CutOff(l[1], s)}
<1> DEFINE m == Merged(t, s)
           Kept(p) == p \in DOMAIN t /\ p \notin DOMAIN s /\ ~CutOff(p, s)
<1>1. \A p : p \in DOMAIN m <=> p \in DOMAIN s \/ Kept(p) BY DEF Merged
<1>2. \A p \in DOMAIN s : m[p] = s[p] BY DEF Merged
<1>3. \A p : Kept(p) => m[p] = t[p] BY DEF Merged
<1>4. \A u, l : l \in Leaves(u) <=>
        \E p \in DOMAIN u : u[p] # Object /\ l = <<p, u[p]>> BY DEF Leaves
<1> HIDE DEF m
<1>5. ASSUME NEW l \in Leaves(m)
      PROVE  l \in Leaves(s) \/ (l \in Leaves(t) /\ l[1] \notin DOMAIN s /\ ~CutOff(l[1], s))
  <2>1. PICK p \in DOMAIN m : m[p] # Object /\ l = <<p, m[p]>> BY <1>4
  <2>2. CASE p \in DOMAIN s BY <1>2, <1>4, <2>1, <2>2
  <2>3. CASE Kept(p)
    <3>1. l[1] = p /\ l = <<p, t[p]>> /\ t[p] # Object BY <1>3, <2>1, <2>3
    <3>2. l \in Leaves(t) BY <1>4, <2>3, <3>1
    <3> QED BY <2>3, <3>1, <3>2
  <2> QED BY <1>1, <2>1, <2>2, <2>3
<1>6. ASSUME NEW l \in Leaves(s) PROVE l \in Leaves(m)
  <2>1. PICK p \in DOMAIN s : s[p] # Object /\ l = <<p, s[p]>> BY <1>4
  <2>2. p \in DOMAIN m /\ m[p] = s[p] BY <1>1, <1>2
  <2> QED BY <1>4, <2>1, <2>2
<1>7. ASSUME NEW l \in Leaves(t), l[1] \notin DOMAIN s, ~CutOff(l[1], s)
      PROVE  l \in Leaves(m)
  <2>1. PICK p \in DOMAIN t : t[p] # Object /\ l = <<p, t[p]>> BY <1>4
  <2>2. l[1] = p BY <2>1
  <2>3. p \in DOMAIN m /\ m[p] = t[p] BY <1>1, <1>3, <1>7, <2>2
  <2> QED BY <1>4, <2>1, <2>3
<1>8. Leaves(m) = Leaves(s) \cup {l \in Leaves(t) : l[1] \notin DOMAIN s /\ ~CutOff(l[1], s)}
  BY <1>5, <1>6, <1>7
<1> QED BY <1>8 DEF m

\* What is left of the answers once another one is merged into them.
LEMMA SurvivingAnother ==
  ASSUME got \in Seq(Contents \cup {Down}), NEW a \in Contents,
         got' = Append(got, a)
  PROVE  Surviving' =
           Leaves(a) \cup {l \in Surviving : l[1] \notin DOMAIN a /\ ~CutOff(l[1], a)}
<1>1. PICK m \in Nat : m = Len(got) + 1 /\ Len(got') = m BY LenProperties
<1>2. got'[m] = a /\ \A i \in 1 .. Len(got) : got'[i] = got[i]
  BY <1>1
<1>3. \A p : Survives(p, m)'
  BY <1>1 DEF Survives
<1>4. ASSUME NEW p, NEW i \in 1 .. Len(got)
      PROVE  Survives(p, i)' <=> Survives(p, i) /\ p \notin DOMAIN a /\ ~CutOff(p, a)
  <2>1. (i + 1) .. Len(got') = (i + 1) .. Len(got) \cup {m} BY <1>1
  <2>2. \A n \in (i + 1) .. Len(got) : got'[n] = got[n] BY <1>1, <1>2
  <2> QED BY <1>2, <2>1, <2>2 DEF Survives
<1>5. \A l : l \in Surviving <=>
        \E i \in 1 .. Len(got) : l \in Leaves(got[i]) /\ Survives(l[1], i)
  BY DEF Surviving
<1>6. \A l : l \in Surviving' <=>
        \E i \in 1 .. Len(got') : l \in Leaves(got'[i]) /\ Survives(l[1], i)'
  BY DEF Surviving
<1>7. 1 .. Len(got') = 1 .. Len(got) \cup {m} BY <1>1
<1>8. ASSUME NEW l \in Surviving'
      PROVE  l \in Leaves(a) \/ (l \in Surviving /\ l[1] \notin DOMAIN a /\ ~CutOff(l[1], a))
  <2>1. PICK i \in 1 .. Len(got') : l \in Leaves(got'[i]) /\ Survives(l[1], i)'
    BY <1>6
  <2>2. CASE i = m BY <1>2, <2>1, <2>2
  <2>3. CASE i \in 1 .. Len(got)
    <3>1. l \in Leaves(got[i]) BY <1>2, <2>1, <2>3
    <3>2. Survives(l[1], i) /\ l[1] \notin DOMAIN a /\ ~CutOff(l[1], a)
      BY <1>4, <2>1, <2>3
    <3> QED BY <1>5, <2>3, <3>1, <3>2
  <2> QED BY <1>7, <2>2, <2>3
<1>9. ASSUME NEW l \in Leaves(a) PROVE l \in Surviving'
  <2>1. m \in 1 .. Len(got') BY <1>1
  <2>2. l \in Leaves(got'[m]) BY <1>2
  <2>3. Survives(l[1], m)' BY <1>3
  <2> QED BY <1>6, <2>1, <2>2, <2>3
<1>10. ASSUME NEW l \in Surviving, l[1] \notin DOMAIN a, ~CutOff(l[1], a)
       PROVE  l \in Surviving'
  <2>1. PICK i \in 1 .. Len(got) : l \in Leaves(got[i]) /\ Survives(l[1], i)
    BY <1>5
  <2>2. l \in Leaves(got'[i]) /\ i \in 1 .. Len(got') BY <1>1, <1>2, <2>1
  <2>3. Survives(l[1], i)' BY <1>4, <1>10, <2>1
  <2> QED BY <1>6, <2>2, <2>3
<1> QED BY <1>8, <1>9, <1>10

-----------------------------------------------------------------------------
(* Lemmas about answers *)

\* A text is what the first parser that takes it makes of it.
LEMMA FirstParser ==
  ASSUME NEW text, DOMAIN text \subseteq Formats
  PROVE  \/ Parsed(text) = Down
         \/ \E i \in 1 .. 6 :
              /\ ParserOrder[i] \in DOMAIN text
              /\ \A j \in 1 .. 6 : j < i => ParserOrder[j] \notin DOMAIN text
              /\ Parsed(text) = text[ParserOrder[i]]
<1> DEFINE takers == {i \in DOMAIN ParserOrder : ParserOrder[i] \in DOMAIN text}
           First(i) == i \in takers /\ \A j \in takers : i <= j
<1>1. DOMAIN ParserOrder = 1 .. 6 BY DEF ParserOrder
<1>2. CASE takers = {} BY <1>2 DEF Parsed
<1>3. CASE takers # {}
  <2>1. takers \in SUBSET Nat BY <1>1
  <2> HIDE DEF takers
  <2>2. \E i \in takers : \A j \in takers : i <= j BY <1>3, <2>1, Least
  <2> DEFINE i == CHOOSE i \in takers : \A j \in takers : i <= j
  <2>3. i \in takers /\ \A j \in takers : i <= j BY <2>2
  <2>4. Parsed(text) = text[ParserOrder[i]] BY <1>3 DEF Parsed, takers
  <2> HIDE DEF i
  <2>5. i \in 1 .. 6 /\ ParserOrder[i] \in DOMAIN text BY <1>1, <2>3 DEF takers
  <2>6. \A j \in 1 .. 6 : j < i => j \notin takers BY <2>3, <2>5
  <2>7. \A j \in 1 .. 6 : j < i => ParserOrder[j] \notin DOMAIN text
    BY <1>1, <2>6 DEF takers
  <2> QED BY <2>4, <2>5, <2>7
<1> QED BY <1>2, <1>3

\* An answer is an object, nothing, or a panic of a text that no parser of a more
\* definite syntax takes.
PanickingText(text) ==
  \E f \in {"env", "yaml", "properties"} :
    /\ f \in DOMAIN text /\ text[f] = Panics
    /\ MoreDefinite(f) \cap DOMAIN text = {}
LEMMA AnswerType ==
  ASSUME TypeOK, reply # None
  PROVE  /\ Answer \in Contents \cup {Down, Panics}
         /\ Answer = Panics => PanickingText(reply.text)
<1>1. CASE ~Usable(reply) BY <1>1 DEF Answer
<1>2. CASE Usable(reply)
  <2>1. reply \in Replies \cup {VaultReply} BY <1>2 DEF TypeOK, Usable
  <2>2. /\ DOMAIN reply.text \subseteq Formats
        /\ \A f \in DOMAIN reply.text :
             \/ reply.text[f] \in Contents
             \/ reply.text[f] = Panics /\ f \in {"env", "yaml", "properties"}
    BY <2>1
  <2>3. Answer = Parsed(reply.text) BY <1>2 DEF Answer
  <2>4. CASE Answer = Down BY <2>4
  <2>5. CASE Answer # Down
    <3>1. PICK i \in 1 .. 6 :
            /\ ParserOrder[i] \in DOMAIN reply.text
            /\ \A j \in 1 .. 6 : j < i => ParserOrder[j] \notin DOMAIN reply.text
            /\ Answer = reply.text[ParserOrder[i]]
      BY <2>2, <2>3, <2>5, FirstParser
    <3>2. Answer \in Contents \cup {Panics} BY <2>2, <3>1
    <3>3. ASSUME Answer = Panics PROVE PanickingText(reply.text)
      <4>1. ParserOrder[i] \in {"env", "yaml", "properties"} BY <2>2, <3>1, <3>3
      <4>2. /\ ParserOrder[1] = "json" /\ ParserOrder[2] = "json5"
            /\ ParserOrder[3] = "env" /\ ParserOrder[4] = "toml"
            /\ ParserOrder[5] = "yaml" /\ ParserOrder[6] = "properties"
        BY DEF ParserOrder
      <4>3. MoreDefinite(ParserOrder[i]) \cap DOMAIN reply.text = {}
        <5>1. CASE i = 3 BY <3>1, <4>2, <5>1 DEF MoreDefinite
        <5>2. CASE i = 5 BY <3>1, <4>2, <5>2 DEF MoreDefinite
        <5>3. CASE i = 6 BY <3>1, <4>2, <5>3 DEF MoreDefinite, Formats
        <5> QED BY <4>1, <4>2, <5>1, <5>2, <5>3
      <4> QED BY <3>1, <3>3, <4>1, <4>3 DEF PanickingText
    <3> QED BY <3>2, <3>3
  <2> QED BY <2>4, <2>5
<1> QED BY <1>1, <1>2

-----------------------------------------------------------------------------
(* One lemma per action *)

LEMMA InitInv == Init => IInv
<1> SUFFICES ASSUME Init PROVE IInv
  OBVIOUS
<1>1. claimRef \in [from : Seq(Params), strategy : {"Merge", "Fallback"}]
  <2>1. \A n \in 0 .. MaxFrom : [1 .. n -> Params] \subseteq Seq(Params)
    BY BoundsAssumption
  <2> QED BY <2>1 DEF Init
<1>2. Len(got) = 0 /\ Len(claimRef.from) \in Nat
  BY <1>1, LenProperties DEF Init
<1>3. TypeOK BY <1>1, <1>2 DEF Init, TypeOK
<1>4. Inv BY <1>2 DEF Init, Inv, AskedOfStore, MergedSoFar, NoneSoFar
<1> QED
  BY <1>2, <1>3, <1>4 DEF Init, IInv, MergeTakesLatest, MergeIsComplete,
     FallbackTakesFirst, PanicHasCause, Written

\* An exchange with a store or a server does nothing to the file.
Untouched == UNCHANGED <<claimRef, extension, got, merged, file, status>>
LEMMA Exchanging ==
  ASSUME IInv, Asking, Untouched,
         provider' \in Providers \cup {None},
         reply' \in Replies \cup {VaultReply, NoReply, None},
         query' # None => provider' # None
  PROVE  IInv'
<1>1. TypeOK' BY DEF IInv, TypeOK, Untouched
<1>2. Surviving' = Surviving BY DEF Surviving, Survives, Untouched
<1>3. Len(got) \in Nat /\ Len(claimRef.from) \in Nat
  BY LenProperties DEF IInv, TypeOK
<1>4. AskedOfStore'
  BY <1>3 DEF AskedOfStore, Asking, AllAsked, Position, Untouched
<1>5. MergedSoFar' /\ NoneSoFar'
  BY <1>2 DEF IInv, Inv, MergedSoFar, NoneSoFar, Untouched
<1>6. MergeTakesLatest' /\ MergeIsComplete' /\ FallbackTakesFirst' /\ PanicHasCause'
  BY DEF Asking, Untouched, MergeTakesLatest, MergeIsComplete, Written,
         FallbackTakesFirst, PanicHasCause, IInv
<1> QED BY <1>1, <1>4, <1>5, <1>6 DEF IInv, Inv

LEMMA ReadStoreInv == ASSUME IInv, ReadStore PROVE IInv'
<1>1. Asking /\ Untouched /\ query' = query BY DEF ReadStore, Untouched
<1>2. provider = None /\ query = None
  BY DEF ReadStore, IInv, Inv, AskedOfStore
<1>3. provider' \in Providers \cup {None}
      /\ reply' \in Replies \cup {VaultReply, NoReply, None}
  BY <1>2 DEF ReadStore, StoreUnread
<1> QED BY <1>1, <1>2, <1>3, Exchanging

LEMMA ReceiveInv == ASSUME IInv, Receive PROVE IInv'
<1>1. Asking /\ Untouched /\ UNCHANGED <<provider, query>>
  BY DEF Receive, Untouched
<1>2. provider' \in Providers \cup {None} /\ (query' # None => provider' # None)
  BY <1>1 DEF IInv, Inv, TypeOK, AskedOfStore
<1>3. reply' \in Replies \cup {VaultReply, NoReply, None} BY DEF Receive
<1> QED BY <1>1, <1>2, <1>3, Exchanging

\* Only what has been composed so far counts once the file ends in a panic.
LEMMA PanicInv ==
  ASSUME IInv, Asking, Panic, UNCHANGED <<claimRef, extension, provider, query, reply>>,
         \/ reply = None /\ provider.headers # "valid"
         \/ reply # None /\ PanickingText(reply.text)
  PROVE  IInv'
<1>1. status' = "panicked" /\ file' = <<>> /\ UNCHANGED <<got, merged>>
  BY DEF Panic, Finish
<1>2. TypeOK' BY <1>1 DEF IInv, TypeOK
<1>3. Inv' BY <1>1 DEF IInv, Inv, AskedOfStore, AllAsked, MergedSoFar, NoneSoFar
<1>4. PanicHasCause' BY <1>1 DEF PanicHasCause, PanickingText
<1>5. MergeTakesLatest' /\ MergeIsComplete' /\ FallbackTakesFirst'
  BY <1>1 DEF IInv, Asking, MergeTakesLatest, MergeIsComplete, FallbackTakesFirst,
              Written
<1> QED BY <1>2, <1>3, <1>4, <1>5 DEF IInv

LEMMA SendInv == ASSUME IInv, Send PROVE IInv'
<1>1. Asking /\ provider # None /\ query = None /\ reply = None
      /\ UNCHANGED <<claimRef, extension, provider>>
  BY DEF Send
<1>2. CASE provider.type = "vault" /\ AskVault /\ UNCHANGED <<got, merged, file, status>>
  <2>1. Untouched /\ query' = None /\ reply' = VaultReply
    BY <1>1, <1>2 DEF Untouched, AskVault
  <2>2. provider' \in Providers \cup {None} BY <1>1 DEF IInv, TypeOK
  <2> QED BY <1>1, <2>1, <2>2, Exchanging
<1>3. CASE /\ provider.headers = "valid"
           /\ query' = MergedParams(claimRef.from[Position], provider.params)
           /\ UNCHANGED <<reply, got, merged, file, status>>
  <2>1. Untouched BY <1>1, <1>3 DEF Untouched
  <2>2. provider' \in Providers \cup {None} /\ provider' # None
    BY <1>1 DEF IInv, TypeOK
  <2>3. reply' \in Replies \cup {VaultReply, NoReply, None} BY <1>1, <1>3
  <2> QED BY <1>1, <2>1, <2>2, <2>3, Exchanging
<1>4. CASE provider.headers # "valid" /\ Panic /\ UNCHANGED <<query, reply>>
  BY <1>1, <1>4, PanicInv
<1> QED BY <1>2, <1>3, <1>4 DEF Send, AskHttp

\* One answer more.
LEMMA NextAnswer ==
  ASSUME TypeOK, Asking, NextReference, UNCHANGED claimRef, Answer \in Contents \cup {Down}
  PROVE  /\ provider' = None /\ query' = None /\ reply' = None
         /\ got' \in Seq(Contents \cup {Down}) /\ Len(got') = Len(got) + 1
         /\ Len(got) \in Nat /\ Len(got') <= Len(claimRef'.from)
         /\ got' # <<>> /\ got'[Len(got')] = Answer
         /\ \A i \in 1 .. Len(got) : got'[i] = got[i]
<1>1. got \in Seq(Contents \cup {Down}) /\ got' = Append(got, Answer)
  BY DEF TypeOK, NextReference
<1>2. Len(got) \in Nat /\ Len(claimRef.from) \in Nat
  BY LenProperties DEF TypeOK
<1>3. Len(got) + 1 <= Len(claimRef.from) BY DEF Asking, Position
<1>4. got' \in Seq(Contents \cup {Down}) /\ Len(got') = Len(got) + 1
  BY <1>1, <1>2
<1>5. got'[Len(got) + 1] = Answer /\ \A i \in 1 .. Len(got) : got'[i] = got[i]
  BY <1>1, <1>2
<1>6. got' # <<>> BY <1>2, <1>4, EmptySeq
<1> QED BY <1>2, <1>3, <1>4, <1>5, <1>6 DEF NextReference

LEMMA AskForMergeInv == ASSUME IInv, AskForMerge PROVE IInv'
<1>1. Asking /\ reply # None /\ claimRef.strategy = "Merge" /\ status = "running"
      /\ TypeOK /\ UNCHANGED <<claimRef, extension>>
  BY DEF AskForMerge, Answered, Asking, IInv
<1>2. CASE Answer = Panics /\ Panic /\ UNCHANGED exchange
  BY <1>1, <1>2, AnswerType, PanicInv DEF exchange
<1>3. CASE Answer = Down /\ FailFile /\ NextReference /\ UNCHANGED merged
  <2>1. /\ provider' = None /\ query' = None /\ reply' = None
        /\ got' \in Seq(Contents \cup {Down}) /\ Len(got') <= Len(claimRef'.from)
    BY <1>1, <1>3, NextAnswer
  <2>2. status' = "failed" /\ file' = <<>> BY <1>3 DEF FailFile, Finish
  <2>3. TypeOK' BY <1>1, <1>3, <2>1, <2>2 DEF TypeOK
  <2>4. Inv' BY <2>1, <2>2 DEF Inv, AskedOfStore, AllAsked, MergedSoFar, NoneSoFar
  <2> QED
    BY <1>1, <2>1, <2>2, <2>3, <2>4 DEF IInv, MergeTakesLatest, MergeIsComplete,
       Written, FallbackTakesFirst, PanicHasCause
<1>4. CASE /\ Answer \notin {Down, Panics}
           /\ merged' = <<IF merged = <<>> THEN Answer ELSE Merged(merged[1], Answer)>>
           /\ NextReference
           /\ UNCHANGED <<status, file>>
  <2>1. Answer \in Contents /\ Answer # Down BY <1>1, <1>4, AnswerType
  <2>2. /\ provider' = None /\ query' = None /\ reply' = None
        /\ got' \in Seq(Contents \cup {Down}) /\ Len(got') = Len(got) + 1
        /\ Len(got) \in Nat /\ Len(got') <= Len(claimRef'.from)
        /\ got' # <<>> /\ got'[Len(got')] = Answer
        /\ \A i \in 1 .. Len(got) : got'[i] = got[i]
    BY <1>1, <1>4, <2>1, NextAnswer
  <2> DEFINE m == IF merged = <<>> THEN Answer ELSE Merged(merged[1], Answer)
  <2>3. IsTree(m)
    BY <1>1, <2>1, MergedIsTree DEF TypeOK
  <2>4. merged' # <<>> /\ merged' = <<merged'[1]>> /\ merged'[1] = m BY <1>4
  <2>5. TypeOK' BY <1>1, <1>4, <2>2, <2>3, <2>4 DEF TypeOK
  <2>6. Leaves(m) = Surviving'
    <3>1. Surviving' = Leaves(Answer) \cup {l \in Surviving : l[1] \notin DOMAIN Answer
                                                             /\ ~CutOff(l[1], Answer)}
      <4>1. got \in Seq(Contents \cup {Down}) /\ got' = Append(got, Answer)
        BY <1>1, <1>4 DEF TypeOK, NextReference
      <4> QED BY <2>1, <4>1, SurvivingAnother
    <3>2. CASE merged = <<>>
      <4>1. got = <<>> BY <1>1, <3>2 DEF IInv, Inv, MergedSoFar
      <4>2. Surviving = {}
        <5>1. Len(got) = 0 BY <4>1
        <5>2. \A n \in 1 .. 0 : FALSE OBVIOUS
        <5> QED BY <5>1, <5>2 DEF Surviving
      <4> QED BY <3>1, <3>2, <4>2
    <3>3. CASE merged # <<>>
      <4>1. Leaves(merged[1]) = Surviving
        BY <1>1, <3>3 DEF IInv, Inv, MergedSoFar
      <4> QED BY <3>1, <3>3, <4>1, LeavesMerged
    <3> QED BY <3>2, <3>3
  <2> HIDE DEF m
  <2>7. MergedSoFar'
    <3>1. \A i \in 1 .. Len(got') : got'[i] # Down
      <4>1. \A i \in 1 .. Len(got) : got[i] # Down
        BY <1>1 DEF IInv, Inv, MergedSoFar
      <4>2. \A i \in 1 .. Len(got') : i = Len(got') \/ i \in 1 .. Len(got)
        BY <2>2
      <4> QED BY <2>1, <2>2, <4>1, <4>2
    <3> QED BY <2>2, <2>4, <2>6, <3>1 DEF MergedSoFar
  <2>8. Inv' BY <1>1, <2>2, <2>7 DEF Inv, AskedOfStore, NoneSoFar
  <2> QED
    BY <1>1, <1>4, <2>2, <2>5, <2>8 DEF IInv, MergeTakesLatest, MergeIsComplete,
       Written, FallbackTakesFirst, PanicHasCause
<1> QED BY <1>2, <1>3, <1>4 DEF AskForMerge

LEMMA AskForFallbackInv == ASSUME IInv, AskForFallback PROVE IInv'
<1>1. Asking /\ reply # None /\ claimRef.strategy = "Fallback" /\ status = "running"
      /\ TypeOK /\ UNCHANGED <<claimRef, extension>>
  BY DEF AskForFallback, Answered, Asking, IInv
<1>2. \A i \in 1 .. Len(got) : got[i] = Down BY <1>1 DEF IInv, Inv, NoneSoFar
<1>3. CASE Answer = Panics /\ Panic /\ UNCHANGED exchange
  BY <1>1, <1>3, AnswerType, PanicInv DEF exchange
<1>4. CASE Answer = Down /\ NextReference /\ UNCHANGED <<merged, status, file>>
  <2>1. /\ provider' = None /\ query' = None /\ reply' = None
        /\ got' \in Seq(Contents \cup {Down}) /\ Len(got') = Len(got) + 1
        /\ Len(got) \in Nat /\ Len(got') <= Len(claimRef'.from)
        /\ got'[Len(got')] = Answer
        /\ \A i \in 1 .. Len(got) : got'[i] = got[i]
    BY <1>1, <1>4, NextAnswer
  <2>2. TypeOK' BY <1>1, <1>4, <2>1 DEF TypeOK
  <2>3. \A i \in 1 .. Len(got') : got'[i] = Down BY <1>2, <1>4, <2>1
  <2>4. Inv' BY <1>1, <2>1, <2>3 DEF Inv, AskedOfStore, MergedSoFar, NoneSoFar
  <2>5. FallbackTakesFirst' BY <1>1, <1>4, <2>1, <2>3 DEF FallbackTakesFirst, Written
  <2> QED
    BY <1>1, <1>4, <2>1, <2>2, <2>4, <2>5 DEF IInv, MergeTakesLatest,
       MergeIsComplete, PanicHasCause
<1>5. CASE Answer \notin {Down, Panics} /\ NextReference /\ TakeFirst(Answer)
           /\ UNCHANGED merged
  <2>1. Answer \in Contents /\ Answer # Down BY <1>1, <1>5, AnswerType
  <2>2. /\ provider' = None /\ query' = None /\ reply' = None
        /\ got' \in Seq(Contents \cup {Down}) /\ Len(got') = Len(got) + 1
        /\ Len(got) \in Nat /\ Len(got') <= Len(claimRef'.from)
        /\ got'[Len(got')] = Answer
        /\ \A i \in 1 .. Len(got) : got'[i] = got[i]
    BY <1>1, <1>5, <2>1, NextAnswer
  <2>3. status' = "ok" /\ file' = <<Converted(Answer, "json")>>
    BY <1>5 DEF TakeFirst, Finish
  <2>4. TypeOK' BY <1>1, <1>5, <2>2, <2>3 DEF TypeOK
  <2>5. Inv' BY <2>2, <2>3 DEF Inv, AskedOfStore, AllAsked, MergedSoFar, NoneSoFar
  <2>6. Content' = Answer BY <2>3 DEF Content, Converted
  <2>7. \A i \in 1 .. Len(got') - 1 : got'[i] = Down BY <1>2, <2>2
  <2>8. FallbackTakesFirst' BY <2>1, <2>2, <2>3, <2>6, <2>7 DEF FallbackTakesFirst
  <2> QED
    BY <1>1, <2>2, <2>3, <2>4, <2>5, <2>8 DEF IInv, MergeTakesLatest,
       MergeIsComplete, PanicHasCause
<1> QED BY <1>3, <1>4, <1>5 DEF AskForFallback

\* In whatever format an object is written, the file says of its leaves what
\* Latest asks for.
LEMMA ConvertedLatest ==
  ASSUME NEW j, NEW f, file'[1] \in Conversions(j, f), Leaves(j) = Surviving'
  PROVE  Latest'
<1> DEFINE e == EntriesOf(Leaves(j), f)
           keys == {entry[1] : entry \in e}
           texts == {entry[2] : entry \in e}
<1>1. CASE f \in PairFormats
  <2>1. PICK pairs \in Flattened(j, f) : file'[1] = [syntax |-> f, content |-> pairs]
    BY <1>1 DEF Conversions
  <2>2. file'[1].syntax = f /\ Content' = pairs BY <2>1 DEF Content
  <2>3. pairs \in [keys -> texts] /\ \A k \in keys : <<k, pairs[k]>> \in e
    BY <2>1 DEF Flattened
  <2>4. EntriesOf(Surviving, file[1].syntax)' = e BY <2>2 DEF EntriesOf
  <2>5. DOMAIN pairs = keys BY <2>3
  <2> QED BY <1>1, <2>2, <2>3, <2>4, <2>5 DEF Latest
<1>2. CASE f \notin PairFormats
  <2>1. file'[1] = Converted(j, f) BY <1>2 DEF Conversions
  <2>2. Content' = j /\ file'[1].syntax = IF f = "json5" THEN "json" ELSE f
    BY <2>1 DEF Converted, Content
  <2>3. file'[1].syntax \notin PairFormats BY <1>2, <2>2 DEF PairFormats
  <2> QED BY <2>2, <2>3 DEF Latest
<1> QED BY <1>1, <1>2

\* When every reference has answered.
LEMMA EndInv ==
  ASSUME IInv, AllAsked, UNCHANGED <<claimRef, extension, exchange, got, merged>>,
         status' \in {"ok", "failed"}, status' # "ok" => file' = <<>>,
         Written' => /\ claimRef.strategy = "Merge" /\ merged # <<>>
                     /\ \E f : file'[1] \in Conversions(merged[1], f)
  PROVE  IInv'
<1>1. TypeOK /\ UNCHANGED <<provider, query, reply>> BY DEF IInv, exchange
<1>2. Len(got) \in Nat /\ Len(claimRef.from) \in Nat /\ Len(got) <= Len(claimRef.from)
  BY <1>1, LenProperties DEF TypeOK
<1>3. status = "running" /\ Len(got) = Len(claimRef.from)
  BY <1>2 DEF AllAsked, Position
<1>4. TypeOK' BY <1>1 DEF TypeOK
<1>5. Inv' BY <1>1 DEF IInv, Inv, AskedOfStore, AllAsked, MergedSoFar, NoneSoFar
<1>6. Surviving' = Surviving BY DEF Surviving, Survives
<1>7. MergeTakesLatest' /\ MergeIsComplete'
  <2> SUFFICES ASSUME Written' /\ claimRef.strategy = "Merge"
               PROVE  /\ Latest'
                      /\ Len(got') = Len(claimRef'.from)
                      /\ \A i \in 1 .. Len(got') : got'[i] # Down
    BY DEF MergeTakesLatest, MergeIsComplete
  <2>1. got # <<>> BY <1>3 DEF IInv, Inv, MergedSoFar
  <2>2. Leaves(merged[1]) = Surviving /\ \A i \in 1 .. Len(got) : got[i] # Down
    BY <1>3, <2>1 DEF IInv, Inv, MergedSoFar
  <2>3. Latest' BY <1>6, <2>2, ConvertedLatest
  <2> QED BY <1>3, <2>2, <2>3
<1>8. FallbackTakesFirst'
  <2> SUFFICES ASSUME claimRef.strategy = "Fallback"
               PROVE  /\ \A i \in 1 .. Len(got') - 1 : got'[i] = Down
                      /\ ~Written' /\ Len(got') = Len(claimRef'.from)
    BY DEF FallbackTakesFirst
  <2>1. \A i \in 1 .. Len(got) : got[i] = Down BY <1>3 DEF IInv, Inv, NoneSoFar
  <2> QED BY <1>2, <1>3, <2>1
<1>9. PanicHasCause' BY DEF PanicHasCause
<1> QED BY <1>4, <1>5, <1>7, <1>8, <1>9 DEF IInv

LEMMA EndMergeInv == ASSUME IInv, EndMerge PROVE IInv'
<1>1. AllAsked /\ claimRef.strategy = "Merge"
      /\ UNCHANGED <<claimRef, extension, exchange, got, merged>>
  BY DEF EndMerge
<1>2. status' = "ok" \/ (status' = "failed" /\ file' = <<>>)
  BY DEF EndMerge, Finish
<1>3. ASSUME Written'
      PROVE  merged # <<>> /\ \E f : file'[1] \in Conversions(merged[1], f)
  BY <1>3 DEF EndMerge, Finish, Written
<1> QED BY <1>1, <1>2, <1>3, EndInv

LEMMA EndFallbackInv == ASSUME IInv, EndFallback PROVE IInv'
<1>1. AllAsked /\ UNCHANGED <<claimRef, extension, exchange, got, merged>>
      /\ status' = "failed" /\ file' = <<>>
  BY DEF EndFallback, Finish
<1> QED BY <1>1, EndInv DEF Written

LEMMA IndInvariant == Spec => []IInv
<1>1. IInv /\ [Next]_vars => IInv'
  <2> SUFFICES ASSUME IInv, [Next]_vars PROVE IInv'
    OBVIOUS
  <2>1. CASE UNCHANGED vars
    <3>1. UNCHANGED <<claimRef, extension, provider, query, reply, got, merged, file, status>>
      BY <2>1 DEF vars, exchange
    <3>2. Surviving' = Surviving BY <3>1 DEF Surviving, Survives
    <3> QED
      BY <3>1, <3>2 DEF IInv, TypeOK, Inv, AskedOfStore, AllAsked, Position, MergedSoFar,
         NoneSoFar, MergeTakesLatest, Latest, Written, Content, MergeIsComplete,
         FallbackTakesFirst, PanicHasCause
  <2> QED
    BY <2>1, ReadStoreInv, SendInv, ReceiveInv, AskForMergeInv, EndMergeInv,
       AskForFallbackInv, EndFallbackInv DEF Next
<1> QED BY <1>1, InitInv, PTL DEF Spec

-----------------------------------------------------------------------------
(* Theorems *)

\* Composing keeps the type of every variable; what has been merged is an object
\* at every moment, whatever the objects were that were merged.
THEOREM TypeCorrect == Spec => []TypeOK
<1>1. IInv => TypeOK BY DEF IInv
<1> QED BY <1>1, IndInvariant, PTL

\* The invariant behind the others: what a merge or a fallback has so far.
THEOREM Invariant == Spec => []Inv
<1>1. IInv => Inv BY DEF IInv
<1> QED BY <1>1, IndInvariant, PTL

\* The leaves of a merged file are those of the answers that no later answer sets
\* or cuts off, for objects of any depth and any number of references.  A file of
\* pairs has their keys and no others, each with the text of one of its leaves,
\* whatever names the keys join or change.
THEOREM TakesLatest == Spec => []MergeTakesLatest
<1>1. IInv => MergeTakesLatest BY DEF IInv
<1> QED BY <1>1, IndInvariant, PTL

\* No answer is left out of a merged file.
THEOREM Complete == Spec => []MergeIsComplete
<1>1. IInv => MergeIsComplete BY DEF IInv
<1> QED BY <1>1, IndInvariant, PTL

\* Fallback takes the first reference that has a configuration, and fails only
\* after the last.
THEOREM TakesFirst == Spec => []FallbackTakesFirst
<1>1. IInv => FallbackTakesFirst BY DEF IInv
<1> QED BY <1>1, IndInvariant, PTL

\* A text that JSON, or a parser of more definite syntax, can read does not panic.
THEOREM Panicking == Spec => []PanicHasCause
<1>1. IInv => PanicHasCause BY DEF IInv
<1> QED BY <1>1, IndInvariant, PTL

\* No step uses the text of an error answer.
THEOREM NoErrorTexts == Spec => ErrorTextsKeptOut
<1>1. ASSUME IInv, Next, reply \notin {None, NoReply}, reply.code = "error"
      PROVE  merged' = merged /\ file' = <<>>
  <2> USE <1>1
  <2>1. TypeOK /\ AskedOfStore BY DEF IInv, Inv
  <2>2. Answer = Down BY DEF Answer, Usable
  <2>3. CASE AskForMerge
    BY <2>2, <2>3 DEF AskForMerge, FailFile, Finish
  <2>4. CASE AskForFallback
    <3>1. status = "running" BY <2>4 DEF AskForFallback, Answered, Asking
    <3> QED BY <2>1, <2>2, <2>4, <3>1 DEF AskForFallback, TypeOK
  <2>5. CASE ReadStore \/ Send \/ Receive
    BY <2>5 DEF ReadStore, Send, Receive
  <2>6. CASE EndMerge \/ EndFallback
    BY <2>1, <2>6 DEF EndMerge, EndFallback, AskedOfStore
  <2> QED BY <2>3, <2>4, <2>5, <2>6 DEF Next
<1>2. IInv /\ [Next]_vars =>
        [(reply \notin {None, NoReply} /\ reply.code = "error")
           => (merged' = merged /\ file' = <<>>)]_vars
  BY <1>1
<1> QED BY <1>2, IndInvariant, PTL DEF Spec, ErrorTextsKeptOut
=============================================================================
