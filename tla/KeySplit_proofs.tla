--------------------------- MODULE KeySplit_proofs ---------------------------
(* Theorems about KeySplit, for all sets of letters and keys and names of any *)
(* length.                                                                    *)
EXTENDS KeySplit, DataLemmas

-----------------------------------------------------------------------------
(* How names are written *)

Piece(c, e) == IF c = Sep THEN Repeat(e) ELSE <<c>>

\* A character is written as one character, or as two.
LEMMA PieceType ==
  ASSUME NEW c \in Chars, NEW e
  PROVE  Piece(c, e) \in Seq(Chars) /\ Len(Piece(c, e)) >= 1
<1>1. Sep \in Chars BY DEF Chars
<1>2. \A d \in Chars : <<d>> \in Seq(Chars) /\ Len(<<d>>) >= 1 OBVIOUS
<1>3. <<Sep, Sep>> \in Seq(Chars) /\ Len(<<Sep, Sep>>) >= 1 BY <1>1
<1> QED BY <1>1, <1>2, <1>3 DEF Piece, Repeat

\* The separator between names.
LEMMA DividerType == Divider \in Seq(Chars) /\ Len(Divider) = 1 /\ Divider[1] = Sep
BY DEF Divider, Chars

\* A name is written to a string, a piece for each character.
LEMMA WriteType ==
  ASSUME NEW p \in Seq(Chars), NEW e
  PROVE  /\ Written(p, e) \in Seq(Seq(Chars)) /\ Len(Written(p, e)) = Len(p)
         /\ \A i \in 1 .. Len(p) : Written(p, e)[i] = Piece(p[i], e)
         /\ Write(p, e) \in Seq(Chars)
<1>1. DOMAIN p = 1 .. Len(p) /\ Len(p) \in Nat BY LenProperties
<1>2. \A i \in 1 .. Len(p) : Piece(p[i], e) \in Seq(Chars)
  BY PieceType, ElementOfSeq
<1>3. Written(p, e) = [i \in 1 .. Len(p) |-> Piece(p[i], e)]
  BY <1>1 DEF Written, Piece
<1>4. Written(p, e) \in Seq(Seq(Chars)) /\ Len(Written(p, e)) = Len(p)
  BY <1>1, <1>2, <1>3
<1> QED BY <1>3, <1>4, FlattenType DEF Write

\* A name is written character by character.
LEMMA WriteAppend ==
  ASSUME NEW p \in Seq(Chars), NEW c \in Chars, NEW e
  PROVE  Write(Append(p, c), e) = Cat(Write(p, e), Piece(c, e))
<1> DEFINE q == Append(p, c)
<1>1. /\ q \in Seq(Chars) /\ Len(q) = Len(p) + 1 /\ q[Len(p) + 1] = c
      /\ \A i \in 1 .. Len(p) : q[i] = p[i]
  BY AppendProperties
<1> HIDE DEF q
<1>2. Len(p) \in Nat /\ Piece(c, e) \in Seq(Chars) BY LenProperties, PieceType
<1>3. Written(q, e) = Append(Written(p, e), Piece(c, e))
  <2> DEFINE w == Append(Written(p, e), Piece(c, e))
  <2>1. /\ w \in Seq(Seq(Chars)) /\ Len(w) = Len(p) + 1
        /\ w[Len(p) + 1] = Piece(c, e)
        /\ \A i \in 1 .. Len(p) : w[i] = Written(p, e)[i]
    BY <1>2, WriteType, AppendProperties
  <2> HIDE DEF w
  <2>2. \A i \in 1 .. Len(p) + 1 : Written(q, e)[i] = w[i]
    <3>1. \A i \in 1 .. Len(p) + 1 : Written(q, e)[i] = Piece(q[i], e)
      BY <1>1, WriteType
    <3>2. \A i \in 1 .. Len(p) : Written(p, e)[i] = Piece(p[i], e) BY WriteType
    <3>3. ASSUME NEW i \in 1 .. Len(p) PROVE Written(q, e)[i] = w[i]
      BY <1>1, <1>2, <2>1, <3>1, <3>2, <3>3
    <3>4. Written(q, e)[Len(p) + 1] = w[Len(p) + 1]
      BY <1>1, <1>2, <2>1, <3>1
    <3> QED BY <1>2, <3>3, <3>4
  <2>3. Written(q, e) \in Seq(Seq(Chars)) /\ Len(Written(q, e)) = Len(p) + 1
    BY <1>1, WriteType
  <2> QED BY <2>1, <2>2, <2>3, SeqEqual DEF w
<1>4. Write(q, e) = Write(p, e) \o Piece(c, e)
  BY <1>2, <1>3, WriteType, FlattenAppend DEF Write
<1> QED BY <1>4, Zenon DEF Cat, q

\* An empty name is written as nothing.
LEMMA WriteEmpty == ASSUME NEW e PROVE Write(<<>>, e) = <<>>
<1>1. Written(<<>>, e) = <<>> BY DEF Written
<1> QED BY <1>1, FlattenEmpty DEF Write

\* Names are written to strings that begin with the separator.
LEMMA BelowType ==
  ASSUME NEW ps \in Seq(Seq(Chars)), NEW e
  PROVE  /\ Below(ps, e) \in Seq(Seq(Chars)) /\ Len(Below(ps, e)) = Len(ps)
         /\ \A i \in 1 .. Len(ps) : Below(ps, e)[i] = Divider \o Write(ps[i], e)
         /\ FlattenSeq(Below(ps, e)) \in Seq(Chars)
<1>1. DOMAIN ps = 1 .. Len(ps) /\ Len(ps) \in Nat BY LenProperties
<1>2. Divider \in Seq(Chars) BY DividerType
<1>3. \A i \in 1 .. Len(ps) : Divider \o Write(ps[i], e) \in Seq(Chars)
  BY <1>2, WriteType, ElementOfSeq, ConcatProperties
<1>4. Below(ps, e) = [i \in 1 .. Len(ps) |-> Divider \o Write(ps[i], e)]
  BY <1>1 DEF Below
<1>5. Below(ps, e) \in Seq(Seq(Chars)) /\ Len(Below(ps, e)) = Len(ps)
  BY <1>1, <1>3, <1>4
<1> QED BY <1>4, <1>5, FlattenType

\* A part comes behind those before it.
LEMMA BelowAppend ==
  ASSUME NEW ps \in Seq(Seq(Chars)), NEW p \in Seq(Chars), NEW e
  PROVE  Taken(ps, p, e) = Cat(FlattenSeq(Below(ps, e)), Cat(Divider, Write(p, e)))
<1> DEFINE qs == Append(ps, p)
           b == Divider \o Write(p, e)
<1>1. /\ qs \in Seq(Seq(Chars)) /\ Len(qs) = Len(ps) + 1 /\ qs[Len(ps) + 1] = p
      /\ \A i \in 1 .. Len(ps) : qs[i] = ps[i]
  BY AppendProperties
<1> HIDE DEF qs
<1>2. Len(ps) \in Nat /\ Divider \in Seq(Chars) BY LenProperties, DividerType
<1>3. b \in Seq(Chars) BY <1>2, WriteType, ConcatProperties
<1>4. Below(qs, e) = Append(Below(ps, e), b)
  <2> DEFINE w == Append(Below(ps, e), b)
  <2> HIDE DEF b
  <2>1. /\ w \in Seq(Seq(Chars)) /\ Len(w) = Len(ps) + 1 /\ w[Len(ps) + 1] = b
        /\ \A i \in 1 .. Len(ps) : w[i] = Below(ps, e)[i]
    BY <1>3, BelowType, AppendProperties
  <2> HIDE DEF w
  <2>2. \A i \in 1 .. Len(ps) + 1 : Below(qs, e)[i] = w[i]
    <3>1. \A i \in 1 .. Len(ps) + 1 : Below(qs, e)[i] = Divider \o Write(qs[i], e)
      BY <1>1, BelowType
    <3>2. \A i \in 1 .. Len(ps) : Below(ps, e)[i] = Divider \o Write(ps[i], e)
      BY BelowType
    <3>3. ASSUME NEW i \in 1 .. Len(ps) PROVE Below(qs, e)[i] = w[i]
      <4>1. Below(qs, e)[i] = Divider \o Write(ps[i], e)
        <5>1. i \in 1 .. Len(ps) + 1 BY <1>2, <3>3
        <5>2. qs[i] = ps[i] BY <1>1, <3>3
        <5>3. Below(qs, e)[i] = Divider \o Write(qs[i], e) BY <3>1, <5>1
        <5> QED BY <5>2, <5>3
      <4> QED BY <2>1, <3>2, <3>3, <4>1
    <3>4. Below(qs, e)[Len(ps) + 1] = w[Len(ps) + 1]
      <4>1. Len(ps) + 1 \in 1 .. Len(ps) + 1 BY <1>2
      <4>2. Below(qs, e)[Len(ps) + 1] = Divider \o Write(qs[Len(ps) + 1], e)
        BY <3>1, <4>1
      <4> QED BY <1>1, <2>1, <4>2 DEF b
    <3> QED BY <1>2, <3>3, <3>4
  <2>3. Below(qs, e) \in Seq(Seq(Chars)) /\ Len(Below(qs, e)) = Len(ps) + 1
    BY <1>1, BelowType
  <2> QED BY <2>1, <2>2, <2>3, SeqEqual DEF w
<1> HIDE DEF b
<1>5. Taken(ps, p, e) = FlattenSeq(Below(ps, e)) \o b
  BY <1>3, <1>4, BelowType, FlattenAppend DEF Taken, qs
<1> QED BY <1>5, Zenon DEF b, Cat

\* What has been taken is a string.
LEMMA TakenType ==
  ASSUME NEW ps \in Seq(Seq(Chars)), NEW p \in Seq(Chars), NEW e
  PROVE  Taken(ps, p, e) \in Seq(Chars)
BY BelowType, AppendProperties DEF Taken

\* One more character of the part: its writing is added.
LEMMA TakenChar ==
  ASSUME NEW ps \in Seq(Seq(Chars)), NEW p \in Seq(Chars), NEW c \in Chars, NEW e
  PROVE  Taken(ps, Append(p, c), e) = Cat(Taken(ps, p, e), Piece(c, e))
<1>1. Append(p, c) \in Seq(Chars) BY AppendProperties
<1>2. Taken(ps, Append(p, c), e)
        = Cat(FlattenSeq(Below(ps, e)), Cat(Divider, Cat(Write(p, e), Piece(c, e))))
  <2>1. Taken(ps, Append(p, c), e)
          = Cat(FlattenSeq(Below(ps, e)), Cat(Divider, Write(Append(p, c), e)))
    BY <1>1, BelowAppend
  <2>2. Write(Append(p, c), e) = Cat(Write(p, e), Piece(c, e)) BY WriteAppend
  <2> QED BY <2>1, <2>2
<1>3. /\ FlattenSeq(Below(ps, e)) \in Seq(Chars) /\ Divider \in Seq(Chars)
      /\ Write(p, e) \in Seq(Chars) /\ Piece(c, e) \in Seq(Chars)
  BY BelowType, DividerType, WriteType, PieceType
<1> QED BY <1>2, <1>3, BelowAppend, CatType, CatAssociative

\* One more part: a separator is added.
LEMMA TakenPart ==
  ASSUME NEW ps \in Seq(Seq(Chars)), NEW p \in Seq(Chars), NEW e
  PROVE  Taken(Append(ps, p), <<>>, e) = Cat(Taken(ps, p, e), Divider)
<1>1. Append(ps, p) \in Seq(Seq(Chars)) /\ <<>> \in Seq(Chars)
  BY AppendProperties, EmptySeq
<1>2. Taken(Append(ps, p), <<>>, e)
        = Cat(FlattenSeq(Below(Append(ps, p), e)), Cat(Divider, Write(<<>>, e)))
  BY <1>1, BelowAppend
<1>3. Cat(Divider, Write(<<>>, e)) = Divider
  BY WriteEmpty, DividerType, CatEmpty
<1> QED BY <1>2, <1>3 DEF Taken

\* In the beginning only the first separator has been taken.
LEMMA TakenNothing == ASSUME NEW e PROVE Taken(<<>>, <<>>, e) = Divider
<1>1. <<>> \in Seq(Seq(Chars)) /\ <<>> \in Seq(Chars)
  BY EmptySeq
<1>2. FlattenSeq(Below(<<>>, e)) = <<>>
  <2>1. Below(<<>>, e) = <<>> BY DEF Below
  <2> QED BY <2>1, FlattenEmpty
<1>3. Taken(<<>>, <<>>, e) = Cat(<<>>, Cat(Divider, <<>>))
  <2>1. Taken(<<>>, <<>>, e)
          = Cat(FlattenSeq(Below(<<>>, e)), Cat(Divider, Write(<<>>, e)))
    BY <1>1, BelowAppend
  <2> QED BY <1>2, <2>1, WriteEmpty
<1> QED BY <1>3, DividerType, CatEmpty

-----------------------------------------------------------------------------
(* What stands where in a key that names were joined to *)

\* A name is a string that does not begin with the separator.
LEMMA NamesAreStrings ==
  ASSUME NEW e, NEW p \in Names(e)
  PROVE  /\ p \in Seq(Chars) /\ Len(p) \in Nat /\ Len(p) >= 1 /\ p[1] # Sep
         /\ e = NoEscape => \A i \in 1 .. Len(p) : p[i] # Sep
<1>1. p \in Seq(Chars) /\ p # <<>>
  BY LenAssumption DEF Names, Strings
<1>2. Len(p) \in Nat /\ Len(p) >= 1 /\ DOMAIN p = 1 .. Len(p)
  BY <1>1, EmptySeq, LenProperties
<1>3. p[1] # Sep /\ (e = NoEscape => \A i \in DOMAIN p : p[i] # Sep)
  BY DEF Names
<1> QED BY <1>1, <1>2, <1>3

\* A key with the separator before it.
LEMMA Divided ==
  ASSUME NEW k \in Seq(Chars)
  PROVE  /\ Cat(Divider, k) \in Seq(Chars) /\ Len(k) \in Nat
         /\ Len(Cat(Divider, k)) = 1 + Len(k) /\ Cat(Divider, k)[1] = Sep
         /\ \A i \in 1 .. Len(k) : Cat(Divider, k)[1 + i] = k[i]
<1>1. Cat(Divider, k) \in Seq(Chars) BY DividerType, CatType
<1>2. /\ Len(Cat(Divider, k)) = Len(Divider) + Len(k)
      /\ \A i \in 1 .. Len(Divider) : Cat(Divider, k)[i] = Divider[i]
      /\ \A i \in 1 .. Len(k) : Cat(Divider, k)[Len(Divider) + i] = k[i]
  <2>1. Divider \in Seq(Chars) BY DividerType
  <2> QED BY <2>1, CatValues
<1> QED BY <1>1, <1>2, DividerType, LenProperties

\* The line of a name: the separator, then its writing.
LEMMA LineValues ==
  ASSUME NEW ns \in Seq(Seq(Chars)), NEW e, NEW n \in Nat, n < Len(ns)
  PROVE  /\ Below(ns, e)[n + 1] \in Seq(Chars)
         /\ Len(Below(ns, e)[n + 1]) = 1 + Len(Write(ns[n + 1], e))
         /\ Below(ns, e)[n + 1][1] = Sep
         /\ \A i \in 1 .. Len(Write(ns[n + 1], e)) :
              Below(ns, e)[n + 1][1 + i] = Write(ns[n + 1], e)[i]
<1>1. n + 1 \in 1 .. Len(ns) BY LenProperties
<1>2. ns[n + 1] \in Seq(Chars) BY <1>1, ElementOfSeq
<1>3. Write(ns[n + 1], e) \in Seq(Chars) BY <1>2, WriteType
<1>4. Below(ns, e)[n + 1] = Cat(Divider, Write(ns[n + 1], e))
  BY <1>1, BelowType DEF Cat
<1> QED BY <1>3, <1>4, Divided

\* The key is the flattened lines without the first separator.
LEMMA JoinValues ==
  ASSUME NEW ns \in Seq(Seq(Chars)), ns # <<>>, NEW e
  PROVE  /\ Join(ns, e) \in Seq(Chars)
         /\ Len(Join(ns, e)) + 1 = Len(FlattenSeq(Below(ns, e)))
         /\ \A i \in 1 .. Len(Join(ns, e)) :
              Join(ns, e)[i] = FlattenSeq(Below(ns, e))[i + 1]
<1> DEFINE f == FlattenSeq(Below(ns, e))
<1>1. f \in Seq(Chars) /\ Len(f) \in Nat BY BelowType, LenProperties
<1>2. 0 < Len(ns) BY EmptySeq
<1>3. Len(Upto(Below(ns, e), 0)) + Len(Below(ns, e)[0 + 1]) <= Len(f)
  BY <1>2, BelowType, FlattenAt
<1>4. Len(Below(ns, e)[0 + 1]) >= 1
  <2>1. Len(Write(ns[0 + 1], e)) \in Nat
    BY <1>2, ElementOfSeq, WriteType, LenProperties
  <2> QED BY <1>2, <2>1, LineValues
<1>5. Len(Upto(Below(ns, e), 0)) \in Nat /\ Len(Below(ns, e)[0 + 1]) \in Nat
  <2>1. 0 \in 0 .. Len(Below(ns, e)) BY BelowType, LenProperties
  <2>2. Upto(Below(ns, e), 0) \in Seq(Chars) BY <2>1, BelowType, UptoType
  <2> QED BY <1>2, <2>2, LineValues, LenProperties
<1>6. f # <<>> BY <1>1, <1>3, <1>4, <1>5
<1> HIDE DEF f
<1>7. /\ Tail(f) \in Seq(Chars) /\ Len(Tail(f)) = Len(f) - 1
      /\ \A i \in 1 .. Len(Tail(f)) : Tail(f)[i] = f[i + 1]
  BY <1>1, <1>6, HeadTailProperties
<1> QED BY <1>1, <1>7 DEF f, Join

\* Taking the first separator off.
LEMMA JoinedParts ==
  ASSUME NEW k \in Seq(Chars)
  PROVE  Tail(Cat(Divider, k)) = k
<1> DEFINE s == Cat(Divider, k)
<1>1. s \in Seq(Chars) /\ Len(s) = 1 + Len(k) /\ Len(k) \in Nat
      /\ \A i \in 1 .. Len(k) : s[1 + i] = k[i]
  BY Divided
<1> HIDE DEF s
<1>2. s # <<>> BY <1>1
<1>3. /\ Tail(s) \in Seq(Chars) /\ Len(Tail(s)) = Len(s) - 1
      /\ \A i \in 1 .. Len(Tail(s)) : Tail(s)[i] = s[i + 1]
  BY <1>1, <1>2, HeadTailProperties
<1>4. Tail(s) = k BY <1>1, <1>3, SeqEqual
<1> QED BY <1>4 DEF s

\* The writing of the first characters of a name.
LEMMA WriteUpto ==
  ASSUME NEW p \in Seq(Chars), NEW j \in 0 .. Len(p), NEW e
  PROVE  /\ Write(SubSeq(p, 1, j), e) = Upto(Written(p, e), j)
         /\ Upto(Written(p, e), j) \in Seq(Chars)
<1> DEFINE q == SubSeq(p, 1, j)
           w == SubSeq(Written(p, e), 1, j)
<1>1. Len(p) \in Nat /\ j \in Nat /\ j <= Len(p) BY LenProperties
<1>2. /\ q \in Seq(Chars) /\ Len(q) = j
      /\ \A i \in 1 .. j : q[i] = p[i]
  BY <1>1, SubSeqProperties
<1>3. /\ Written(p, e) \in Seq(Seq(Chars)) /\ Len(Written(p, e)) = Len(p)
      /\ \A i \in 1 .. Len(p) : Written(p, e)[i] = Piece(p[i], e)
  BY WriteType
<1>4. /\ w \in Seq(Seq(Chars)) /\ Len(w) = j
      /\ \A i \in 1 .. j : w[i] = Written(p, e)[i]
  BY <1>1, <1>3, SubSeqProperties
<1> HIDE DEF q, w
<1>5. /\ Written(q, e) \in Seq(Seq(Chars)) /\ Len(Written(q, e)) = j
      /\ \A i \in 1 .. j : Written(q, e)[i] = Piece(q[i], e)
  BY <1>2, WriteType
<1>6. ASSUME NEW i \in 1 .. j PROVE Written(q, e)[i] = w[i]
  <2>1. i \in 1 .. Len(p) BY <1>1
  <2>2. q[i] = p[i] /\ w[i] = Written(p, e)[i] BY <1>2, <1>4
  <2>3. Written(p, e)[i] = Piece(p[i], e) BY <1>3, <2>1
  <2>4. Written(q, e)[i] = Piece(q[i], e) BY <1>5
  <2> QED BY <2>2, <2>3, <2>4
<1>7. Written(q, e) = w BY <1>4, <1>5, <1>6, SeqEqual
<1>8. Upto(Written(p, e), j) \in Seq(Chars) BY <1>1, <1>3, UptoType
<1> QED BY <1>7, <1>8 DEF Write, Upto, q, w

\* The writing of the first names.
LEMMA BelowUpto ==
  ASSUME NEW ns \in Seq(Seq(Chars)), NEW n \in 0 .. Len(ns), NEW e
  PROVE  /\ FlattenSeq(Below(SubSeq(ns, 1, n), e)) = Upto(Below(ns, e), n)
         /\ Upto(Below(ns, e), n) \in Seq(Chars)
<1> DEFINE q == SubSeq(ns, 1, n)
           w == SubSeq(Below(ns, e), 1, n)
<1>1. Len(ns) \in Nat /\ n \in Nat /\ n <= Len(ns) BY LenProperties
<1>2. /\ q \in Seq(Seq(Chars)) /\ Len(q) = n
      /\ \A i \in 1 .. n : q[i] = ns[i]
  BY <1>1, SubSeqProperties
<1>3. /\ Below(ns, e) \in Seq(Seq(Chars)) /\ Len(Below(ns, e)) = Len(ns)
      /\ \A i \in 1 .. Len(ns) : Below(ns, e)[i] = Cat(Divider, Write(ns[i], e))
  BY BelowType DEF Cat
<1>4. /\ w \in Seq(Seq(Chars)) /\ Len(w) = n
      /\ \A i \in 1 .. n : w[i] = Below(ns, e)[i]
  BY <1>1, <1>3, SubSeqProperties
<1> HIDE DEF q, w
<1>5. /\ Below(q, e) \in Seq(Seq(Chars)) /\ Len(Below(q, e)) = n
      /\ \A i \in 1 .. n : Below(q, e)[i] = Cat(Divider, Write(q[i], e))
  BY <1>2, BelowType DEF Cat
<1>6. ASSUME NEW i \in 1 .. n PROVE Below(q, e)[i] = w[i]
  <2>1. i \in 1 .. Len(ns) BY <1>1
  <2>2. q[i] = ns[i] /\ w[i] = Below(ns, e)[i] BY <1>2, <1>4
  <2>3. Below(ns, e)[i] = Cat(Divider, Write(ns[i], e)) BY <1>3, <2>1
  <2>4. Below(q, e)[i] = Cat(Divider, Write(q[i], e)) BY <1>5
  <2> QED BY <2>2, <2>3, <2>4
<1>7. Below(q, e) = w BY <1>4, <1>5, <1>6, SeqEqual
<1>8. Upto(Below(ns, e), n) \in Seq(Chars) BY <1>1, <1>3, UptoType
<1> QED BY <1>7, <1>8 DEF Upto, q, w

\* A name does not begin with the separator, and neither does its writing.
LEMMA WriteBegins ==
  ASSUME NEW e, NEW p \in Names(e)
  PROVE  Len(Write(p, e)) >= 1 /\ Write(p, e)[1] # Sep
<1>1. p \in Seq(Chars) /\ Len(p) >= 1 /\ Len(p) \in Nat /\ p[1] # Sep
  BY NamesAreStrings
<1> DEFINE w == Written(p, e)
<1>2. w \in Seq(Seq(Chars)) /\ Len(w) = Len(p)
      /\ \A i \in 1 .. Len(p) : w[i] = Piece(p[i], e)
  BY <1>1, WriteType
<1>3. Write(p, e) = FlattenSeq(w) BY DEF Write
<1> HIDE DEF w
<1>4. w[0 + 1] = <<p[1]>>
  <2>1. 1 \in 1 .. Len(p) /\ 0 + 1 = 1 BY <1>1
  <2>2. w[1] = Piece(p[1], e) BY <1>2, <2>1
  <2> QED BY <1>1, <2>1, <2>2 DEF Piece
<1>5. Len(Upto(w, 0)) = 0 BY UptoNothing
<1>6. 0 < Len(w) BY <1>1, <1>2
<1>7. /\ Len(Upto(w, 0)) + Len(w[0 + 1]) <= Len(FlattenSeq(w))
      /\ \A i \in 1 .. Len(w[0 + 1]) : FlattenSeq(w)[Len(Upto(w, 0)) + i] = w[0 + 1][i]
  BY <1>2, <1>6, FlattenAt
<1>8. Len(w[0 + 1]) = 1 /\ w[0 + 1][1] = p[1] BY <1>4
<1>9. 1 <= Len(FlattenSeq(w)) /\ FlattenSeq(w)[0 + 1] = p[1]
  BY <1>5, <1>7, <1>8
<1> QED BY <1>1, <1>3, <1>9

\* Behind the first n names and j characters of the next one, which are t
\* characters of f, stands the next character of that name, or a single
\* separator, or nothing.
Stands(e, ns, n, j, f, t) ==
  /\ t \in Nat /\ Len(f) \in Nat
  /\ j < Len(ns[n + 1]) =>
       LET c == Piece(ns[n + 1][j + 1], e)
       IN  t + Len(c) <= Len(f) /\ \A i \in 1 .. Len(c) : f[t + i] = c[i]
  /\ j = Len(ns[n + 1]) /\ n + 1 < Len(ns) =>
       t + 2 <= Len(f) /\ f[t + 1] = Sep /\ f[t + 2] # Sep
  /\ j = Len(ns[n + 1]) /\ n + 1 = Len(ns) => t = Len(f)

\* In a key made of names that do stand behind them.
LEMMA Behind ==
  ASSUME NEW e, NEW ns \in Seq(Names(e)), NEW n \in Nat, n < Len(ns),
         NEW j \in 0 .. Len(ns[n + 1]), NEW f, f = FlattenSeq(Below(ns, e)),
         NEW t, t = Len(Taken(SubSeq(ns, 1, n), SubSeq(ns[n + 1], 1, j), e))
  PROVE  Stands(e, ns, n, j, f, t)
<1>1. \A i \in 1 .. Len(ns) : ns[i] \in Names(e) /\ ns[i] \in Seq(Chars)
  BY ElementOfSeq, NamesAreStrings
<1>2. ns \in Seq(Seq(Chars)) /\ Len(ns) \in Nat
  <2>1. Names(e) \subseteq Seq(Chars) BY NamesAreStrings
  <2> QED BY <2>1, LenProperties
<1>3. PICK q \in Seq(Chars) : q = ns[n + 1] BY <1>1, <1>2
<1>4. Len(q) \in Nat /\ j \in Nat /\ j \in 0 .. Len(q) BY <1>3, LenProperties
<1> DEFINE B == Below(ns, e)
           W == Written(q, e)
           u == Len(Upto(B, n))
           v == Len(Upto(W, j))
<1>5. /\ B \in Seq(Seq(Chars)) /\ Len(B) = Len(ns) /\ f = FlattenSeq(B)
      /\ f \in Seq(Chars) /\ Len(f) \in Nat
  BY <1>2, BelowType, LenProperties
<1>6. /\ W \in Seq(Seq(Chars)) /\ Len(W) = Len(q) /\ Write(q, e) = FlattenSeq(W)
      /\ \A i \in 1 .. Len(q) : W[i] = Piece(q[i], e)
      /\ Write(q, e) \in Seq(Chars)
  BY WriteType DEF Write
<1>7. u \in Nat /\ v \in Nat /\ t = u + (1 + v)
  <2>1. n \in 0 .. Len(ns) BY <1>2
  <2>2. /\ FlattenSeq(Below(SubSeq(ns, 1, n), e)) = Upto(B, n)
        /\ Upto(B, n) \in Seq(Chars)
    BY <1>2, <2>1, BelowUpto
  <2>3. /\ Write(SubSeq(q, 1, j), e) = Upto(W, j)
        /\ Upto(W, j) \in Seq(Chars)
    BY <1>4, WriteUpto
  <2>4. SubSeq(ns, 1, n) \in Seq(Seq(Chars)) BY <1>2, SubSeqProperties
  <2>5. SubSeq(q, 1, j) \in Seq(Chars) BY <1>4, SubSeqProperties
  <2>6. Taken(SubSeq(ns, 1, n), SubSeq(q, 1, j), e)
          = Cat(FlattenSeq(Below(SubSeq(ns, 1, n), e)),
                Cat(Divider, Write(SubSeq(q, 1, j), e)))
    BY <2>4, <2>5, BelowAppend
  <2>7. t = Len(Cat(Upto(B, n), Cat(Divider, Upto(W, j))))
    BY <1>3, <2>2, <2>3, <2>6
  <2>8. /\ Cat(Divider, Upto(W, j)) \in Seq(Chars)
        /\ Len(Cat(Divider, Upto(W, j))) = 1 + v
    BY <2>3, Divided
  <2>9. u \in Nat /\ v \in Nat BY <2>2, <2>3, LenProperties
  <2>10. Len(Cat(Upto(B, n), Cat(Divider, Upto(W, j))))
           = Len(Upto(B, n)) + Len(Cat(Divider, Upto(W, j)))
    BY ONLY <2>2, <2>8, CatValues
  <2> QED BY <2>7, <2>8, <2>9, <2>10
<1>8. /\ u + Len(B[n + 1]) <= Len(f)
      /\ \A i \in 1 .. Len(B[n + 1]) : f[u + i] = B[n + 1][i]
  BY <1>5, FlattenAt
<1>9. /\ B[n + 1] \in Seq(Chars)
      /\ Len(B[n + 1]) = 1 + Len(Write(q, e))
      /\ \A i \in 1 .. Len(Write(q, e)) : B[n + 1][1 + i] = Write(q, e)[i]
  BY <1>2, <1>3, LineValues
<1>10. Len(Write(q, e)) \in Nat BY <1>6, LenProperties
<1> HIDE DEF B, W, u, v
<1>11. ASSUME j < Len(q)
       PROVE  /\ t + Len(Piece(q[j + 1], e)) <= Len(f)
              /\ \A i \in 1 .. Len(Piece(q[j + 1], e)) :
                   f[t + i] = Piece(q[j + 1], e)[i]
  <2>1. j + 1 \in 1 .. Len(q) BY <1>4, <1>11
  <2>2. W[j + 1] = Piece(q[j + 1], e) BY <1>6, <2>1
  <2>3. q[j + 1] \in Chars BY <2>1, ElementOfSeq
  <2>4. PICK c \in Seq(Chars) : c = Piece(q[j + 1], e) BY <2>3, PieceType
  <2>5. /\ v + Len(c) <= Len(Write(q, e))
        /\ \A i \in 1 .. Len(c) : Write(q, e)[v + i] = c[i]
    <3>1. j < Len(W) /\ j \in Nat /\ W \in Seq(Seq(Chars)) BY <1>4, <1>6, <1>11
    <3>2. /\ Len(Upto(W, j)) + Len(W[j + 1]) <= Len(FlattenSeq(W))
          /\ \A i \in 1 .. Len(W[j + 1]) :
               FlattenSeq(W)[Len(Upto(W, j)) + i] = W[j + 1][i]
      BY <3>1, FlattenAt
    <3>3. W[j + 1] = c /\ FlattenSeq(W) = Write(q, e) BY <1>6, <2>2, <2>4
    <3> QED BY <3>2, <3>3 DEF v
  <2>6. Len(c) \in Nat BY LenProperties
  <2>7. t + Len(c) <= Len(f) BY <1>5, <1>7, <1>8, <1>9, <1>10, <2>5, <2>6
  <2>8. ASSUME NEW i \in 1 .. Len(c) PROVE f[t + i] = c[i]
    <3>1. v + i \in 1 .. Len(Write(q, e)) BY <1>7, <1>10, <2>5, <2>6
    <3>2. 1 + (v + i) \in 1 .. Len(B[n + 1]) BY <1>9, <1>10, <3>1
    <3>3. f[u + (1 + (v + i))] = B[n + 1][1 + (v + i)] BY <1>8, <3>2
    <3>4. B[n + 1][1 + (v + i)] = Write(q, e)[v + i] BY <1>9, <3>1
    <3>5. Write(q, e)[v + i] = c[i] BY <2>5
    <3>6. i \in Nat BY <2>6
    <3>7. u + (1 + (v + i)) = t + i
      <4>1. \A x, y \in Nat : x + (1 + (y + i)) = (x + (1 + y)) + i BY <3>6
      <4> QED BY <1>7, <4>1, Zenon
    <3> QED BY <3>3, <3>4, <3>5, <3>7
  <2> QED BY <2>4, <2>7, <2>8
<1>12. ASSUME j = Len(q) PROVE t = Len(Upto(B, n + 1))
  <2>1. Upto(W, j) = Write(q, e) BY <1>6, <1>12, FlattenType
  <2>2. Upto(B, n + 1) = Cat(Upto(B, n), B[n + 1]) BY <1>5, UptoNext DEF Cat
  <2>3. n \in 0 .. Len(B) BY <1>2, <1>5
  <2>4. Upto(B, n) \in Seq(Chars) BY <1>5, <2>3, UptoType
  <2>5. B[n + 1] \in Seq(Chars) BY <1>9
  <2>6. Len(Cat(Upto(B, n), B[n + 1])) = Len(Upto(B, n)) + Len(B[n + 1])
    BY <2>4, <2>5, CatValues
  <2> QED BY <1>7, <1>9, <2>1, <2>2, <2>6 DEF u, v
<1>13. ASSUME j = Len(q), n + 1 < Len(ns)
       PROVE  t + 2 <= Len(f) /\ f[t + 1] = Sep /\ f[t + 2] # Sep
  <2>1. n + 1 \in Nat /\ (n + 1) + 1 \in 1 .. Len(ns) BY <1>2, <1>13
  <2>2. PICK r \in Names(e) : r = ns[(n + 1) + 1] BY <1>1, <2>1
  <2>3. PICK b : b = B[(n + 1) + 1] OBVIOUS
  <2>4. /\ t + Len(b) <= Len(f)
        /\ \A i \in 1 .. Len(b) : f[t + i] = b[i]
    <3>1. n + 1 < Len(B) /\ n + 1 \in Nat /\ B \in Seq(Seq(Chars))
      BY <1>5, <1>13, <2>1
    <3>2. /\ Len(Upto(B, n + 1)) + Len(B[(n + 1) + 1]) <= Len(FlattenSeq(B))
          /\ \A i \in 1 .. Len(B[(n + 1) + 1]) :
               FlattenSeq(B)[Len(Upto(B, n + 1)) + i] = B[(n + 1) + 1][i]
      BY <3>1, FlattenAt
    <3>3. t = Len(Upto(B, n + 1)) BY <1>12, <1>13
    <3> QED BY <1>5, <2>3, <3>2, <3>3
  <2>5. /\ Len(b) = 1 + Len(Write(r, e)) /\ b[1] = Sep
        /\ \A i \in 1 .. Len(Write(r, e)) : b[1 + i] = Write(r, e)[i]
    BY <1>2, <1>13, <2>1, <2>2, <2>3, LineValues DEF B
  <2>6. Len(Write(r, e)) >= 1 /\ Write(r, e)[1] # Sep BY WriteBegins
  <2>7. Len(Write(r, e)) \in Nat
    BY NamesAreStrings, WriteType, LenProperties
  <2>8. 1 \in 1 .. Len(b) /\ 2 \in 1 .. Len(b) /\ 1 \in 1 .. Len(Write(r, e))
    BY <2>5, <2>6, <2>7
  <2>9. b[1 + 1] # Sep BY <2>5, <2>6, <2>8
  <2>10. t \in Nat /\ 1 + 1 = 2 BY <1>7
  <2>11. f[t + 1] = b[1] /\ f[t + 2] = b[2] BY <2>4, <2>8
  <2>12. t + 2 <= Len(f) BY <1>5, <2>4, <2>5, <2>6, <2>7, <2>10
  <2>13. b[2] # Sep BY <2>9, <2>10
  <2> QED BY <2>5, <2>11, <2>12, <2>13
<1>14. ASSUME j = Len(q), n + 1 = Len(ns) PROVE t = Len(f)
  BY <1>5, <1>12, <1>14, FlattenType
<1>15. t \in Nat BY <1>7
<1> QED BY <1>3, <1>5, <1>11, <1>13, <1>14, <1>15 DEF Stands

-----------------------------------------------------------------------------
(* Types *)

\* The initial state has the types of TypeOK: joined names are a key.
LEMMA TypeInit == Init => TypeOK
<1> SUFFICES ASSUME Init PROVE TypeOK
  OBVIOUS
<1>1. key \in Seq(Chars) /\ names \in Seq(Names(escape))
  <2>1. CASE names = <<>> /\ key \in Strings(MaxLen)
    <3>1. key \in Seq(Chars) BY <2>1, LenAssumption DEF Strings
    <3> QED BY <2>1, <3>1, EmptySeq
  <2>2. CASE /\ names \in UNION {[1 .. n -> Names(escape)] : n \in 1 .. MaxName}
             /\ key = Join(names, escape)
    <3>1. PICK n \in 1 .. MaxName : names \in [1 .. n -> Names(escape)] BY <2>2
    <3>2. names \in Seq(Names(escape)) /\ names # <<>> BY <3>1, LenAssumption
    <3>3. Names(escape) \subseteq Seq(Chars) BY NamesAreStrings
    <3>4. names \in Seq(Seq(Chars)) BY <3>2, <3>3
    <3> QED BY <2>2, <3>2, <3>4, JoinValues
  <2> QED BY <2>1, <2>2 DEF Init
<1>2. Len(key) \in Nat BY <1>1, LenProperties
<1>3. <<>> \in Seq(Chars) /\ <<>> \in Seq(Seq(Chars)) /\ Len(<<>>) = 0
  BY EmptySeq
<1>4. at = 0 /\ part = <<>> /\ parts = <<>> /\ escaped = FALSE
      /\ escape \in {Sep, NoEscape}
  BY DEF Init
<1>5. 0 \in 0 .. Len(key) + 1 BY <1>2
<1>6. part \in Seq(Chars) /\ Len(part) = 0 /\ parts \in Seq(Seq(Chars)) /\ Len(parts) = 0
  BY <1>3, <1>4, Zenon
<1>7. at \in 0 .. Len(key) + 1 /\ Len(part) <= at /\ Len(parts) <= at
  BY <1>2, <1>4, <1>6
<1>8. escape \in {Sep, NoEscape} /\ escaped \in BOOLEAN /\ ~escaped
  BY <1>4
<1> QED BY <1>1, <1>6, <1>7, <1>8, Zenon DEF TypeOK

\* What the loop reads is a character.
LEMMA CharType ==
  ASSUME TypeOK
  PROVE  /\ Len(key) \in Nat /\ Len(part) \in Nat /\ Len(parts) \in Nat /\ at \in Nat
         /\ Reading => Char \in Chars
BY LenProperties, ElementOfSeq DEF TypeOK, Reading, Char

\* Every step keeps the types.
LEMMA TypeStep == TypeOK /\ [Next]_vars => TypeOK'
<1> SUFFICES ASSUME TypeOK, [Next]_vars PROVE TypeOK'
  OBVIOUS
<1>1. /\ Len(key) \in Nat /\ Len(part) \in Nat /\ Len(parts) \in Nat /\ at \in Nat
      /\ Reading => Char \in Chars
  BY CharType
<1>2. ASSUME Reading
      PROVE  Append(part, Char) \in Seq(Chars) /\ Len(Append(part, Char)) = Len(part) + 1
  BY <1>1, <1>2, AppendProperties DEF TypeOK
<1>3. /\ Append(parts, part) \in Seq(Seq(Chars))
      /\ Len(Append(parts, part)) = Len(parts) + 1
  BY AppendProperties DEF TypeOK
<1>4. <<>> \in Seq(Chars) /\ Len(<<>>) = 0 BY EmptySeq
<1>5. /\ escape \in {Sep, NoEscape} /\ names \in Seq(Names(escape))
      /\ key \in Seq(Chars) /\ part \in Seq(Chars) /\ parts \in Seq(Seq(Chars))
      /\ at <= Len(key) + 1 /\ Len(part) <= at /\ Len(parts) <= at
      /\ escaped \in BOOLEAN /\ (escaped => at < Len(key))
  BY <1>1 DEF TypeOK
<1>6. ASSUME Advance, at <= Len(key),
             part' \in Seq(Chars), Len(part') <= at + 1,
             escaped' \in BOOLEAN, escaped' => at + 1 < Len(key),
             parts' \in Seq(Seq(Chars)), Len(parts') <= at + 1
      PROVE  TypeOK'
  <2>1. at' = at + 1 /\ names' = names /\ key' = key /\ escape' = escape
    BY <1>6 DEF Advance
  <2>2. at' \in 0 .. Len(key') + 1 /\ Len(part') <= at' /\ Len(parts') <= at'
        /\ (escaped' => at' < Len(key'))
    BY <1>1, <1>6, <2>1
  <2> QED BY <1>5, <1>6, <2>1, <2>2, Zenon DEF TypeOK
<1>7. CASE TakeLiterally
  <2>1. /\ Reading /\ Advance /\ part' = Append(part, Char) /\ parts' = parts
        /\ ~escaped' /\ escaped' \in BOOLEAN
    BY <1>7 DEF TakeLiterally
  <2>2. /\ part' \in Seq(Chars) /\ Len(part') = Len(part) + 1
        /\ parts' \in Seq(Seq(Chars)) /\ Len(parts') = Len(parts)
    BY <1>2, <1>5, <2>1, Zenon
  <2>3. at <= Len(key) /\ Len(part') <= at + 1 /\ Len(parts') <= at + 1
    BY <1>1, <1>5, <2>1, <2>2 DEF Reading
  <2> QED BY <1>6, <2>1, <2>2, <2>3, Zenon
<1>8. CASE StartEscape
  <2>1. /\ Reading /\ Advance /\ part' = part /\ parts' = parts
        /\ escaped' \in BOOLEAN /\ at + 1 < Len(key)
    BY <1>8 DEF StartEscape, IsEscape, SepFollows
  <2>2. /\ part' \in Seq(Chars) /\ Len(part') = Len(part)
        /\ parts' \in Seq(Seq(Chars)) /\ Len(parts') = Len(parts)
    BY <1>5, <2>1, Zenon
  <2>3. at <= Len(key) /\ Len(part') <= at + 1 /\ Len(parts') <= at + 1
    BY <1>1, <1>5, <2>1, <2>2
  <2> QED BY <1>6, <2>1, <2>2, <2>3, Zenon
<1>9. CASE StartPart
  <2>1. /\ Reading /\ Advance /\ part' = <<>> /\ parts' = Append(parts, part)
        /\ ~escaped' /\ escaped' \in BOOLEAN
    BY <1>5, <1>9 DEF StartPart, ClearPart
  <2>2. /\ part' \in Seq(Chars) /\ Len(part') = 0
        /\ parts' \in Seq(Seq(Chars)) /\ Len(parts') = Len(parts) + 1
    BY <1>3, <1>4, <2>1, Zenon
  <2>3. at <= Len(key) /\ Len(part') <= at + 1 /\ Len(parts') <= at + 1
    BY <1>1, <1>5, <2>1, <2>2 DEF Reading
  <2> QED BY <1>6, <2>1, <2>2, <2>3, Zenon
<1>10. CASE TakeChar
  <2>1. /\ Reading /\ Advance /\ part' = Append(part, Char) /\ parts' = parts
        /\ ~escaped' /\ escaped' \in BOOLEAN
    BY <1>5, <1>10 DEF TakeChar
  <2>2. /\ part' \in Seq(Chars) /\ Len(part') = Len(part) + 1
        /\ parts' \in Seq(Seq(Chars)) /\ Len(parts') = Len(parts)
    BY <1>2, <1>5, <2>1, Zenon
  <2>3. at <= Len(key) /\ Len(part') <= at + 1 /\ Len(parts') <= at + 1
    BY <1>1, <1>5, <2>1, <2>2 DEF Reading
  <2> QED BY <1>6, <2>1, <2>2, <2>3, Zenon
<1>11. CASE LastPart
  <2>1. /\ at = Len(key) /\ Advance /\ part' = part /\ parts' = Append(parts, part)
        /\ escaped' = escaped
    BY <1>11 DEF LastPart
  <2>2. /\ part' \in Seq(Chars) /\ Len(part') = Len(part)
        /\ parts' \in Seq(Seq(Chars)) /\ Len(parts') = Len(parts) + 1
    BY <1>3, <1>5, <2>1, Zenon
  <2>3. /\ at <= Len(key) /\ Len(part') <= at + 1 /\ Len(parts') <= at + 1
        /\ escaped' \in BOOLEAN /\ ~escaped'
    BY <1>1, <1>5, <2>1, <2>2
  <2> QED BY <1>6, <2>1, <2>2, <2>3, Zenon
<1>12. CASE UNCHANGED vars
  <2>1. UNCHANGED <<names, key, escape, at, part, escaped, parts>> BY <1>12 DEF vars
  <2> QED BY <2>1 DEF TypeOK
<1> QED BY <1>7, <1>8, <1>9, <1>10, <1>11, <1>12 DEF Next

\* Every reachable state of the splitting is of the declared types, whatever
\* the letters and the bounds are.
THEOREM TypeCorrect == Spec => []TypeOK
<1> QED BY TypeInit, TypeStep, PTL DEF Spec

-----------------------------------------------------------------------------
(* What has been read is what has been taken *)

\* In the beginning nothing is read and nothing taken.
LEMMA ReadInit == Init => ReadIsTaken
<1> SUFFICES ASSUME Init PROVE ReadIsTaken
  OBVIOUS
<1>1. at = 0 /\ part = <<>> /\ parts = <<>> /\ ~escaped BY DEF Init
<1>2. Len(key) \in Nat BY TypeInit, LenProperties DEF TypeOK
<1>3. SubSeq(key, 1, 0) = <<>> BY SubSeqEmpty
<1>4. Cat(Divider, <<>>) = Divider BY DividerType, CatEmpty
<1>5. Cat(Divider, SubSeq(key, 1, at)) = Cat(Taken(parts, part, escape), <<>>)
  BY <1>1, <1>3, <1>4, TakenNothing
<1>6. Divider \o SubSeq(key, 1, at) = Taken(parts, part, escape) \o <<>>
  BY <1>5, Zenon DEF Cat
<1> QED BY <1>1, <1>2, <1>6 DEF ReadIsTaken, Done

\* One character more has been read.
LEMMA ReadNext ==
  ASSUME TypeOK, Reading
  PROVE  /\ Cat(Divider, SubSeq(key, 1, at)) \in Seq(Chars)
         /\ Cat(Divider, SubSeq(key, 1, at + 1))
              = Cat(Cat(Divider, SubSeq(key, 1, at)), <<Char>>)
<1>1. /\ Len(key) \in Nat /\ at \in Nat /\ Char \in Chars /\ at < Len(key)
      /\ key \in Seq(Chars)
  BY CharType DEF TypeOK, Reading
<1>2. SubSeq(key, 1, at + 1) = SubSeq(key, 1, at) \o <<key[at + 1]>>
  BY <1>1, OneLonger
<1>3. SubSeq(key, 1, at + 1) = Cat(SubSeq(key, 1, at), <<Char>>)
  BY <1>2, Zenon DEF Cat, Char
<1>4. SubSeq(key, 1, at) \in Seq(Chars) BY <1>1, SubSeqProperties
<1>5. <<Char>> \in Seq(Chars) BY <1>1
<1>6. Divider \in Seq(Chars) BY DividerType
<1>7. Cat(Divider, SubSeq(key, 1, at)) \in Seq(Chars) BY <1>4, <1>6, CatType
<1>8. Cat(Cat(Divider, SubSeq(key, 1, at)), <<Char>>)
        = Cat(Divider, Cat(SubSeq(key, 1, at), <<Char>>))
  <2> DEFINE r == SubSeq(key, 1, at)
             x == <<Char>>
  <2>1. r \in Seq(Chars) BY <1>4
  <2>2. x \in Seq(Chars) BY <1>5
  <2> HIDE DEF r, x
  <2>3. Cat(Cat(Divider, r), x) = Cat(Divider, Cat(r, x))
    BY <1>6, <2>1, <2>2, CatAssociative
  <2> QED BY <2>3 DEF r, x
<1> QED BY <1>3, <1>7, <1>8, Zenon

\* The same as ReadIsTaken, with the concatenation by its laws.
LEMMA ReadByLaws ==
  /\ ReadIsTaken <=>
       /\ ~Done => Cat(Divider, SubSeq(key, 1, at))
                     = Cat(Taken(parts, part, escape), IF escaped THEN Divider ELSE <<>>)
       /\ Done => Cat(Divider, key) = FlattenSeq(Below(parts, escape))
       /\ escaped => escape = Sep /\ Reading /\ Char = Sep
  /\ ReadIsTaken' <=>
       /\ ~Done' => Cat(Divider, SubSeq(key', 1, at'))
                      = Cat(Taken(parts', part', escape'),
                            IF escaped' THEN Divider ELSE <<>>)
       /\ Done' => Cat(Divider, key') = FlattenSeq(Below(parts', escape'))
       /\ escaped' => escape' = Sep /\ Reading' /\ Char' = Sep
BY Zenon DEF ReadIsTaken, Cat

\* Every step takes what it reads.
LEMMA ReadStep == TypeOK /\ ReadIsTaken /\ [Next]_vars => ReadIsTaken'
<1> SUFFICES ASSUME TypeOK, ReadIsTaken, [Next]_vars PROVE ReadIsTaken'
  OBVIOUS
<1> DEFINE R == Cat(Divider, SubSeq(key, 1, at))
           T == Taken(parts, part, escape)
<1>1. /\ Len(key) \in Nat /\ at \in Nat /\ at <= Len(key) + 1
      /\ Reading => Char \in Chars
      /\ part \in Seq(Chars) /\ parts \in Seq(Seq(Chars)) /\ key \in Seq(Chars)
      /\ escape \in {Sep, NoEscape} /\ escaped \in BOOLEAN
  BY CharType DEF TypeOK
<1>2. T \in Seq(Chars) /\ Cat(T, <<>>) = T BY <1>1, TakenType, CatEmpty
<1>3. Divider \in Seq(Chars) /\ Divider = <<Sep>> BY DividerType DEF Divider
<1>4. /\ ~Done /\ escaped => R = Cat(T, Divider)
      /\ ~Done /\ ~escaped => R = T
      /\ escaped => escape = Sep /\ Reading /\ Char = Sep
  BY <1>2, ReadByLaws
<1> HIDE DEF R, T
<1>5. ASSUME Reading, Advance
      PROVE  /\ ~Done /\ ~Done' /\ escape' = escape /\ key' = key
             /\ Cat(Divider, SubSeq(key', 1, at')) = Cat(R, <<Char>>)
  BY <1>1, <1>5, ReadNext DEF Reading, Advance, Done, R
<1>6. CASE TakeLiterally
  <2>1. /\ Reading /\ Advance /\ escaped /\ ~escaped'
        /\ parts' = parts /\ part' = Append(part, Char)
    BY <1>6 DEF TakeLiterally
  <2>2. Char = Sep /\ escape = Sep BY <1>4, <2>1
  <2>3. Cat(R, <<Char>>) = Cat(T, Cat(Divider, Divider))
    <3>1. R = Cat(T, Divider) /\ <<Char>> = Divider BY <1>3, <1>4, <1>5, <2>1, <2>2
    <3>2. T \in Seq(Chars) BY <1>2
    <3>3. Divider \in Seq(Chars) BY <1>3
    <3>4. Cat(Cat(T, Divider), Divider) = Cat(T, Cat(Divider, Divider))
      BY <3>2, <3>3, CatAssociative
    <3>5. Cat(R, <<Char>>) = Cat(Cat(T, Divider), Divider) BY <3>1, Zenon
    <3> QED BY <3>4, <3>5, Zenon
  <2>4. Piece(Char, escape) = Cat(Divider, Divider)
    <3>1. Piece(Char, escape) = <<Sep, Sep>>
      BY <2>2, SepAssumption DEF Piece, Repeat
    <3>2. <<Sep, Sep>> = <<Sep>> \o <<Sep>> OBVIOUS
    <3> QED BY <3>1, <3>2, Zenon DEF Cat, Divider
  <2>5. Taken(parts, Append(part, Char), escape) = Cat(T, Piece(Char, escape))
    BY <1>1, <2>1, TakenChar DEF T
  <2>6. Cat(Taken(parts', part', escape'), <<>>) = Cat(T, Cat(Divider, Divider))
    <3>1. Cat(Divider, Divider) \in Seq(Chars) BY <1>3, CatType
    <3>2. Cat(T, Cat(Divider, Divider)) \in Seq(Chars) BY <1>2, <3>1, CatType
    <3> QED BY <1>5, <2>1, <2>4, <2>5, <3>2, CatEmpty
  <2> QED BY <1>5, <2>1, <2>3, <2>6, ReadByLaws
<1>7. CASE StartEscape
  <2>1. /\ Reading /\ Advance /\ ~escaped /\ escaped' /\ IsEscape
        /\ parts' = parts /\ part' = part
    BY <1>7 DEF StartEscape
  <2>2. escape = Sep /\ Char = Sep
    BY <1>1, <2>1, SepAssumption DEF IsEscape, Chars
  <2>3. R = T BY <1>4, <1>5, <2>1
  <2>4. Cat(R, <<Char>>) = Cat(T, Divider) BY <1>3, <2>2, <2>3
  <2>5. Reading' /\ Char' = Sep
    <3>1. at + 1 < Len(key) /\ key[at + 2] = Sep /\ (at + 1) + 1 = at + 2
      BY <1>1, <2>1 DEF IsEscape, SepFollows
    <3> QED BY <2>1, <3>1 DEF Advance, Reading, Char
  <2>6. Taken(parts', part', escape') = T BY <1>5, <2>1 DEF T
  <2> QED BY <1>5, <2>1, <2>2, <2>4, <2>5, <2>6, ReadByLaws
<1>8. CASE StartPart
  <2>1. /\ Reading /\ Advance /\ ~escaped /\ ~escaped' /\ Char = Sep
        /\ parts' = Append(parts, part) /\ part' = <<>>
    BY <1>8 DEF StartPart, ClearPart
  <2>2. Cat(R, <<Char>>) = Cat(T, Divider) BY <1>3, <1>4, <1>5, <2>1
  <2>3. Taken(parts', part', escape') = Cat(T, Divider)
    BY <1>1, <1>5, <2>1, TakenPart DEF T
  <2>4. Cat(Cat(T, Divider), <<>>) = Cat(T, Divider)
    BY <1>2, <1>3, CatType, CatEmpty
  <2> QED BY <1>5, <2>1, <2>2, <2>3, <2>4, ReadByLaws
<1>9. CASE TakeChar
  <2>1. /\ Reading /\ Advance /\ ~escaped /\ ~escaped' /\ Char # Sep
        /\ parts' = parts /\ part' = Append(part, Char)
    BY <1>9 DEF TakeChar
  <2>2. Cat(R, <<Char>>) = Cat(T, <<Char>>) BY <1>4, <1>5, <2>1
  <2>3. Taken(parts', part', escape') = Cat(T, <<Char>>)
    <3>1. Taken(parts, Append(part, Char), escape) = Cat(T, Piece(Char, escape))
      BY <1>1, <2>1, TakenChar DEF T
    <3> QED BY <1>5, <2>1, <3>1 DEF Piece
  <2>4. Cat(Cat(T, <<Char>>), <<>>) = Cat(T, <<Char>>)
    <3>1. <<Char>> \in Seq(Chars) BY <1>1, <2>1
    <3> QED BY <1>2, <3>1, CatType, CatEmpty
  <2> QED BY <1>5, <2>1, <2>2, <2>3, <2>4, ReadByLaws
<1>10. CASE LastPart
  <2>1. /\ at = Len(key) /\ Advance /\ parts' = Append(parts, part)
        /\ escaped' = escaped
    BY <1>10 DEF LastPart
  <2>2. ~Done /\ Done' /\ ~escaped
    BY <1>1, <1>4, <2>1 DEF Done, Advance, Reading
  <2>3. SubSeq(key, 1, Len(key)) = key BY <1>1, SubSeqFull
  <2>4. Cat(Divider, key) = T BY <1>4, <2>1, <2>2, <2>3 DEF R
  <2>5. T = FlattenSeq(Below(parts', escape)) BY <2>1 DEF T, Taken
  <2>6. key' = key /\ escape' = escape BY <2>1 DEF Advance
  <2> QED BY <2>1, <2>2, <2>4, <2>5, <2>6, ReadByLaws
<1>11. CASE UNCHANGED vars
  BY <1>11 DEF vars, ReadIsTaken, Done, Reading, Char
<1> QED BY <1>6, <1>7, <1>8, <1>9, <1>10, <1>11 DEF Next

\* The parts of every key, joined again, are the key: splitting loses nothing.
THEOREM PartsBack == Spec => []PartsMakeKey
<1>1. TypeOK /\ ReadIsTaken => PartsMakeKey
  <2> SUFFICES ASSUME TypeOK, ReadIsTaken, Done PROVE Join(parts, escape) = key
    BY DEF PartsMakeKey
  <2>1. key \in Seq(Chars) BY DEF TypeOK
  <2>2. FlattenSeq(Below(parts, escape)) = Cat(Divider, key) BY ReadByLaws
  <2> QED BY <2>1, <2>2, JoinedParts DEF Join
<1> QED BY <1>1, TypeInit, TypeStep, ReadInit, ReadStep, PTL DEF Spec

-----------------------------------------------------------------------------
(* The names that were written are read back *)

\* In the beginning no name has been taken.
LEMMA NamesInit == Init => NamesTaken
<1> SUFFICES ASSUME Init, names # <<>> PROVE NamesTaken
  BY DEF NamesTaken
<1>1. key = Join(names, escape) BY DEF Init
<1>2. parts = <<>> /\ part = <<>> /\ ~escaped /\ at = 0 BY DEF Init
<1>3. names \in Seq(Names(escape)) /\ Len(key) \in Nat
  BY TypeInit, LenProperties DEF TypeOK
<1>4. 1 \in DOMAIN names BY <1>3, EmptySeq, LenProperties
<1>5. names[1] \in Names(escape) BY <1>3, <1>4, ElementOfSeq, LenProperties
<1>6. Len(names[1]) \in Nat BY <1>5, NamesAreStrings
<1>7. /\ SubSeq(names, 1, 0) = <<>> /\ SubSeq(names[1], 1, 0) = <<>>
      /\ Len(<<>>) = 0
  BY SubSeqEmpty, EmptySeq
<1>8. parts = SubSeq(names, 1, Len(parts)) /\ part = SubSeq(names[1], 1, Len(part))
  BY <1>2, <1>7, Zenon
<1>9. 1 = Len(parts) + 1 /\ Len(part) <= Len(names[1]) BY <1>2, <1>6, <1>7
<1>10. ~Done BY <1>2, <1>3 DEF Done
<1> QED BY <1>1, <1>2, <1>4, <1>8, <1>9, <1>10 DEF NamesTaken

\* What the state says before the whole key has been read.
LEMMA Half ==
  ASSUME TypeOK, NamesTaken, names # <<>>, ~Done
  PROVE  /\ Len(parts) \in Nat /\ Len(parts) < Len(names) /\ Len(names) \in Nat
         /\ names \in Seq(Names(escape)) /\ key = Join(names, escape)
         /\ parts = SubSeq(names, 1, Len(parts))
         /\ names[Len(parts) + 1] \in Names(escape)
         /\ Len(part) \in 0 .. Len(names[Len(parts) + 1])
         /\ part = SubSeq(names[Len(parts) + 1], 1, Len(part))
         /\ escaped => /\ Len(part) < Len(names[Len(parts) + 1])
                       /\ names[Len(parts) + 1][Len(part) + 1] = Sep
<1>1. Len(parts) \in Nat /\ Len(part) \in Nat BY CharType
<1>2. names \in Seq(Names(escape)) BY DEF TypeOK
<1>3. PICK n \in DOMAIN names :
        /\ n = Len(parts) + 1
        /\ Len(part) <= Len(names[n]) /\ part = SubSeq(names[n], 1, Len(part))
        /\ escaped => Len(part) < Len(names[n]) /\ names[n][Len(part) + 1] = Sep
  BY DEF NamesTaken
<1>4. DOMAIN names = 1 .. Len(names) /\ Len(names) \in Nat BY <1>2, LenProperties
<1>5. names[n] \in Names(escape) BY <1>2, <1>4, ElementOfSeq
<1>6. Len(names[n]) \in Nat BY <1>5, NamesAreStrings
<1>7. key = Join(names, escape) /\ parts = SubSeq(names, 1, Len(parts))
  BY DEF NamesTaken
<1>8. Len(parts) < Len(names) BY <1>1, <1>3, <1>4
<1>9. Len(part) \in 0 .. Len(names[n]) BY <1>1, <1>3, <1>6
<1> QED BY <1>1, <1>2, <1>3, <1>4, <1>5, <1>7, <1>8, <1>9

\* What the loop sees next tells where in the names it is.
LEMMA Ahead ==
  ASSUME TypeOK, ReadIsTaken, NamesTaken, names # <<>>, ~Done, ~escaped,
         NEW q, q = names[Len(parts) + 1]
  PROVE  /\ Len(part) < Len(q) =>
              Reading /\ Char = q[Len(part) + 1] /\ (Char = Sep => IsEscape)
         /\ Len(part) = Len(q) /\ Len(parts) + 1 < Len(names) =>
              Reading /\ Char = Sep /\ ~IsEscape
         /\ Len(part) = Len(q) /\ Len(parts) + 1 = Len(names) => ~Reading
<1> DEFINE n == Len(parts)
           j == Len(part)
           f == FlattenSeq(Below(names, escape))
           t == Len(Taken(parts, part, escape))
<1>1. /\ n \in Nat /\ n < Len(names) /\ Len(names) \in Nat
      /\ names \in Seq(Names(escape)) /\ key = Join(names, escape)
      /\ parts = SubSeq(names, 1, n)
      /\ q \in Names(escape) /\ j \in 0 .. Len(q) /\ part = SubSeq(q, 1, j)
  BY Half
<1>2. /\ q \in Seq(Chars) /\ Len(q) \in Nat
      /\ escape = NoEscape => \A i \in 1 .. Len(q) : q[i] # Sep
  BY <1>1, NamesAreStrings
<1>3. /\ Len(key) \in Nat /\ at \in Nat /\ at <= Len(key) /\ key \in Seq(Chars)
      /\ escape \in {Sep, NoEscape}
  BY CharType DEF TypeOK, Done
<1>4. t = Len(Taken(SubSeq(names, 1, n), SubSeq(names[n + 1], 1, j), escape))
  BY <1>1, Zenon
<1>5. /\ t \in Nat /\ Len(f) \in Nat
      /\ j < Len(q) =>
           LET c == Piece(q[j + 1], escape)
           IN  t + Len(c) <= Len(f) /\ \A i \in 1 .. Len(c) : f[t + i] = c[i]
      /\ j = Len(q) /\ n + 1 < Len(names) =>
           t + 2 <= Len(f) /\ f[t + 1] = Sep /\ f[t + 2] # Sep
      /\ j = Len(q) /\ n + 1 = Len(names) => t = Len(f)
  <2>1. q = names[n + 1] OBVIOUS
  <2>2. f = FlattenSeq(Below(names, escape)) OBVIOUS
  <2> HIDE DEF n, j, t, f
  <2>3. j \in 0 .. Len(names[n + 1]) BY <1>1, <2>1
  <2>4. Stands(escape, names, n, j, f, t)
    BY <1>1, <1>4, <2>2, <2>3, Behind
  <2> QED BY <2>1, <2>4, Zenon DEF Stands
<1>6. Len(f) = Len(key) + 1 /\ \A i \in 1 .. Len(key) : key[i] = f[i + 1]
  <2>1. Names(escape) \subseteq Seq(Chars) BY NamesAreStrings
  <2>2. names \in Seq(Seq(Chars)) BY <1>1, <2>1
  <2> QED BY <1>1, <1>3, <1>5, <2>2, JoinValues
<1>7. t = at + 1
  <2>1. Cat(Divider, SubSeq(key, 1, at)) = Cat(Taken(parts, part, escape), <<>>)
    BY ReadByLaws
  <2>2. Taken(parts, part, escape) \in Seq(Chars) BY TakenType DEF TypeOK
  <2>3. SubSeq(key, 1, at) \in Seq(Chars) /\ Len(SubSeq(key, 1, at)) = at
    BY <1>3, SubSeqProperties
  <2>4. Len(Cat(Divider, SubSeq(key, 1, at))) = 1 + at BY <2>3, Divided
  <2>5. Cat(Taken(parts, part, escape), <<>>) = Taken(parts, part, escape)
    BY <2>2, CatEmpty
  <2> QED BY <1>3, <2>1, <2>4, <2>5
<1> HIDE DEF f, t
<1>8. ASSUME at + 1 < Len(f) PROVE Reading /\ Char = f[t + 1]
  <2>1. at + 1 \in 1 .. Len(key) /\ (at + 1) + 1 = t + 1
    BY <1>3, <1>5, <1>6, <1>7, <1>8
  <2> QED BY <1>3, <1>6, <2>1 DEF Reading, Char
<1>9. ASSUME at + 2 < Len(f)
      PROVE  /\ SepFollows <=> f[t + 2] = Sep
             /\ at + 1 < Len(key)
  <2>1. at + 2 \in 1 .. Len(key) /\ (at + 2) + 1 = t + 2 /\ at + 1 < Len(key)
    BY <1>3, <1>5, <1>6, <1>7, <1>9
  <2> QED BY <1>6, <2>1 DEF SepFollows
<1>10. ASSUME j < Len(q)
       PROVE  Reading /\ Char = q[j + 1] /\ (Char = Sep => IsEscape)
  <2>1. j + 1 \in 1 .. Len(q) BY <1>1, <1>2, <1>10
  <2>2. q[j + 1] \in Chars BY <1>2, <2>1, ElementOfSeq
  <2>3. PICK c : c = Piece(q[j + 1], escape) OBVIOUS
  <2>4. t + Len(c) <= Len(f) /\ \A i \in 1 .. Len(c) : f[t + i] = c[i]
    BY <1>5, <1>10, <2>3
  <2>5. CASE q[j + 1] # Sep
    <3>1. Len(c) = 1 /\ c[1] = q[j + 1] BY <2>3, <2>5 DEF Piece
    <3>2. at + 1 < Len(f) /\ f[t + 1] = q[j + 1]
      BY <1>3, <1>5, <1>7, <2>4, <3>1
    <3> QED BY <1>8, <2>5, <3>2
  <2>6. CASE q[j + 1] = Sep
    <3>1. escape = Sep /\ escape # NoEscape
      BY <1>2, <1>3, <2>1, <2>6, SepAssumption
    <3>2. Len(c) = 2 /\ c[1] = Sep /\ c[2] = Sep
      BY <2>3, <2>6, <3>1 DEF Piece, Repeat
    <3>3. at + 2 < Len(f) /\ at + 1 < Len(f) /\ f[t + 1] = Sep /\ f[t + 2] = Sep
      BY <1>3, <1>5, <1>7, <2>4, <3>2
    <3> QED BY <1>8, <1>9, <2>6, <3>1, <3>3 DEF IsEscape
  <2> QED BY <2>5, <2>6
<1>11. ASSUME j = Len(q), n + 1 < Len(names)
       PROVE  Reading /\ Char = Sep /\ ~IsEscape
  <2>1. t + 2 <= Len(f) /\ f[t + 1] = Sep /\ f[t + 2] # Sep BY <1>5, <1>11
  <2>2. at + 1 < Len(f) /\ at + 2 < Len(f) BY <1>3, <1>5, <1>7, <2>1
  <2> QED BY <1>8, <1>9, <2>1, <2>2 DEF IsEscape
<1>12. ASSUME j = Len(q), n + 1 = Len(names) PROVE ~Reading
  <2>1. t = Len(f) BY <1>5, <1>12
  <2> QED BY <1>3, <1>6, <1>7, <2>1 DEF Reading
<1> QED BY <1>10, <1>11, <1>12

\* One more character of the name, and one more name.
LEMMA Longer ==
  ASSUME NEW S, NEW s \in Seq(S), NEW j \in Nat, j < Len(s)
  PROVE  Append(SubSeq(s, 1, j), s[j + 1]) = SubSeq(s, 1, j + 1)
<1>1. s[j + 1] \in S BY ElementOfSeq
<1>2. SubSeq(s, 1, j) \in Seq(S) BY SubSeqProperties
<1>3. SubSeq(s, 1, j + 1) = SubSeq(s, 1, j) \o <<s[j + 1]>>
  BY OneLonger
<1> QED BY <1>1, <1>2, <1>3, AppendIsConcat

\* Every step takes the next character of a name, or ends a name where it ends.
LEMMA NamesStep ==
  TypeOK /\ ReadIsTaken /\ NamesTaken /\ [Next]_vars => NamesTaken'
<1> SUFFICES ASSUME TypeOK, ReadIsTaken, NamesTaken, [Next]_vars, names' # <<>>
             PROVE  NamesTaken'
  BY DEF NamesTaken
<1>1. CASE UNCHANGED vars
  <2>1. UNCHANGED <<names, key, escape, at, part, escaped, parts>> BY <1>1 DEF vars
  <2> QED BY <2>1 DEF NamesTaken, Done
<1> SUFFICES ASSUME Next PROVE NamesTaken'
  BY <1>1
<1>2. /\ names' = names /\ key' = key /\ escape' = escape /\ at' = at + 1
      /\ names # <<>>
  BY DEF Next, TakeLiterally, StartEscape, StartPart, TakeChar, LastPart, Advance
<1>3. Len(key) \in Nat /\ at \in Nat /\ at <= Len(key) /\ ~Done
  BY CharType DEF Next, TakeLiterally, StartEscape, StartPart, TakeChar,
                  LastPart, Reading, Done
<1> DEFINE n == Len(parts)
           j == Len(part)
           q == names[n + 1]
<1>4. /\ n \in Nat /\ n < Len(names) /\ Len(names) \in Nat
      /\ names \in Seq(Names(escape)) /\ key = Join(names, escape)
      /\ parts = SubSeq(names, 1, n)
      /\ q \in Names(escape) /\ j \in 0 .. Len(q) /\ part = SubSeq(q, 1, j)
      /\ escaped => j < Len(q) /\ q[j + 1] = Sep
  BY <1>2, <1>3, Half
<1>5. q \in Seq(Chars) /\ Len(q) \in Nat BY <1>4, NamesAreStrings
<1>6. ASSUME ~escaped
      PROVE  /\ j < Len(q) => Reading /\ Char = q[j + 1] /\ (Char = Sep => IsEscape)
             /\ j = Len(q) /\ n + 1 < Len(names) => Reading /\ Char = Sep /\ ~IsEscape
             /\ j = Len(q) /\ n + 1 = Len(names) => ~Reading
  BY <1>2, <1>3, <1>6, Ahead
<1>7. escaped => Reading /\ Char = Sep BY DEF ReadIsTaken
<1>8. n + 1 \in DOMAIN names BY <1>4, LenProperties
<1>9. Reading => ~Done' BY <1>2, <1>3 DEF Reading, Done
\* A step that reads a character of a name.
<1>10. ASSUME Reading, j < Len(q), parts' = parts, ~escaped',
              part' = Append(part, q[j + 1])
       PROVE  NamesTaken'
  <2>1. j \in Nat BY <1>4, <1>5
  <2>2. part' = SubSeq(q, 1, j + 1) BY <1>4, <1>5, <1>10, <2>1, Longer
  <2>3. Len(part') = j + 1 BY <1>5, <1>10, <2>1, <2>2, SubSeqProperties
  <2>4. part' = SubSeq(q, 1, Len(part')) BY <2>2, <2>3, Zenon
  <2>5. Len(part') <= Len(q) BY <1>5, <1>10, <2>1, <2>3
  <2>6. Len(parts') = n /\ parts' = SubSeq(names, 1, Len(parts'))
    BY <1>4, <1>10, Zenon
  <2> HIDE DEF n, j
  <2> QED BY <1>2, <1>4, <1>8, <1>9, <1>10, <2>4, <2>5, <2>6, Zenon DEF NamesTaken
\* A step that ends a name.
<1>11. ASSUME j = Len(q), parts' = Append(parts, part)
       PROVE  Len(parts') = n + 1 /\ parts' = SubSeq(names, 1, Len(parts'))
  <2>1. part = q BY <1>4, <1>5, <1>11, SubSeqFull
  <2>2. parts' = SubSeq(names, 1, n + 1) BY <1>4, <1>11, <2>1, Longer
  <2>3. Len(parts') = n + 1 BY <1>4, <2>2, SubSeqProperties
  <2> QED BY <2>2, <2>3, Zenon
<1>12. CASE TakeLiterally
  <2>1. /\ Reading /\ escaped /\ ~escaped' /\ part' = Append(part, Char)
        /\ parts' = parts
    BY <1>12 DEF TakeLiterally
  <2>2. j < Len(q) /\ q[j + 1] = Char BY <1>4, <1>7, <2>1
  <2> QED BY <1>10, <2>1, <2>2
<1>13. CASE StartEscape
  <2>1. /\ Reading /\ ~escaped /\ IsEscape /\ part' = part /\ parts' = parts
        /\ escape \in {Sep, NoEscape}
    BY <1>13 DEF StartEscape, TypeOK
  <2>2. j < Len(q) /\ Char = q[j + 1]
    <3>1. ~(j = Len(q)) BY <1>4, <1>6, <2>1
    <3> QED BY <1>4, <1>5, <1>6, <2>1, <3>1
  <2>3. Char = Sep
    BY <2>1, CharType, SepAssumption DEF IsEscape, Chars
  <2>4. n + 1 = Len(parts') + 1 /\ parts' = SubSeq(names, 1, Len(parts'))
    BY <1>4, <2>1, Zenon
  <2>5. /\ Len(part') <= Len(q) /\ part' = SubSeq(q, 1, Len(part'))
        /\ Len(part') < Len(q) /\ q[Len(part') + 1] = Sep
    BY <1>4, <1>5, <2>1, <2>2, <2>3
  <2> HIDE DEF n, j
  <2> QED BY <1>2, <1>4, <1>8, <1>9, <2>1, <2>4, <2>5, Zenon DEF NamesTaken
<1>14. CASE StartPart
  <2>1. /\ Reading /\ ~escaped /\ ~IsEscape /\ Char = Sep /\ part' = <<>>
        /\ parts' = Append(parts, part) /\ ~escaped'
    BY <1>14 DEF StartPart, ClearPart
  <2>2. j = Len(q) BY <1>4, <1>5, <1>6, <2>1
  <2>3. n + 1 < Len(names) BY <1>4, <1>6, <2>1, <2>2
  <2>4. n + 2 \in DOMAIN names BY <1>4, <2>3, LenProperties
  <2>5. names[n + 2] \in Names(escape) BY <1>4, <2>3, ElementOfSeq
  <2>6. Len(names[n + 2]) \in Nat BY <2>5, NamesAreStrings
  <2>7. Len(parts') = n + 1 /\ parts' = SubSeq(names, 1, Len(parts'))
    BY <1>11, <2>1, <2>2
  <2>8. n + 2 = Len(parts') + 1 BY <1>4, <2>7
  <2>9. Len(part') = 0 /\ part' = SubSeq(names[n + 2], 1, 0)
    BY <2>1, SubSeqEmpty, EmptySeq
  <2>10. Len(part') <= Len(names[n + 2]) /\ part' = SubSeq(names[n + 2], 1, Len(part'))
    BY <2>6, <2>9
  <2> HIDE DEF n, j, q
  <2> QED BY <1>2, <1>4, <1>9, <2>1, <2>4, <2>7, <2>8, <2>10, Zenon DEF NamesTaken
<1>15. CASE TakeChar
  <2>1. /\ Reading /\ ~escaped /\ ~escaped' /\ Char # Sep
        /\ part' = Append(part, Char) /\ parts' = parts
    BY <1>15 DEF TakeChar
  <2>2. ~(j = Len(q)) BY <1>4, <1>6, <2>1
  <2>3. j < Len(q) /\ Char = q[j + 1] BY <1>4, <1>5, <1>6, <2>1, <2>2
  <2> QED BY <1>10, <2>1, <2>3
<1>16. CASE LastPart
  <2>1. ~Reading /\ parts' = Append(parts, part) /\ Done'
    BY <1>2, <1>3, <1>16 DEF LastPart, Reading, Done
  <2>2. ~escaped BY <1>7, <2>1
  <2>3. j = Len(q) BY <1>4, <1>5, <1>6, <2>1, <2>2
  <2>4. n + 1 = Len(names) BY <1>4, <1>6, <2>1, <2>2, <2>3
  <2>5. Len(parts') = n + 1 /\ parts' = SubSeq(names, 1, Len(parts'))
    BY <1>11, <2>1, <2>3
  <2> HIDE DEF n, j, q
  <2> QED BY <1>2, <1>4, <2>1, <2>4, <2>5, Zenon DEF NamesTaken
<1> QED BY <1>12, <1>13, <1>14, <1>15, <1>16 DEF Next

\* In every reachable state what has been read is what has been taken, and of
\* written names the first ones have been taken whole.
THEOREM Invariant == Spec => []Inv
<1>1. Init => Inv BY TypeInit, ReadInit, NamesInit DEF Inv
<1>2. Inv /\ [Next]_vars => Inv'
  BY TypeStep, ReadStep, NamesStep DEF Inv
<1> QED BY <1>1, <1>2, PTL DEF Spec

\* Names that the flattener wrote are read back from every key: the escape
\* character is enough, whatever the names are, if none starts with it.
THEOREM NamesBack == Spec => []NamesReadBack
<1>1. TypeOK /\ NamesTaken => NamesReadBack
  <2> SUFFICES ASSUME TypeOK, NamesTaken, Done, names # <<>> PROVE parts = names
    BY DEF NamesReadBack
  <2>1. parts = SubSeq(names, 1, Len(names)) BY DEF NamesTaken
  <2>2. names \in Seq(Names(escape)) BY DEF TypeOK
  <2> QED BY <2>1, <2>2, SubSeqFull
<1>2. Inv => NamesTaken BY DEF Inv
<1> QED BY <1>1, <1>2, TypeCorrect, Invariant, PTL
=============================================================================
