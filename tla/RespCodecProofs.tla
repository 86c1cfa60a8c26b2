-------------------------- MODULE RespCodecProofs ---------------------------
(***************************************************************************)
(* Proofs about the RESP codec, for buffers of any size, any values and    *)
(* raw streams, and any cutting of the bytes into reads and writes.        *)
(*                                                                         *)
(*   TypeCorrect    indices and allocations stay within bounds             *)
(*   StreamCorrect  the buffers are transparent: RespCodec implements      *)
(*                  RespStream                                             *)
(*   IntRoundTrip   Btoi64 reads what Itoa writes, for every integer       *)
(***************************************************************************)
EXTENDS RespCodec, SequenceTheorems, WellFoundedInduction, TLAPS

Bytes == Seq(Byte)

-----------------------------------------------------------------------------
(* Lemmas about natural numbers *)

\* A set of naturals that is not empty has a least element.
LEMMA Smallest ==
    ASSUME NEW T \in SUBSET Nat, T # {}
    PROVE  \E x \in T : \A y \in T : x <= y
<1> DEFINE R == OpToRel(<, Nat)
<1>1. IsWellFoundedOn(R, Nat)
  BY NatLessThanWellFounded
<1>2. ASSUME NEW x \in Nat, NEW y \in Nat, x < y
      PROVE  <<x, y>> \in R
  BY <1>2 DEF OpToRel
<1> HIDE DEF R
<1>3. PICK x \in T : \A y \in T : ~ (<<y, x>> \in R)
  BY <1>1, WFMin
<1>4. ASSUME NEW y \in T PROVE x <= y
  <2>1. x \in Nat /\ y \in Nat /\ ~ (y < x)
    BY <1>2, <1>3
  <2> QED
    BY <2>1
<1> QED
  BY <1>4

\* A set of naturals that has 0, and the successor of each of its elements,
\* has them all.
LEMMA Induction ==
    ASSUME NEW T \in SUBSET Nat, 0 \in T, \A n \in T : n + 1 \in T
    PROVE  T = Nat
<1> SUFFICES ASSUME Nat \ T # {} PROVE FALSE
  OBVIOUS
<1>1. PICK x \in Nat \ T : \A y \in Nat \ T : x <= y
  BY Smallest
<1>2. x - 1 \in Nat /\ ~ (x <= x - 1) /\ (x - 1) + 1 = x
  OBVIOUS
<1>3. x - 1 \in T
  BY <1>1, <1>2
<1> QED
  BY <1>2, <1>3

-----------------------------------------------------------------------------
(* Lemmas about sequences of bytes *)

LEMMA FunctionIsSeq ==
    ASSUME NEW S, NEW n \in Nat, NEW f \in [1..n -> S]
    PROVE  f \in Seq(S) /\ Len(f) = n
OBVIOUS

\* The elements of a part of a sequence.
LEMMA PartIs ==
    ASSUME NEW S, NEW s \in Seq(S), NEW m \in Nat, NEW n \in Nat, m <= n, n <= Len(s)
    PROVE  /\ SubSeq(s, m + 1, n) \in Seq(S)
           /\ Len(SubSeq(s, m + 1, n)) = n - m
           /\ \A i \in 1..(n - m) : SubSeq(s, m + 1, n)[i] = s[m + i]
<1>1. Len(s) \in Nat
  BY LenProperties
<1>2. \A i \in (m + 1)..n : s[i] \in S
  BY <1>1, ElementOfSeq
<1>3. /\ SubSeq(s, m + 1, n) \in Seq(S)
      /\ Len(SubSeq(s, m + 1, n)) = IF m + 1 <= n THEN n - (m + 1) + 1 ELSE 0
      /\ \A i \in 1..(n - (m + 1) + 1) : SubSeq(s, m + 1, n)[i] = s[m + 1 + i - 1]
  BY <1>2, SubSeqProperties
<1> QED
  BY <1>3

\* A sequence cut in two.
LEMMA CutIs ==
    ASSUME NEW S, NEW s \in Seq(S), NEW n \in Nat, n <= Len(s)
    PROVE  /\ SubSeq(s, 1, n) \in Seq(S) /\ Len(SubSeq(s, 1, n)) = n
           /\ SubSeq(s, n + 1, Len(s)) \in Seq(S)
           /\ Len(SubSeq(s, n + 1, Len(s))) = Len(s) - n
           /\ SubSeq(s, 1, n) \o SubSeq(s, n + 1, Len(s)) = s
<1>1. Len(s) \in Nat
  BY LenProperties
<1>2. SubSeq(s, 1, n) \in Seq(S) /\ Len(SubSeq(s, 1, n)) = n
  <2>1. SubSeq(s, 0 + 1, n) \in Seq(S) /\ Len(SubSeq(s, 0 + 1, n)) = n - 0
    BY <1>1, PartIs
  <2>2. 0 + 1 = 1 /\ n - 0 = n
    OBVIOUS
  <2> QED
    BY <2>1, <2>2
<1>3. /\ SubSeq(s, n + 1, Len(s)) \in Seq(S)
      /\ Len(SubSeq(s, n + 1, Len(s))) = Len(s) - n
  BY <1>1, PartIs
<1>4. 1 \in 1..(Len(s) + 1) /\ n \in (1 - 1)..Len(s) /\ Len(s) \in n..Len(s)
  BY <1>1
<1>5. SubSeq(s, 1, n) \o SubSeq(s, n + 1, Len(s)) = SubSeq(s, 1, Len(s))
  BY <1>4, ConcatAdjacentSubSeq
<1>6. SubSeq(s, 1, Len(s)) = s
  BY SubSeqFull
<1> QED
  BY <1>2, <1>3, <1>5, <1>6

\* The two parts of a concatenation.
LEMMA PartsOfConcat ==
    ASSUME NEW S, NEW s \in Seq(S), NEW t \in Seq(S)
    PROVE  /\ s \o t \in Seq(S) /\ Len(s \o t) = Len(s) + Len(t)
           /\ Len(s) \in Nat /\ Len(t) \in Nat
           /\ SubSeq(s \o t, 1, Len(s)) = s
           /\ SubSeq(s \o t, Len(s) + 1, Len(s \o t)) = t
<1>1. /\ s \o t \in Seq(S)
      /\ Len(s \o t) = Len(s) + Len(t)
      /\ \A i \in 1..(Len(s) + Len(t)) :
            (s \o t)[i] = IF i <= Len(s) THEN s[i] ELSE t[i - Len(s)]
  BY ConcatProperties
<1>2. Len(s) \in Nat /\ Len(t) \in Nat
  BY LenProperties
<1>3. SubSeq(s \o t, 1, Len(s)) = s
  <2>1. /\ SubSeq(s \o t, 0 + 1, Len(s)) \in Seq(S)
        /\ Len(SubSeq(s \o t, 0 + 1, Len(s))) = Len(s) - 0
        /\ \A i \in 1..(Len(s) - 0) : SubSeq(s \o t, 0 + 1, Len(s))[i] = (s \o t)[0 + i]
    BY <1>1, <1>2, PartIs
  <2>2. \A i \in 1..Len(s) : SubSeq(s \o t, 1, Len(s))[i] = s[i]
    BY <2>1, <1>1, <1>2
  <2> QED
    BY <2>1, <2>2, <1>2, SeqEqual
<1>4. SubSeq(s \o t, Len(s) + 1, Len(s \o t)) = t
  <2>1. /\ SubSeq(s \o t, Len(s) + 1, Len(s \o t)) \in Seq(S)
        /\ Len(SubSeq(s \o t, Len(s) + 1, Len(s \o t))) = Len(s \o t) - Len(s)
        /\ \A i \in 1..(Len(s \o t) - Len(s)) :
              SubSeq(s \o t, Len(s) + 1, Len(s \o t))[i] = (s \o t)[Len(s) + i]
    BY <1>1, <1>2, PartIs
  <2>2. \A i \in 1..Len(t) : SubSeq(s \o t, Len(s) + 1, Len(s \o t))[i] = t[i]
    BY <2>1, <1>1, <1>2
  <2> QED
    BY <2>1, <2>2, <1>1, <1>2, SeqEqual
<1> QED
  BY <1>1, <1>2, <1>3, <1>4

\* Bytes at the front of one sequence may as well be at the end of another.
LEMMA MoveBytes ==
    ASSUME NEW S, NEW s \in Seq(S), NEW t \in Seq(S), NEW n \in Nat, n <= Len(t)
    PROVE  (s \o SubSeq(t, 1, n)) \o SubSeq(t, n + 1, Len(t)) = s \o t
<1> DEFINE a == SubSeq(t, 1, n)
           b == SubSeq(t, n + 1, Len(t))
<1>1. a \in Seq(S) /\ b \in Seq(S)
  BY CutIs
<1>2. a \o b = t
  BY CutIs
<1> HIDE DEF a, b
<1>3. (s \o a) \o b = s \o (a \o b)
  BY <1>1, ConcatAssociative
<1>4. (s \o a) \o b = s \o t
  BY <1>2, <1>3
<1> QED
  BY <1>4 DEF a, b

\* b begins with a.
LEMMA PrefixIs ==
    ASSUME NEW S, NEW s \in Seq(S), NEW t \in Seq(S)
    PROVE  IsPrefix(s, s \o t)
BY PartsOfConcat, LenProperties DEF IsPrefix

-----------------------------------------------------------------------------
(* Lines *)

NoLF(b) == \A i \in 1..Len(b) : b[i] # LF

\* FirstLF finds the first newline.
LEMMA FirstLFIs ==
    ASSUME NEW b \in Bytes
    PROVE  /\ FirstLF(b) \in 0..Len(b)
           /\ FirstLF(b) = 0 <=> NoLF(b)
           /\ FirstLF(b) # 0 =>
                 b[FirstLF(b)] = LF /\ \A i \in 1..(FirstLF(b) - 1) : b[i] # LF
<1> DEFINE I == {i \in DOMAIN b : b[i] = LF}
<1>0. FirstLF(b) = IF I = {} THEN 0 ELSE CHOOSE x \in I : \A y \in I : x <= y
  BY DEF FirstLF, Min
<1>1. Len(b) \in Nat /\ DOMAIN b = 1..Len(b)
  BY LenProperties DEF Bytes
<1>2. CASE I = {}
  <2>1. NoLF(b)
    BY <1>1, <1>2 DEF NoLF
  <2> QED
    BY <2>1, <1>0, <1>1, <1>2
<1>3. CASE I # {}
  <2>1. I \in SUBSET Nat
    BY <1>1
  <2>2. PICK x \in I : \A y \in I : x <= y
    BY <2>1, <1>3, Smallest
  <2>3. FirstLF(b) \in I /\ \A y \in I : FirstLF(b) <= y
    BY <2>2, <1>0, <1>3
  <2>4. FirstLF(b) \in 1..Len(b) /\ b[FirstLF(b)] = LF
    BY <2>3, <1>1
  <2>5. ASSUME NEW i \in 1..(FirstLF(b) - 1) PROVE b[i] # LF
    <3>1. i \in DOMAIN b /\ ~ (FirstLF(b) <= i)
      BY <2>4, <1>1
    <3> QED
      BY <3>1, <2>3
  <2>6. ~ NoLF(b)
    BY <2>4 DEF NoLF
  <2> QED
    BY <2>4, <2>5, <2>6
<1> QED
  BY <1>2, <1>3

\* A newline with none before it is the first.
LEMMA FirstLFAt ==
    ASSUME NEW b \in Bytes, NEW k \in 1..Len(b), b[k] = LF,
           \A i \in 1..(k - 1) : b[i] # LF
    PROVE  FirstLF(b) = k
<1>1. Len(b) \in Nat
  BY LenProperties DEF Bytes
<1>2. ~ NoLF(b)
  BY DEF NoLF
<1>3. FirstLF(b) \in 1..Len(b) /\ b[FirstLF(b)] = LF
      /\ \A i \in 1..(FirstLF(b) - 1) : b[i] # LF
  BY <1>1, <1>2, FirstLFIs
<1>4. ~ (FirstLF(b) < k)
  BY <1>3, <1>1
<1>5. ~ (k < FirstLF(b))
  BY <1>3, <1>1
<1> QED
  BY <1>3, <1>4, <1>5, <1>1

\* The first line of a stream that begins with bytes that hold no newline.
LEMMA FirstLFOfConcat ==
    ASSUME NEW a \in Bytes, NoLF(a), NEW b \in Bytes, NEW c \in Bytes, FirstLF(b) # 0
    PROVE  FirstLF(a \o b \o c) = Len(a) + FirstLF(b)
<1>1. FirstLF(b) \in 1..Len(b) /\ b[FirstLF(b)] = LF
      /\ \A i \in 1..(FirstLF(b) - 1) : b[i] # LF
  BY FirstLFIs, LenProperties DEF Bytes
<1>2. Len(a) \in Nat /\ Len(b) \in Nat /\ Len(c) \in Nat
  BY LenProperties DEF Bytes
<1>3. /\ a \o b \in Bytes /\ Len(a \o b) = Len(a) + Len(b)
      /\ \A i \in 1..(Len(a) + Len(b)) :
            (a \o b)[i] = IF i <= Len(a) THEN a[i] ELSE b[i - Len(a)]
  BY ConcatProperties DEF Bytes
<1>4. /\ a \o b \o c \in Bytes /\ Len(a \o b \o c) = Len(a \o b) + Len(c)
      /\ \A i \in 1..(Len(a \o b) + Len(c)) :
            (a \o b \o c)[i] = IF i <= Len(a \o b) THEN (a \o b)[i] ELSE c[i - Len(a \o b)]
  BY <1>3, ConcatProperties DEF Bytes
<1> DEFINE k == Len(a) + FirstLF(b)
<1>5. k \in 1..Len(a \o b \o c) /\ (a \o b \o c)[k] = LF
  <2>1. k \in 1..(Len(a) + Len(b)) /\ ~ (k <= Len(a)) /\ k - Len(a) = FirstLF(b)
    BY <1>1, <1>2
  <2> QED
    BY <2>1, <1>1, <1>2, <1>3, <1>4
<1>6. ASSUME NEW i \in 1..(k - 1) PROVE (a \o b \o c)[i] # LF
  <2>1. i \in 1..(Len(a) + Len(b))
    BY <1>1, <1>2
  <2>2. (a \o b \o c)[i] = (a \o b)[i]
    BY <2>1, <1>2, <1>3, <1>4
  <2>3. CASE i <= Len(a)
    BY <2>1, <2>2, <2>3, <1>2, <1>3 DEF NoLF
  <2>4. CASE ~ (i <= Len(a))
    <3>1. i - Len(a) \in 1..(FirstLF(b) - 1)
      BY <2>4, <1>1, <1>2
    <3> QED
      BY <3>1, <2>1, <2>2, <2>4, <1>1, <1>3
  <2> QED
    BY <2>3, <2>4
<1> QED
  BY <1>4, <1>5, <1>6, FirstLFAt

\* Bytes without a newline, one after the other.
LEMMA NoLFConcat ==
    ASSUME NEW a \in Bytes, NEW b \in Bytes
    PROVE  NoLF(a \o b) <=> NoLF(a) /\ NoLF(b)
<1>1. /\ Len(a \o b) = Len(a) + Len(b)
      /\ \A i \in 1..(Len(a) + Len(b)) :
            (a \o b)[i] = IF i <= Len(a) THEN a[i] ELSE b[i - Len(a)]
  BY ConcatProperties DEF Bytes
<1>2. Len(a) \in Nat /\ Len(b) \in Nat
  BY LenProperties DEF Bytes
<1>3. ASSUME NoLF(a), NoLF(b) PROVE NoLF(a \o b)
  <2> SUFFICES ASSUME NEW i \in 1..(Len(a) + Len(b)) PROVE (a \o b)[i] # LF
    BY <1>1 DEF NoLF
  <2>1. CASE i <= Len(a)
    BY <2>1, <1>1, <1>2, <1>3 DEF NoLF
  <2>2. CASE ~ (i <= Len(a))
    <3>1. i - Len(a) \in 1..Len(b)
      BY <2>2, <1>2
    <3> QED
      BY <3>1, <2>2, <1>1, <1>3 DEF NoLF
  <2> QED
    BY <2>1, <2>2
<1>4. ASSUME NoLF(a \o b) PROVE NoLF(a)
  BY <1>1, <1>2, <1>4 DEF NoLF
<1>5. ASSUME NoLF(a \o b), NEW i \in 1..Len(b) PROVE b[i] # LF
  <2>1. Len(a) + i \in 1..(Len(a) + Len(b)) /\ ~ (Len(a) + i <= Len(a))
        /\ (Len(a) + i) - Len(a) = i
    BY <1>2
  <2> QED
    BY <2>1, <1>1, <1>5 DEF NoLF
<1> QED
  BY <1>3, <1>4, <1>5 DEF NoLF

-----------------------------------------------------------------------------
(* Integers: the digits of a number are computed by recursion on it. That *)
(* the function exists, and what it returns, is shown by induction.       *)

DigitSet == {Digits[i] : i \in 1..Base}

LEMMA OneByte ==
    ASSUME NEW S, NEW e \in S
    PROVE  <<e>> \in Seq(S) /\ Len(<<e>>) = 1 /\ <<e>>[1] = e /\ <<e>> # <<>>
OBVIOUS

\* The bytes of the protocol.
LEMMA BytesAre ==
    /\ CR \in Byte /\ LF \in Byte /\ "-" \in Byte /\ "$" \in Byte /\ "*" \in Byte
    /\ \A i \in 1..10 : Digits[i] \in Byte
BY CodecAssumption

LEMMA DigitsAre ==
    DigitSet \subseteq Byte /\ \A i \in 1..Base : Digits[i] \in DigitSet
<1>1. Base \in 2..10
  BY RespAssumption
<1> QED
  BY <1>1, BytesAre DEF DigitSet

LEMMA DivBase ==
    ASSUME NEW k \in Nat
    PROVE  /\ k \div Base \in 0..k /\ k % Base \in 0..(Base - 1)
           /\ k = (k \div Base) * Base + (k % Base)
           /\ ~ (k < Base) => k \div Base \in 1..(k - 1)
<1>1. Base \in 2..10
  BY RespAssumption
<1>2. k \div Base \in Nat /\ k % Base \in 0..(Base - 1)
  BY <1>1
<1>3. k = (k \div Base) * Base + (k % Base)
  BY <1>1
<1>4. ASSUME NEW q \in Nat, NEW r \in 0..(Base - 1), k = q * Base + r
      PROVE  q <= k /\ (~ (k < Base) => q < k /\ 1 <= q)
  BY <1>1, <1>4
<1> QED
  BY <1>1, <1>2, <1>3, <1>4

\* g is the function of DigitsOf, for the numbers up to m.
Written(m, g) ==
    g = [k \in 0..m |-> IF k < Base THEN <<Digits[k + 1]>>
                        ELSE Append(g[k \div Base], Digits[(k % Base) + 1])]

LEMMA WrittenExists == \A m \in Nat : \E g : Written(m, g)
<1> DEFINE T == {m \in Nat : \E g : Written(m, g)}
<1>0. Base \in Nat /\ 0 < Base
  BY RespAssumption
<1>1. 0 \in T
  <2> DEFINE g == [k \in 0..0 |-> <<Digits[k + 1]>>]
  <2>1. \A k \in 0..0 : k < Base
    BY <1>0
  <2>2. g = [k \in 0..0 |-> IF k < Base THEN <<Digits[k + 1]>>
                            ELSE Append(g[k \div Base], Digits[(k % Base) + 1])]
    BY <2>1
  <2> QED
    BY <2>2 DEF Written
<1>2. ASSUME NEW m \in T PROVE m + 1 \in T
  <2>1. PICK g : Written(m, g)
    OBVIOUS
  <2> DEFINE new == IF m + 1 < Base THEN <<Digits[(m + 1) + 1]>>
                    ELSE Append(g[(m + 1) \div Base], Digits[((m + 1) % Base) + 1])
             h == [k \in 0..(m + 1) |-> IF k <= m THEN g[k] ELSE new]
             body(k) == IF k < Base THEN <<Digits[k + 1]>>
                        ELSE Append(h[k \div Base], Digits[(k % Base) + 1])
  <2>2. ASSUME NEW k \in 0..(m + 1) PROVE h[k] = body(k)
    <3>1. ~ (k < Base) => k \div Base \in 0..(m + 1) /\ k \div Base <= m
      BY DivBase
    <3>2. ~ (k < Base) => h[k \div Base] = g[k \div Base]
      BY <3>1
    <3>3. CASE k = m + 1
      <4>1. h[k] = new
        BY <3>3
      <4> QED
        BY <4>1, <3>2, <3>3
    <3>4. CASE k # m + 1
      <4>1. k \in 0..m /\ k <= m
        BY <3>4
      <4>2. h[k] = g[k]
        BY <4>1
      <4>3. g[k] = IF k < Base THEN <<Digits[k + 1]>>
                   ELSE Append(g[k \div Base], Digits[(k % Base) + 1])
        BY <2>1, <4>1 DEF Written
      <4> QED
        BY <4>2, <4>3, <3>2
    <3> QED
      BY <3>3, <3>4
  <2>3. h = [k \in 0..(m + 1) |-> body(k)]
    BY <2>2
  <2>4. Written(m + 1, h)
    BY <2>3 DEF Written
  <2> QED
    BY <2>4
<1> HIDE DEF T
<1>3. T \in SUBSET Nat
  BY DEF T
<1>4. T = Nat
  BY <1>1, <1>2, <1>3, Induction
<1> QED
  BY <1>4 DEF T

LEMMA DigitsOfIs ==
    ASSUME NEW n \in Nat
    PROVE  \E g : Written(n, g) /\ DigitsOf(n) = g[n]
<1> DEFINE d == CHOOSE d : d = [k \in 0..n |->
                                  IF k < Base THEN <<Digits[k + 1]>>
                                  ELSE Append(d[k \div Base], Digits[(k % Base) + 1])]
<1>1. \E g : Written(n, g)
  BY WrittenExists
<1>2. d = [k \in 0..n |-> IF k < Base THEN <<Digits[k + 1]>>
                          ELSE Append(d[k \div Base], Digits[(k % Base) + 1])]
  BY <1>1 DEF Written
<1>3. DigitsOf(n) = d[n]
  BY DEF DigitsOf
<1> HIDE DEF d
<1>4. Written(n, d)
  BY <1>2 DEF Written
<1> QED
  BY <1>3, <1>4

\* A number has at least one digit, and nothing but digits.
LEMMA DigitsOfTyped ==
    ASSUME NEW n \in Nat
    PROVE  DigitsOf(n) \in Seq(DigitSet) /\ DigitsOf(n) # <<>>
<1>1. PICK g : Written(n, g) /\ DigitsOf(n) = g[n]
  BY DigitsOfIs
<1> DEFINE Good(k) == g[k] \in Seq(DigitSet) /\ g[k] # <<>>
           B == {k \in 0..n : ~ Good(k)}
<1>0. Base \in Nat
  BY RespAssumption
<1>2. SUFFICES ASSUME B # {} PROVE FALSE
  BY <1>1
<1>3. B \in SUBSET Nat
  OBVIOUS
<1>4. PICK k \in B : \A j \in B : k <= j
  BY <1>2, <1>3, Smallest
<1>5. g[k] = IF k < Base THEN <<Digits[k + 1]>>
             ELSE Append(g[k \div Base], Digits[(k % Base) + 1])
  BY <1>1 DEF Written
<1>6. CASE k < Base
  <2>1. k + 1 \in 1..Base
    BY <1>0, <1>6
  <2>2. Digits[k + 1] \in DigitSet
    BY <2>1, DigitsAre
  <2>3. <<Digits[k + 1]>> \in Seq(DigitSet) /\ <<Digits[k + 1]>> # <<>>
    BY <2>2, OneByte
  <2> QED
    BY <1>5, <1>6, <2>3
<1>7. CASE ~ (k < Base)
  <2>0. k \in Nat /\ k <= n
    OBVIOUS
  <2>1. k \div Base \in 1..(k - 1) /\ k % Base \in 0..(Base - 1)
    BY <1>7, <2>0, DivBase
  <2>9. k \div Base \in 0..n /\ ~ (k <= k \div Base) /\ (k % Base) + 1 \in 1..Base
    BY <1>0, <2>0, <2>1
  <2>2. g[k \div Base] \in Seq(DigitSet)
    BY <1>4, <2>9
  <2>3. Digits[(k % Base) + 1] \in DigitSet
    BY <2>9, DigitsAre
  <2> HIDE DEF Good
  <2>4. Good(k)
    BY <1>5, <1>7, <2>2, <2>3, AppendProperties DEF Good
  <2> QED
    BY <2>4
<1> QED
  BY <1>6, <1>7

LEMMA ItoaTyped ==
    ASSUME NEW i \in Int
    PROVE  Itoa(i) \in Bytes
<1>1. ASSUME NEW n \in Nat PROVE DigitsOf(n) \in Bytes
  BY DigitsOfTyped, DigitsAre, SeqMonotonic DEF Bytes
<1>2. CASE i < 0
  <2>1. DigitsOf(-i) \in Bytes
    BY <1>1, <1>2
  <2>2. <<"-">> \in Bytes
    BY OneByte, BytesAre DEF Bytes
  <2> QED
    BY <2>1, <2>2, <1>2, ConcatProperties DEF Itoa, Bytes
<1>3. CASE ~ (i < 0)
  BY <1>1, <1>3 DEF Itoa
<1> QED
  BY <1>2, <1>3

\* g is the function of NumberOf, for the first m bytes of b.
Summed(b, m, g) ==
    g = [k \in 0..m |-> IF k = 0 THEN 0 ELSE g[k - 1] * Base + DigitValue(b[k])]

LEMMA SummedExists ==
    ASSUME NEW b
    PROVE  \A m \in Nat : \E g : Summed(b, m, g)
<1> DEFINE T == {m \in Nat : \E g : Summed(b, m, g)}
<1>1. 0 \in T
  <2> DEFINE g == [k \in 0..0 |-> 0]
  <2>1. \A k \in 0..0 : k = 0
    OBVIOUS
  <2>2. g = [k \in 0..0 |-> IF k = 0 THEN 0 ELSE g[k - 1] * Base + DigitValue(b[k])]
    BY <2>1
  <2> QED
    BY <2>2 DEF Summed
<1>2. ASSUME NEW m \in T PROVE m + 1 \in T
  <2>1. PICK g : Summed(b, m, g)
    OBVIOUS
  <2> DEFINE new == g[m] * Base + DigitValue(b[m + 1])
             h == [k \in 0..(m + 1) |-> IF k <= m THEN g[k] ELSE new]
             body(k) == IF k = 0 THEN 0 ELSE h[k - 1] * Base + DigitValue(b[k])
  <2>2. ASSUME NEW k \in 0..(m + 1) PROVE h[k] = body(k)
    <3>1. k # 0 => k - 1 \in 0..(m + 1) /\ k - 1 <= m
      OBVIOUS
    <3>2. k # 0 => h[k - 1] = g[k - 1]
      BY <3>1
    <3>3. CASE k = m + 1
      <4>1. h[k] = new /\ k # 0 /\ k - 1 = m
        BY <3>3
      <4> QED
        BY <4>1, <3>2, <3>3
    <3>4. CASE k # m + 1
      <4>1. k \in 0..m /\ k <= m
        BY <3>4
      <4>2. h[k] = g[k]
        BY <4>1
      <4>3. g[k] = IF k = 0 THEN 0 ELSE g[k - 1] * Base + DigitValue(b[k])
        BY <2>1, <4>1 DEF Summed
      <4> QED
        BY <4>2, <4>3, <3>2
    <3> QED
      BY <3>3, <3>4
  <2>3. h = [k \in 0..(m + 1) |-> body(k)]
    BY <2>2
  <2>4. Summed(b, m + 1, h)
    BY <2>3 DEF Summed
  <2> QED
    BY <2>4
<1> HIDE DEF T
<1>3. T \in SUBSET Nat
  BY DEF T
<1>4. T = Nat
  BY <1>1, <1>2, <1>3, Induction
<1> QED
  BY <1>4 DEF T

LEMMA NumberOfIs ==
    ASSUME NEW b, Len(b) \in Nat
    PROVE  \E g : Summed(b, Len(b), g) /\ NumberOf(b) = g[Len(b)]
<1> DEFINE n == CHOOSE n : n = [k \in 0..Len(b) |->
                                  IF k = 0 THEN 0 ELSE n[k - 1] * Base + DigitValue(b[k])]
<1>1. \E g : Summed(b, Len(b), g)
  BY SummedExists
<1>2. n = [k \in 0..Len(b) |-> IF k = 0 THEN 0 ELSE n[k - 1] * Base + DigitValue(b[k])]
  BY <1>1 DEF Summed
<1>3. NumberOf(b) = n[Len(b)]
  BY DEF NumberOf
<1> HIDE DEF n
<1>4. Summed(b, Len(b), n)
  BY <1>2 DEF Summed
<1> QED
  BY <1>3, <1>4

LEMMA DigitValueTyped ==
    ASSUME NEW c \in DigitSet
    PROVE  DigitValue(c) \in 0..(Base - 1) /\ Digits[DigitValue(c) + 1] = c
<1>1. Base \in Nat
  BY RespAssumption
<1> DEFINE i == CHOOSE i \in 1..Base : Digits[i] = c
<1>2. i \in 1..Base /\ Digits[i] = c
  BY DEF DigitSet
<1>3. DigitValue(c) = i - 1
  BY DEF DigitValue
<1> HIDE DEF i
<1>4. DigitValue(c) + 1 = i
  BY <1>1, <1>2, <1>3
<1> QED
  BY <1>1, <1>2, <1>3, <1>4

LEMMA NumberOfTyped ==
    ASSUME NEW b \in Seq(DigitSet)
    PROVE  NumberOf(b) \in Nat
<1>0. Len(b) \in Nat /\ Base \in Nat
  BY LenProperties, RespAssumption
<1>1. PICK g : Summed(b, Len(b), g) /\ NumberOf(b) = g[Len(b)]
  BY <1>0, NumberOfIs
<1> DEFINE T == {k \in Nat : k <= Len(b) => g[k] \in Nat}
<1>2. 0 \in T
  <2>1. 0 \in 0..Len(b)
    BY <1>0
  <2>2. g[0] = 0
    BY <1>1, <2>1 DEF Summed
  <2> QED
    BY <2>2
<1>3. ASSUME NEW k \in T PROVE k + 1 \in T
  <2> SUFFICES ASSUME k + 1 <= Len(b) PROVE g[k + 1] \in Nat
    BY <1>0
  <2>1. k \in Nat /\ k + 1 \in 0..Len(b) /\ k + 1 # 0 /\ (k + 1) - 1 = k /\ k <= Len(b)
        /\ k + 1 \in 1..Len(b)
    BY <1>0
  <2>2. g[k] \in Nat
    BY <2>1
  <2>3. g[k + 1] = g[k] * Base + DigitValue(b[k + 1])
    BY <1>1, <2>1 DEF Summed
  <2>4. DigitValue(b[k + 1]) \in Nat
    <3>1. b[k + 1] \in DigitSet
      BY <2>1, ElementOfSeq
    <3> QED
      BY <3>1, <1>0, DigitValueTyped
  <2> QED
    BY <2>2, <2>3, <2>4, <1>0
<1> HIDE DEF T
<1>4. T \in SUBSET Nat
  BY DEF T
<1>5. T = Nat
  BY <1>2, <1>3, <1>4, Induction
<1> QED
  BY <1>0, <1>1, <1>5 DEF T

\* What Btoi64 accepts is an integer.
LEMMA Btoi64Typed ==
    ASSUME NEW b \in Bytes, IsNumber(b)
    PROVE  Btoi64(b) \in Int
<1> DEFINE u == Unsigned(b)
<1>1. u \in Bytes
  <2>1. CASE b # <<>> /\ b[1] \in {"-", "+"}
    <3>1. Tail(b) \in Bytes
      BY <2>1, HeadTailProperties DEF Bytes
    <3> QED
      BY <2>1, <3>1 DEF Unsigned
  <2>2. CASE ~ (b # <<>> /\ b[1] \in {"-", "+"})
    BY <2>2 DEF Unsigned
  <2> QED
    BY <2>1, <2>2
<1>2. \A i \in DOMAIN u : u[i] \in DigitSet
  BY DEF IsNumber, DigitSet
<1> HIDE DEF u
<1>3. u \in Seq(DigitSet)
  <2>1. Len(u) \in Nat /\ DOMAIN u = 1..Len(u) /\ u \in [1..Len(u) -> Byte]
    BY <1>1, LenProperties DEF Bytes
  <2>2. u \in [1..Len(u) -> DigitSet]
    BY <2>1, <1>2
  <2> QED
    BY <2>1, <2>2, FunctionIsSeq
<1>4. NumberOf(u) \in Nat
  BY <1>3, NumberOfTyped
<1> QED
  BY <1>4 DEF Btoi64, u

\* The sum of the first bytes depends on them only.
LEMMA SummedSame ==
    ASSUME NEW b, NEW c, NEW m \in Nat, NEW n \in Nat, m <= n,
           NEW g, Summed(b, m, g), NEW h, Summed(c, n, h), \A i \in 1..m : b[i] = c[i]
    PROVE  g[m] = h[m]
<1> DEFINE T == {k \in Nat : k <= m => g[k] = h[k]}
<1>1. 0 \in T
  <2>1. 0 \in 0..m /\ 0 \in 0..n
    OBVIOUS
  <2> QED
    BY <2>1 DEF Summed
<1>2. ASSUME NEW k \in T PROVE k + 1 \in T
  <2> SUFFICES ASSUME k + 1 <= m PROVE g[k + 1] = h[k + 1]
    OBVIOUS
  <2>1. /\ k \in Nat /\ k + 1 \in 0..m /\ k + 1 \in 0..n /\ k + 1 # 0 /\ (k + 1) - 1 = k
        /\ k + 1 \in 1..m /\ k <= m
    OBVIOUS
  <2>2. g[k + 1] = g[k] * Base + DigitValue(b[k + 1])
    BY <2>1 DEF Summed
  <2>3. h[k + 1] = h[k] * Base + DigitValue(c[k + 1])
    BY <2>1 DEF Summed
  <2>4. g[k] = h[k] /\ b[k + 1] = c[k + 1]
    BY <2>1
  <2> QED
    BY <2>2, <2>3, <2>4
<1> HIDE DEF T
<1>3. T \in SUBSET Nat
  BY DEF T
<1>4. T = Nat
  BY <1>1, <1>2, <1>3, Induction
<1> QED
  BY <1>4 DEF T

\* One more digit.
LEMMA NumberOfAppend ==
    ASSUME NEW b \in Seq(DigitSet), NEW c \in DigitSet
    PROVE  NumberOf(Append(b, c)) = NumberOf(b) * Base + DigitValue(c)
<1> DEFINE d == Append(b, c)
           m == Len(b)
<1>1. /\ m \in Nat /\ Len(d) = m + 1 /\ d[m + 1] = c
      /\ \A i \in 1..m : b[i] = d[i]
  BY LenProperties, AppendProperties
<1> HIDE DEF d, m
<1>2. PICK g : Summed(b, m, g) /\ NumberOf(b) = g[m]
  BY <1>1, NumberOfIs DEF m
<1>3. Len(d) \in Nat /\ m + 1 \in Nat /\ m <= m + 1 /\ m + 1 \in 0..(m + 1) /\ m + 1 # 0
      /\ (m + 1) - 1 = m
  BY <1>1
<1>4. PICK h : Summed(d, m + 1, h) /\ NumberOf(d) = h[m + 1]
  BY <1>1, <1>3, NumberOfIs
<1>5. g[m] = h[m]
  BY <1>1, <1>2, <1>3, <1>4, SummedSame
<1>6. h[m + 1] = h[m] * Base + DigitValue(d[m + 1])
  BY <1>3, <1>4 DEF Summed
<1> QED
  BY <1>1, <1>2, <1>4, <1>5, <1>6 DEF d

LEMMA NumberOfNone == NumberOf(<<>>) = 0
<1>1. Len(<<>>) = 0
  BY EmptySeq
<1>2. PICK g : Summed(<<>>, 0, g) /\ NumberOf(<<>>) = g[0]
  BY <1>1, NumberOfIs
<1>3. 0 \in 0..0
  OBVIOUS
<1> QED
  BY <1>2, <1>3 DEF Summed

\* The digits are ten different bytes, and none is a sign.
LEMMA DigitsDiffer ==
    /\ \A i, j \in 1..10 : Digits[i] = Digits[j] => i = j
    /\ \A i \in 1..10 : Digits[i] # "-" /\ Digits[i] # "+"
BY DEF Digits

LEMMA DigitValueOf ==
    ASSUME NEW k \in 0..(Base - 1)
    PROVE  DigitValue(Digits[k + 1]) = k
<1>1. Base \in 2..10
  BY RespAssumption
<1>2. k + 1 \in 1..Base /\ k + 1 \in 1..10
  BY <1>1
<1> DEFINE i == CHOOSE i \in 1..Base : Digits[i] = Digits[k + 1]
<1>3. i \in 1..Base /\ Digits[i] = Digits[k + 1]
  BY <1>2
<1>4. DigitValue(Digits[k + 1]) = i - 1
  BY DEF DigitValue
<1> HIDE DEF i
<1>5. i \in 1..10
  BY <1>1, <1>3
<1>6. i = k + 1
  BY <1>2, <1>3, <1>5, DigitsDiffer
<1> QED
  BY <1>1, <1>4, <1>6

\* The digits of a number stand for it.
LEMMA DigitsRoundTrip ==
    ASSUME NEW n \in Nat
    PROVE  NumberOf(DigitsOf(n)) = n
<1>1. PICK g : Written(n, g) /\ DigitsOf(n) = g[n]
  BY DigitsOfIs
<1> DEFINE Good(k) == g[k] \in Seq(DigitSet) /\ NumberOf(g[k]) = k
           B == {k \in 0..n : ~ Good(k)}
<1>0. Base \in Nat /\ Base \in 2..10
  BY RespAssumption
<1>2. SUFFICES ASSUME B # {} PROVE FALSE
  BY <1>1
<1>3. B \in SUBSET Nat
  OBVIOUS
<1>4. PICK k \in B : \A j \in B : k <= j
  BY <1>2, <1>3, Smallest
<1>5. g[k] = IF k < Base THEN <<Digits[k + 1]>>
             ELSE Append(g[k \div Base], Digits[(k % Base) + 1])
  BY <1>1 DEF Written
<1>6. CASE k < Base
  <2>1. k + 1 \in 1..Base /\ k \in 0..(Base - 1) /\ k \in Nat
    BY <1>0, <1>6
  <2>2. Digits[k + 1] \in DigitSet /\ DigitValue(Digits[k + 1]) = k
    BY <2>1, DigitsAre, DigitValueOf
  <2> DEFINE e == Digits[k + 1]
  <2> HIDE DEF e
  <2>3. e \in DigitSet /\ DigitValue(e) = k /\ g[k] = <<e>>
    BY <1>5, <1>6, <2>2 DEF e
  <2>4. <<e>> \in Seq(DigitSet) /\ <<>> \in Seq(DigitSet) /\ <<e>> = Append(<<>>, e)
    BY <2>3
  <2>5. NumberOf(Append(<<>>, e)) = NumberOf(<<>>) * Base + DigitValue(e)
    BY <2>3, <2>4, NumberOfAppend
  <2>6. NumberOf(<<e>>) = k
    <3>1. NumberOf(<<e>>) = 0 * Base + k
      BY <2>3, <2>4, <2>5, NumberOfNone
    <3> QED
      BY <1>0, <2>1, <3>1
  <2> QED
    BY <2>3, <2>4, <2>6
<1>7. CASE ~ (k < Base)
  <2>0. k \in Nat /\ k <= n
    OBVIOUS
  <2>1. k \div Base \in 1..(k - 1) /\ k % Base \in 0..(Base - 1)
        /\ k = (k \div Base) * Base + (k % Base)
    BY <1>7, <2>0, DivBase
  <2> DEFINE q == k \div Base
             r == k % Base
             e == Digits[r + 1]
  <2>2. q \in 0..n /\ ~ (k <= q) /\ r + 1 \in 1..Base /\ r \in 0..(Base - 1)
    BY <1>0, <2>0, <2>1
  <2>3. g[q] \in Seq(DigitSet) /\ NumberOf(g[q]) = q
    BY <1>4, <2>2
  <2>4. g[k] = Append(g[q], e)
    BY <1>5, <1>7
  <2>7. k = q * Base + r
    BY <2>1
  <2> HIDE DEF q, r
  <2>5. e \in DigitSet /\ DigitValue(e) = r
    BY <2>2, DigitsAre, DigitValueOf
  <2> HIDE DEF e
  <2>6. Append(g[q], e) \in Seq(DigitSet)
        /\ NumberOf(Append(g[q], e)) = NumberOf(g[q]) * Base + DigitValue(e)
    BY <2>3, <2>5, NumberOfAppend, AppendProperties
  <2>8. NumberOf(g[k]) = k /\ g[k] \in Seq(DigitSet)
    BY <2>3, <2>4, <2>5, <2>6, <2>7
  <2> QED
    BY <2>8
<1> QED
  BY <1>6, <1>7

\* Lengths survive the encoder and the decoder: what encodeInt writes for an
\* integer, of either sign and any number of digits, decodeInt accepts and
\* reads back as that integer.
THEOREM IntRoundTrip == \A i \in Int : IsNumber(Itoa(i)) /\ Btoi64(Itoa(i)) = i
<1> SUFFICES ASSUME NEW i \in Int PROVE IsNumber(Itoa(i)) /\ Btoi64(Itoa(i)) = i
  OBVIOUS
<1> DEFINE n == IF i < 0 THEN -i ELSE i
           d == DigitsOf(n)
           b == Itoa(i)
<1>1. n \in Nat
  OBVIOUS
<1> HIDE DEF n
<1>2. d \in Seq(DigitSet) /\ d # <<>> /\ NumberOf(d) = n
  BY <1>1, DigitsOfTyped, DigitsRoundTrip
<1>3. b = IF i < 0 THEN <<"-">> \o d ELSE d
  BY DEF Itoa, n
<1> HIDE DEF d, b
<1>4. Len(d) \in Nat \ {0} /\ \A j \in 1..Len(d) : d[j] \in DigitSet
  <2>1. Len(d) \in Nat /\ Len(d) # 0
    BY <1>2, LenProperties, EmptySeq
  <2> QED
    BY <1>2, <2>1, ElementOfSeq
<1>5. \A e \in DigitSet : e # "-" /\ e # "+"
  <2>1. \A j \in 1..Base : j \in 1..10
    BY RespAssumption
  <2> QED
    BY <2>1, DigitsDiffer DEF DigitSet
<1>6. Unsigned(b) = d /\ (b[1] = "-" <=> i < 0)
  <2>1. CASE i < 0
    <3>1. b = <<"-">> \o d
      BY <1>3, <2>1
    <3> DEFINE S == DigitSet \cup {"-"}
    <3>2. d \in Seq(S) /\ <<"-">> \in Seq(S) /\ Len(<<"-">>) = 1 /\ <<"-">>[1] = "-"
      <4>1. DigitSet \subseteq S /\ "-" \in S
        OBVIOUS
      <4> HIDE DEF S
      <4>2. d \in Seq(S)
        BY <1>2, <4>1, SeqMonotonic
      <4> QED
        BY <4>1, <4>2, OneByte
    <3> HIDE DEF S
    <3>3. b \in Seq(S) /\ Len(b) = 1 + Len(d) /\ b[1] = "-"
          /\ SubSeq(b, 1 + 1, Len(b)) = d
      <4>1. /\ <<"-">> \o d \in Seq(S) /\ Len(<<"-">> \o d) = Len(<<"-">>) + Len(d)
            /\ SubSeq(<<"-">> \o d, Len(<<"-">>) + 1, Len(<<"-">> \o d)) = d
        BY <3>2, PartsOfConcat
      <4>2. 1 \in 1..(Len(<<"-">>) + Len(d)) /\ 1 <= Len(<<"-">>)
        BY <1>4, <3>2
      <4>3. (<<"-">> \o d)[1] = <<"-">>[1]
        BY <3>2, <4>2, ConcatProperties
      <4> QED
        BY <3>1, <3>2, <4>1, <4>3
    <3>4. b # <<>> /\ Tail(b) = SubSeq(b, 2, Len(b))
      <4>1. Len(b) # 0
        BY <1>4, <3>3
      <4>2. b # <<>>
        BY <4>1, EmptySeq
      <4> QED
        BY <3>3, <4>2
    <3>5. 1 + 1 = 2
      OBVIOUS
    <3> QED
      BY <2>1, <3>3, <3>4, <3>5 DEF Unsigned
  <2>2. CASE ~ (i < 0)
    <3>1. b = d /\ 1 \in 1..Len(d)
      BY <1>3, <1>4, <2>2
    <3>2. b[1] # "-" /\ b[1] # "+"
      BY <1>4, <1>5, <3>1
    <3> QED
      BY <2>2, <3>1, <3>2 DEF Unsigned
  <2> QED
    BY <2>1, <2>2
<1>7. IsNumber(b)
  <2>1. DOMAIN d = 1..Len(d)
    BY <1>2, LenProperties
  <2> QED
    BY <1>2, <1>4, <1>6, <2>1 DEF IsNumber, DigitSet
<1>8. Btoi64(b) = i
  <2>1. Btoi64(b) = IF i < 0 THEN -n ELSE n
    BY <1>2, <1>6 DEF Btoi64
  <2> QED
    BY <2>1 DEF n
<1> QED
  BY <1>7, <1>8 DEF b

-----------------------------------------------------------------------------
(* Encoding *)

LEMMA TwoOf ==
    ASSUME NEW S, NEW e \in S, NEW f \in S
    PROVE  <<e, f>> \in Seq(S) /\ Len(<<e, f>>) = 2
OBVIOUS

LEMMA CRLFTyped == CRLF \in Bytes /\ Len(CRLF) = 2
BY BytesAre, TwoOf DEF CRLF, Bytes

LEMMA ValueIs ==
    ASSUME NEW r \in Values
    PROVE  /\ r.type \in Byte
           /\ r.val = Nil \/ r.val \in Bytes
           /\ r.arr = Nil \/ r.arr \in Seq(Values)
           /\ r.type \in TextTypes => r.val # Nil
BY CodecAssumption DEF Bytes

LEMMA CallIs ==
    ASSUME NEW o \in Writes, NEW b \in Bytes
    PROVE  Call(o, b) \in Tasks
BY DEF Call, Tasks, Bytes

LEMMA IntCallsTyped ==
    ASSUME NEW i \in Int
    PROVE  IntCalls(i) \in Seq(Tasks)
<1>1. Call("WriteString", Itoa(i)) \in Tasks /\ Call("WriteString", CRLF) \in Tasks
  BY ItoaTyped, CRLFTyped, CallIs DEF Writes
<1> QED
  BY <1>1, TwoOf DEF IntCalls

\* The calls of a value and the values within it.
LEMMA CallsTyped ==
    ASSUME NEW r \in Values
    PROVE  Calls(r) \in Seq(Tasks) /\ Calls(r) # <<>>
<1> DEFINE first == <<Call("WriteByte", <<r.type>>)>>
           text == <<Call("Write", r.val), Call("WriteString", CRLF)>>
           bad == <<[op |-> "badType"]>>
<1>1. first \in Seq(Tasks) /\ first # <<>>
  <2>1. <<r.type>> \in Bytes
    BY ValueIs, OneByte DEF Bytes
  <2>2. Call("WriteByte", <<r.type>>) \in Tasks
    BY <2>1, CallIs DEF Writes
  <2> QED
    BY <2>2, OneByte
<1>2. ASSUME r.type \in TextTypes PROVE text \in Seq(Tasks)
  <2>1. r.val \in Bytes
    BY <1>2, ValueIs
  <2>2. Call("Write", r.val) \in Tasks /\ Call("WriteString", CRLF) \in Tasks
    BY <2>1, CRLFTyped, CallIs DEF Writes
  <2> QED
    BY <2>2, TwoOf
<1>3. BulkCalls(r.val) \in Seq(Tasks)
  <2>1. CASE r.val = Nil
    BY <2>1, IntCallsTyped DEF BulkCalls
  <2>2. CASE r.val # Nil
    <3>1. r.val \in Bytes
      BY <2>2, ValueIs
    <3>2. Len(r.val) \in Int
      BY <3>1, LenProperties DEF Bytes
    <3>3. IntCalls(Len(r.val)) \in Seq(Tasks)
      BY <3>2, IntCallsTyped
    <3>4. Call("Write", r.val) \in Tasks /\ Call("WriteString", CRLF) \in Tasks
      BY <3>1, CRLFTyped, CallIs DEF Writes
    <3>5. text \in Seq(Tasks)
      BY <3>4, TwoOf
    <3> HIDE DEF text
    <3>6. IntCalls(Len(r.val)) \o text \in Seq(Tasks)
      BY <3>3, <3>5, ConcatProperties
    <3> QED
      BY <3>6, <2>2 DEF BulkCalls, text
  <2> QED
    BY <2>1, <2>2
<1>4. ArrayCalls(r.arr) \in Seq(Tasks)
  <2>1. CASE r.arr = Nil
    BY <2>1, IntCallsTyped DEF ArrayCalls
  <2>2. CASE r.arr # Nil
    <3> DEFINE elems == [i \in DOMAIN r.arr |-> [op |-> "encodeResp", r |-> r.arr[i]]]
    <3>1. r.arr \in Seq(Values)
      BY <2>2, ValueIs
    <3>2. Len(r.arr) \in Nat /\ DOMAIN r.arr = 1..Len(r.arr)
      BY <3>1, LenProperties
    <3>3. IntCalls(Len(r.arr)) \in Seq(Tasks)
      BY <3>2, IntCallsTyped
    <3>4. \A i \in 1..Len(r.arr) : [op |-> "encodeResp", r |-> r.arr[i]] \in Tasks
      <4>1. \A i \in 1..Len(r.arr) : r.arr[i] \in Values
        BY <3>1, ElementOfSeq
      <4> QED
        BY <4>1 DEF Tasks
    <3>5. elems \in Seq(Tasks)
      <4>1. elems \in [1..Len(r.arr) -> Tasks]
        BY <3>2, <3>4
      <4> HIDE DEF elems
      <4> QED
        BY <4>1, <3>2, FunctionIsSeq
    <3> HIDE DEF elems
    <3>6. IntCalls(Len(r.arr)) \o elems \in Seq(Tasks)
      BY <3>3, <3>5, ConcatProperties
    <3>7. ArrayCalls(r.arr) = IntCalls(Len(r.arr)) \o elems
      BY <2>2 DEF ArrayCalls, elems
    <3> QED
      BY <3>6, <3>7
  <2> QED
    BY <2>1, <2>2
<1>5. bad \in Seq(Tasks)
  <2>1. [op |-> "badType"] \in Tasks
    BY DEF Tasks
  <2> QED
    BY <2>1, OneByte
<1> HIDE DEF first, text, bad
<1>6. \E rest \in Seq(Tasks) : Calls(r) = first \o rest
  <2>1. CASE r.type \in TextTypes
    <3>1. Calls(r) = first \o text
      BY <2>1 DEF Calls, first, text, TextTypes
    <3> QED
      BY <3>1, <2>1, <1>2
  <2>2. CASE r.type = "$"
    <3>1. Calls(r) = first \o BulkCalls(r.val)
      BY <2>2 DEF Calls, first, TextTypes
    <3> QED
      BY <3>1, <1>3
  <2>3. CASE r.type = "*"
    <3>1. Calls(r) = first \o ArrayCalls(r.arr)
      BY <2>3 DEF Calls, first, TextTypes
    <3> QED
      BY <3>1, <1>4
  <2>4. CASE r.type \notin TextTypes \cup {"$", "*"}
    <3>1. Calls(r) = first \o bad
      BY <2>4 DEF Calls, first, bad, TextTypes
    <3> QED
      BY <3>1, <1>5
  <2> QED
    BY <2>1, <2>2, <2>3, <2>4
<1>7. PICK rest \in Seq(Tasks) : Calls(r) = first \o rest
  BY <1>6
<1>8. first \o rest \in Seq(Tasks) /\ Len(first \o rest) = Len(first) + Len(rest)
  BY <1>1, ConcatProperties
<1>9. Len(first) \in Nat /\ Len(rest) \in Nat /\ Len(first) # 0
  BY <1>1, LenProperties, EmptySeq
<1>10. Len(first \o rest) # 0
  BY <1>8, <1>9
<1> QED
  BY <1>7, <1>8, <1>10, EmptySeq

-----------------------------------------------------------------------------
(* RespStream has the operators of Resp under names of its own. *)

LEMMA SameBytes ==
    /\ Stream!CR = CR /\ Stream!LF = LF /\ Stream!CRLF = CRLF /\ Stream!TextTypes = TextTypes
    /\ Stream!Writes = Writes /\ Stream!Digits = Digits
BY DEF Stream!CR, CR, Stream!LF, LF, Stream!CRLF, CRLF, Stream!TextTypes, TextTypes,
       Stream!Writes, Writes, Stream!Digits, Digits

LEMMA SameValues ==
    ASSUME NEW t, NEW b
    PROVE  /\ Stream!Text(t, b) = Text(t, b) /\ Stream!Bulk(b) = Bulk(b)
           /\ Stream!Array(b) = Array(b)
BY DEF Stream!Text, Text, Stream!Bulk, Bulk, Stream!Array, Array

LEMMA SameLines ==
    ASSUME NEW b
    PROVE  /\ Stream!FirstLF(b) = FirstLF(b) /\ Stream!EndsInCRLF(b) = EndsInCRLF(b)
           /\ Stream!Chomp(b) = Chomp(b)
BY DEF Stream!FirstLF, FirstLF, Stream!EndsInCRLF, EndsInCRLF, Stream!Chomp, Chomp,
       Stream!CR, CR, Stream!LF, LF, Min, Stream!Min

LEMMA SameDigits ==
    ASSUME NEW n
    PROVE  Stream!DigitsOf(n) = DigitsOf(n)
BY DEF Stream!DigitsOf, DigitsOf, Stream!Digits, Digits

LEMMA SameNumbers ==
    ASSUME NEW b
    PROVE  Stream!NumberOf(b) = NumberOf(b)
BY DEF Stream!NumberOf, NumberOf, Stream!DigitValue, DigitValue, Stream!Digits, Digits

LEMMA SameWords ==
    ASSUME NEW b
    PROVE  Stream!Words(b) = Words(b)
BY DEF Stream!Words, Words, Stream!Space, Space, Stream!Min, Min,
       Stream!Cardinality, Cardinality

LEMMA SameInts ==
    ASSUME NEW b
    PROVE  /\ Stream!Itoa(b) = Itoa(b) /\ Stream!IsNumber(b) = IsNumber(b)
           /\ Stream!Btoi64(b) = Btoi64(b)
BY SameDigits, SameNumbers
   DEF Stream!Itoa, Itoa, Stream!IsNumber, IsNumber, Stream!Btoi64, Btoi64,
       Stream!Unsigned, Unsigned, Stream!Digits, Digits

LEMMA SameCalls ==
    ASSUME NEW r
    PROVE  Stream!Calls(r) = Calls(r)
BY SameInts
   DEF Stream!Calls, Calls, Stream!IntCalls, IntCalls, Stream!BulkCalls, BulkCalls,
       Stream!ArrayCalls, ArrayCalls, Stream!Call, Call, Stream!CRLF, CRLF,
       Stream!CR, CR, Stream!LF, LF, Stream!TextTypes, TextTypes

-----------------------------------------------------------------------------
(* The inductive invariant *)

\* The frames of the arrays being decoded; S has the elements they hold.
FrameSet(S) == [n : 1..MaxArrayLen, got : Seq(S), multi : BOOLEAN]

Framed(S) ==
    /\ frames \in Seq(FrameSet(S))
    /\ \A i \in 1..Len(frames) : Len(frames[i].got) < frames[i].n

BufferOK ==
    /\ buf \in Bytes /\ Len(buf) <= N /\ rpos \in 0..Len(buf)
    /\ rerr \in {"none", "eof", "io"}

DecoderOK ==
    /\ err \in {"none", "eof", "io", "bad"} /\ st \in Places
    /\ acc \in Bytes /\ need \in Nat /\ BodyLen <= MaxBulkBytesLen + 2

\* What the decoder has collected belongs to the line or bulk it reads; a
\* reader that has failed, under a decoder that has not, has used up the stream.
ReaderInv ==
    /\ st \notin {"text", "inline", "body"} => acc = <<>>
    /\ st \in {"text", "inline"} => NoLF(acc)
    /\ st # "body" => need = 0
    /\ err # "none" => st = "idle"
    /\ rerr # "none" /\ err = "none" =>
          /\ rerr = "eof" /\ closed /\ wire = <<>> /\ rpos = Len(buf)
          /\ st \in {"body", "ret", "idle", "peek", "type"} /\ need = 0

\* Once it is closed, or all that was encoded is flushed, the writer holds
\* nothing back.
WriterInv ==
    /\ closed \/ werr # "none" => todo = <<>>
    /\ todo = <<>> /\ werr = "none" /\ (closed \/ nbuffered = 0) => wbuf = <<>>

Shared == wire \in Bytes /\ closed \in BOOLEAN /\ multi \in BOOLEAN

ReaderOK == BufferOK /\ DecoderOK /\ (\E S : Framed(S)) /\ ReaderInv

Inv == Shared /\ ReaderOK /\ WriterTypeOK /\ WriterInv

LEMMA FramedIs ==
    ASSUME NEW S, Framed(S)
    PROVE  \A i \in DOMAIN frames :
              frames[i].n \in 1..MaxArrayLen /\ Len(frames[i].got) < frames[i].n
<1>1. DOMAIN frames = 1..Len(frames) /\ \A i \in 1..Len(frames) : frames[i] \in FrameSet(S)
  BY ElementOfSeq, LenProperties DEF Framed
<1> QED
  BY <1>1 DEF Framed, FrameSet

LEMMA InvTypeOK == Inv => TypeOK
BY FramedIs
   DEF Inv, Shared, ReaderOK, BufferOK, DecoderOK, TypeOK, ReaderTypeOK, Bytes

LEMMA InitInv == Init => Inv
<1> SUFFICES ASSUME Init PROVE Inv
  OBVIOUS
<1>1. <<>> \in Bytes /\ Len(<<>>) = 0 /\ <<>> \in Seq(Tasks) /\ <<>> \in Seq(Values)
  BY EmptySeq DEF Bytes
<1>2. Shared
  BY <1>1, CodecAssumption DEF Init, Shared, Bytes
<1>3. BufferOK /\ ReaderInv
  BY <1>1, ReaderAssumption DEF Init, ReaderInit, BufferOK, ReaderInv
<1>4. DecoderOK
  BY <1>1, ReaderAssumption DEF Init, ReaderInit, DecoderOK, Places, BodyLen
<1>5. Framed({})
  <2>1. frames = <<>> /\ <<>> \in Seq(FrameSet({})) /\ Len(<<>>) = 0
    BY EmptySeq DEF Init, ReaderInit
  <2> QED
    BY <2>1 DEF Framed
<1>6. WriterTypeOK
  <2>1. pend \in Seq(Values)
    BY <1>1, CodecAssumption DEF Init
  <2> QED
    BY <2>1, <1>1, WriterAssumption DEF Init, WriterInit, WriterTypeOK, Bytes
<1>7. WriterInv
  BY DEF Init, WriterInit, WriterInv
<1> QED
  BY <1>2, <1>3, <1>4, <1>5, <1>6, <1>7 DEF Inv, ReaderOK

\* The bytes in the buffer of the reader.
LEMMA WindowIs ==
    ASSUME BufferOK
    PROVE  /\ Window \in Bytes /\ Len(Window) = Buffered /\ Buffered \in 0..N
           /\ \A i \in 1..Buffered : Window[i] = buf[rpos + i]
<1>1. rpos \in Nat /\ Len(buf) \in Nat /\ rpos <= Len(buf) /\ Len(buf) <= N /\ N \in Nat
  BY ReaderAssumption, LenProperties DEF BufferOK, Bytes
<1>2. /\ SubSeq(buf, rpos + 1, Len(buf)) \in Seq(Byte)
      /\ Len(SubSeq(buf, rpos + 1, Len(buf))) = Len(buf) - rpos
      /\ \A i \in 1..(Len(buf) - rpos) : SubSeq(buf, rpos + 1, Len(buf))[i] = buf[rpos + i]
  BY <1>1, PartIs DEF BufferOK, Bytes
<1> QED
  BY <1>1, <1>2 DEF Window, Buffered, Bytes

LEMMA EmptyBytes == <<>> \in Bytes /\ Len(<<>>) = 0 /\ NoLF(<<>>)
BY EmptySeq DEF Bytes, NoLF

\* An error leaves the decoder idle.
LEMMA FailKeeps ==
    ASSUME Inv, NEW e \in {"eof", "io", "bad"}, Fail(e)
    PROVE  DecoderOK' /\ (\E S : Framed(S)') /\ ReaderInv'
<1>1. DecoderOK'
  BY EmptyBytes, ReaderAssumption DEF Fail, DecoderOK, Places, BodyLen
<1>2. Framed({})'
  BY EmptySeq DEF Fail, Framed
<1>3. ReaderInv'
  BY DEF Fail, ReaderInv
<1> QED
  BY <1>1, <1>2, <1>3

\* A reader that works goes on to read s, with what it has collected.
LEMMA FramesSame ==
    ASSUME Inv, UNCHANGED frames
    PROVE  \E S : Framed(S)'
<1>1. PICK S : Framed(S)
  BY DEF Inv, ReaderOK
<1>2. Framed(S)'
  BY <1>1 DEF Framed
<1> QED
  BY <1>2

LEMMA ReturnKeeps ==
    ASSUME Inv, NEW v, Return(v), UNCHANGED <<closed, wire, buf, rerr>>,
           rerr # "none" => UNCHANGED rpos, st # "idle"
    PROVE  DecoderOK' /\ (\E S : Framed(S)') /\ ReaderInv'
<1>1. DecoderOK'
  BY EmptyBytes, ReaderAssumption DEF Return, Inv, ReaderOK, DecoderOK, Places, BodyLen
<1>2. \E S : Framed(S)'
  BY FramesSame DEF Return
<1>3. ReaderInv'
  <2>1. ReaderInv /\ (err # "none" => st = "idle")
    BY DEF Inv, ReaderOK, ReaderInv
  <2> QED
    BY <2>1 DEF Return, ReaderInv
<1> QED
  BY <1>1, <1>2, <1>3

-----------------------------------------------------------------------------
(* The steps of the reader and decoder preserve it *)

ReaderKept == wire' \in Bytes /\ ReaderOK'

\* Bytes leave the connection.
LEMMA WireCut ==
    ASSUME Shared, NEW n \in Nat, n <= Len(wire)
    PROVE  /\ SubSeq(wire, 1, n) \in Bytes /\ Len(SubSeq(wire, 1, n)) = n
           /\ SubSeq(wire, n + 1, Len(wire)) \in Bytes
           /\ SubSeq(wire, 1, n) \o SubSeq(wire, n + 1, Len(wire)) = wire
<1>1. wire \in Seq(Byte)
  BY DEF Shared, Bytes
<1> QED
  BY <1>1, CutIs DEF Bytes

LEMMA FillKeeps ==
    ASSUME Inv, NEW n \in 1..N, Fill(n), UNCHANGED closed
    PROVE  ReaderKept
<1>1. /\ Shared /\ BufferOK /\ rerr = "none" /\ UNCHANGED rerr /\ UNCHANGED frames
      /\ buf' = Window \o SubSeq(wire, 1, n) /\ rpos' = 0
      /\ wire' = SubSeq(wire, n + 1, Len(wire))
      /\ n \in Nat /\ n <= Len(wire) /\ n <= N - Buffered /\ N \in Nat
  BY ReaderAssumption DEF Inv, ReaderOK, Fill, NeedsFill, decoderVars
<1>2. wire' \in Bytes /\ SubSeq(wire, 1, n) \in Bytes /\ Len(SubSeq(wire, 1, n)) = n
  BY <1>1, WireCut
<1>3. BufferOK'
  <2>1. Window \in Bytes /\ Len(Window) = Buffered /\ Buffered \in 0..N
    BY <1>1, WindowIs
  <2>2. buf' \in Bytes /\ Len(buf') = Buffered + n
    BY <1>1, <1>2, <2>1, ConcatProperties DEF Bytes
  <2>3. Len(buf') \in Nat /\ Len(buf') <= N /\ 0 \in 0..Len(buf')
    BY <1>1, <2>1, <2>2
  <2> QED
    BY <1>1, <2>2, <2>3 DEF BufferOK
<1>4. DecoderOK' /\ ReaderInv'
  <2>1. UNCHANGED decoderVars
    BY DEF Fill
  <2> QED
    BY <1>1, <2>1 DEF Inv, ReaderOK, DecoderOK, BodyLen, ReaderInv, decoderVars
<1>5. \E S : Framed(S)'
  BY <1>1, FramesSame
<1> QED
  BY <1>2, <1>3, <1>4, <1>5 DEF ReaderKept, ReaderOK

LEMMA DirectReadKeeps ==
    ASSUME Inv, NEW n \in Nat, DirectRead(n), UNCHANGED closed
    PROVE  ReaderKept
<1>1. /\ Shared /\ BufferOK /\ rerr = "none" /\ UNCHANGED <<rerr, buf, rpos, frames, st, err>>
      /\ st = "body" /\ acc \in Bytes /\ acc' = acc \o SubSeq(wire, 1, n)
      /\ wire' = SubSeq(wire, n + 1, Len(wire))
      /\ n <= Len(wire) /\ n <= need /\ need' = need - n /\ need \in Nat
  BY DEF Inv, ReaderOK, DirectRead, NeedsDirect, DecoderOK
<1>2. wire' \in Bytes /\ SubSeq(wire, 1, n) \in Bytes /\ Len(SubSeq(wire, 1, n)) = n
  BY <1>1, WireCut
<1>3. BufferOK'
  BY <1>1 DEF BufferOK
<1>4. acc' \in Bytes /\ Len(acc') = Len(acc) + n /\ Len(acc) \in Nat
  BY <1>1, <1>2, ConcatProperties, LenProperties DEF Bytes
<1>5. DecoderOK'
  <2>1. Len(acc') + need' = Len(acc) + need /\ need' \in Nat
    BY <1>1, <1>4
  <2> QED
    BY <1>1, <1>4, <2>1 DEF Inv, ReaderOK, DecoderOK, BodyLen
<1>6. ReaderInv'
  BY <1>1 DEF Inv, ReaderOK, ReaderInv
<1>7. \E S : Framed(S)'
  BY <1>1, FramesSame
<1> QED
  BY <1>2, <1>3, <1>5, <1>6, <1>7 DEF ReaderKept, ReaderOK

LEMMA ReadFailsKeeps ==
    ASSUME Inv, NEW e \in {"eof", "io"}, ReadFails(e)
    PROVE  ReaderKept
<1>1. Shared /\ BufferOK /\ Fail(e) /\ rerr' = e /\ UNCHANGED wire
  BY DEF Inv, ReaderOK, ReadFails
<1>2. \/ buf' = buf /\ rpos' = rpos
      \/ buf' = Window /\ rpos' = 0
  BY DEF ReadFails
<1>3. Window \in Bytes /\ Len(Window) \in 0..N
  BY <1>1, WindowIs
<1>4. BufferOK'
  BY <1>1, <1>2, <1>3, ReaderAssumption DEF BufferOK
<1>5. DecoderOK' /\ (\E S : Framed(S)') /\ ReaderInv'
  BY <1>1, FailKeeps
<1> QED
  BY <1>1, <1>4, <1>5 DEF ReaderKept, ReaderOK, Shared

LEMMA ReadsLastKeeps ==
    ASSUME Inv, ReadsLast, UNCHANGED closed
    PROVE  ReaderKept
<1>1. Shared /\ BufferOK /\ rerr' = "eof" /\ wire' = <<>> /\ closed /\ rerr = "none"
  BY DEF Inv, ReaderOK, ReadsLast, NeedsFill, NeedsDirect
<1>2. wire' \in Bytes
  BY <1>1, EmptyBytes
<1>3. CASE buf' = Window /\ rpos' = 0 /\ Fail("eof")
  <2>1. Window \in Bytes /\ Len(Window) \in 0..N
    BY <1>1, WindowIs
  <2>2. BufferOK'
    BY <1>1, <1>3, <2>1, ReaderAssumption DEF BufferOK
  <2>3. DecoderOK' /\ (\E S : Framed(S)') /\ ReaderInv'
    BY <1>3, FailKeeps
  <2> QED
    BY <1>2, <2>2, <2>3 DEF ReaderKept, ReaderOK
<1>4. CASE UNCHANGED <<buf, rpos>> /\ Fail("eof")
  <2>1. BufferOK'
    BY <1>1, <1>4 DEF BufferOK
  <2>2. DecoderOK' /\ (\E S : Framed(S)') /\ ReaderInv'
    BY <1>4, FailKeeps
  <2> QED
    BY <1>2, <2>1, <2>2 DEF ReaderKept, ReaderOK
<1>5. CASE /\ NeedsDirect /\ Len(wire) <= need /\ ~ (Len(wire) < need)
           /\ acc' = acc \o wire /\ need' = 0
           /\ UNCHANGED <<st, typ, frames, ret, err, out>>
           /\ UNCHANGED <<buf, rpos, dropped>>
  <2>1. st = "body" /\ acc \in Bytes /\ wire \in Bytes /\ need \in Nat /\ Len(wire) = need
        /\ Len(buf) - rpos = 0 /\ Len(buf) \in Nat /\ rpos \in Nat
    <3>1. wire \in Bytes /\ Len(wire) \in Nat /\ Len(buf) \in Nat
      BY <1>1, LenProperties DEF Shared, BufferOK, Bytes
    <3> QED
      BY <1>1, <1>5, <3>1 DEF Inv, ReaderOK, DecoderOK, BufferOK, NeedsDirect, Buffered
  <2>2. acc' \in Bytes /\ Len(acc') = Len(acc) + Len(wire) /\ Len(acc) \in Nat
    BY <1>5, <2>1, ConcatProperties, LenProperties DEF Bytes
  <2>3. BufferOK'
    BY <1>1, <1>5 DEF BufferOK
  <2>4. DecoderOK'
    <3>1. Len(acc') + need' = Len(acc) + need
      BY <1>5, <2>1, <2>2
    <3> QED
      BY <1>5, <2>1, <2>2, <3>1 DEF Inv, ReaderOK, DecoderOK, BodyLen
  <2>5. rpos = Len(buf)
    BY <2>1
  <2>6. ReaderInv'
    BY <1>1, <1>5, <2>1, <2>5 DEF Inv, ReaderOK, ReaderInv
  <2>7. \E S : Framed(S)'
    BY <1>5, FramesSame
  <2> QED
    BY <1>2, <2>3, <2>4, <2>6, <2>7 DEF ReaderKept, ReaderOK
<1> QED
  BY <1>3, <1>4, <1>5 DEF ReadsLast

\* The decoder goes on to read something else.
LEMMA EnterKeeps ==
    ASSUME Inv, st \notin {"text", "inline", "body"}, err = "none",
           NEW s \in {"peek", "type", "text", "inline", "bulklen", "arraylen", "multilen"},
           Enter(s), UNCHANGED <<closed, wire, buf, rerr>>,
           rerr # "none" => UNCHANGED rpos /\ s \in {"peek", "type"}
    PROVE  DecoderOK' /\ (\E S : Framed(S)') /\ ReaderInv'
<1>1. ReaderInv /\ DecoderOK /\ acc = <<>> /\ need = 0
  BY DEF Inv, ReaderOK, ReaderInv
<1>2. DecoderOK'
  BY <1>1, ReaderAssumption DEF Enter, DecoderOK, Places, BodyLen
<1>3. \E S : Framed(S)'
  BY FramesSame DEF Enter
<1>4. ReaderInv'
  BY <1>1, EmptyBytes DEF Enter, ReaderInv
<1> QED
  BY <1>2, <1>3, <1>4

LEMMA DecodeKeeps ==
    ASSUME Inv, Decode, UNCHANGED closed
    PROVE  ReaderKept
<1>1. /\ Shared /\ BufferOK /\ st = "idle" /\ err = "none"
      /\ Enter(IF multi THEN "peek" ELSE "type") /\ UNCHANGED <<buf, rpos, rerr, wire>>
  BY DEF Inv, ReaderOK, Decode
<1>2. DecoderOK' /\ (\E S : Framed(S)') /\ ReaderInv'
  BY <1>1, EnterKeeps
<1> QED
  BY <1>1, <1>2 DEF ReaderKept, ReaderOK, BufferOK, Shared

LEMMA ReaderFailedKeeps ==
    ASSUME Inv, ReaderFailed
    PROVE  ReaderKept
<1>1. /\ Shared /\ BufferOK /\ rerr \in {"eof", "io"} /\ Fail(rerr)
      /\ UNCHANGED <<buf, rpos, rerr, wire>>
  BY DEF Inv, ReaderOK, BufferOK, ReaderFailed
<1>2. DecoderOK' /\ (\E S : Framed(S)') /\ ReaderInv'
  BY <1>1, FailKeeps
<1> QED
  BY <1>1, <1>2 DEF ReaderKept, ReaderOK, BufferOK, Shared

\* The next line is in the buffer.
LEMMA IndexIs ==
    ASSUME BufferOK
    PROVE  /\ IndexByte \in 0..Buffered /\ (IndexByte = 0 <=> NoLF(Window))
           /\ rpos + IndexByte \in 0..Len(buf)
           /\ SubSeq(buf, rpos + 1, rpos + IndexByte) \in Bytes
           /\ Len(SubSeq(buf, rpos + 1, rpos + IndexByte)) = IndexByte
<1>1. Window \in Bytes /\ Len(Window) = Buffered /\ Buffered \in Nat
  BY WindowIs
<1>2. IndexByte \in 0..Buffered /\ (IndexByte = 0 <=> NoLF(Window))
  BY <1>1, FirstLFIs DEF IndexByte
<1>3. rpos \in Nat /\ Len(buf) \in Nat /\ rpos <= Len(buf)
  BY LenProperties DEF BufferOK, Bytes
<1>4. rpos + IndexByte \in Nat /\ rpos <= rpos + IndexByte /\ rpos + IndexByte <= Len(buf)
      /\ (rpos + IndexByte) - rpos = IndexByte
  BY <1>2, <1>3 DEF Buffered
<1>5. /\ SubSeq(buf, rpos + 1, rpos + IndexByte) \in Seq(Byte)
      /\ Len(SubSeq(buf, rpos + 1, rpos + IndexByte)) = (rpos + IndexByte) - rpos
  BY <1>3, <1>4, PartIs DEF BufferOK, Bytes
<1> QED
  BY <1>2, <1>3, <1>4, <1>5 DEF Bytes

\* Bytes of the buffer are used.
LEMMA UseBuffer ==
    ASSUME Inv, NEW k \in 0..Buffered, rpos' = rpos + k, UNCHANGED <<buf, rerr, wire>>
    PROVE  BufferOK' /\ wire' \in Bytes
<1>1. BufferOK /\ wire \in Bytes
  BY DEF Inv, ReaderOK, Shared
<1>2. rpos \in Nat /\ Len(buf) \in Nat /\ rpos <= Len(buf) /\ Buffered = Len(buf) - rpos
  BY <1>1, LenProperties DEF BufferOK, Bytes, Buffered
<1>3. rpos' \in 0..Len(buf)
  BY <1>2
<1> QED
  BY <1>1, <1>3 DEF BufferOK

LEMMA PeekByteKeeps ==
    ASSUME Inv, PeekByte, UNCHANGED closed
    PROVE  ReaderKept
<1>1. /\ st = "peek" /\ rerr = "none" /\ 0 < Buffered /\ BufferOK
      /\ UNCHANGED <<buf, rerr, typ, dropped, wire>>
      /\ \/ rpos' = rpos + 1 /\ Enter("multilen")
         \/ rpos' = rpos /\ Enter("inline")
  BY DEF PeekByte, Inv, ReaderOK
<1>2. err = "none"
  BY <1>1 DEF Inv, ReaderOK, ReaderInv
<1>3. DecoderOK' /\ (\E S : Framed(S)') /\ ReaderInv'
  BY <1>1, <1>2, EnterKeeps
<1>4. Buffered \in Nat /\ rpos \in Nat
  BY <1>1, WindowIs DEF BufferOK
<1>5. rpos' = rpos + 1 \/ rpos' = rpos + 0
  BY <1>1, <1>4
<1>6. 0 \in 0..Buffered /\ 1 \in 0..Buffered
  BY <1>1, <1>4
<1>7. BufferOK' /\ wire' \in Bytes
  BY <1>1, <1>5, <1>6, UseBuffer
<1> QED
  BY <1>3, <1>7 DEF ReaderKept, ReaderOK

LEMMA ReadTypeKeeps ==
    ASSUME Inv, ReadType, UNCHANGED closed
    PROVE  ReaderKept
<1>1. /\ st = "type" /\ rerr = "none" /\ 0 < Buffered /\ BufferOK /\ rpos' = rpos + 1
      /\ UNCHANGED <<buf, rerr, dropped, wire>>
      /\ Enter("text") \/ Enter("bulklen") \/ Enter("arraylen") \/ Fail("bad")
  BY DEF ReadType, Inv, ReaderOK
<1>2. err = "none"
  BY <1>1 DEF Inv, ReaderOK, ReaderInv
<1>3. DecoderOK' /\ (\E S : Framed(S)') /\ ReaderInv'
  BY <1>1, <1>2, EnterKeeps, FailKeeps
<1>4. Buffered \in Nat
  BY <1>1, WindowIs
<1>5. 1 \in 0..Buffered
  BY <1>1, <1>4
<1>6. BufferOK' /\ wire' \in Bytes
  BY <1>1, <1>5, UseBuffer
<1> QED
  BY <1>3, <1>6 DEF ReaderKept, ReaderOK

LEMMA ReadTextKeeps ==
    ASSUME Inv, ReadText, UNCHANGED closed
    PROVE  ReaderKept
<1>1. /\ st \in {"text", "inline"} /\ rerr = "none" /\ BufferOK
      /\ UNCHANGED <<buf, rerr, dropped, wire>>
  BY DEF ReadText, Inv, ReaderOK
<1>2. err = "none" /\ NoLF(acc) /\ acc \in Bytes
  BY <1>1 DEF Inv, ReaderOK, ReaderInv, DecoderOK
<1>3. CASE IndexByte > 0
  <2>1. rpos' = rpos + IndexByte
    BY <1>3 DEF ReadText
  <2>2. (\E v : Return(v)) \/ Fail("bad")
    BY <1>3 DEF ReadText, DecodeText, DecodeInline
  <2>3. DecoderOK' /\ (\E S : Framed(S)') /\ ReaderInv'
    BY <1>1, <2>2, FailKeeps, ReturnKeeps
  <2>4. IndexByte \in 0..Buffered
    BY <1>1, IndexIs
  <2>5. BufferOK' /\ wire' \in Bytes
    BY <1>1, <2>1, <2>4, UseBuffer
  <2> QED
    BY <2>3, <2>5 DEF ReaderKept, ReaderOK
<1>4. CASE ~ (IndexByte > 0)
  <2>1. acc' = acc \o Window /\ rpos' = Len(buf)
        /\ UNCHANGED <<st, typ, need, frames, ret, err, out>>
    BY <1>4 DEF ReadText
  <2>2. Window \in Bytes /\ NoLF(Window)
    <3>1. Window \in Bytes /\ Buffered \in Nat
      BY <1>1, WindowIs
    <3>2. IndexByte \in 0..Buffered /\ (IndexByte = 0 <=> NoLF(Window))
      BY <1>1, IndexIs
    <3>3. IndexByte = 0
      BY <3>1, <3>2, <1>4
    <3> QED
      BY <3>1, <3>2, <3>3
  <2>3. acc' \in Bytes /\ NoLF(acc')
    BY <1>2, <2>1, <2>2, NoLFConcat, ConcatProperties DEF Bytes
  <2>4. DecoderOK'
    BY <1>1, <2>1, <2>3, ReaderAssumption DEF Inv, ReaderOK, DecoderOK, BodyLen
  <2>5. ReaderInv'
    BY <1>1, <1>2, <2>1, <2>3 DEF Inv, ReaderOK, ReaderInv
  <2>6. \E S : Framed(S)'
    BY <2>1, FramesSame
  <2>7. BufferOK' /\ wire' \in Bytes
    <3>1. Len(buf) \in Nat
      BY <1>1, LenProperties DEF BufferOK, Bytes
    <3> QED
      BY <1>1, <2>1, <3>1 DEF Inv, Shared, BufferOK
  <2> QED
    BY <2>4, <2>5, <2>6, <2>7 DEF ReaderKept, ReaderOK
<1> QED
  BY <1>3, <1>4

\* A frame is added.
LEMMA FramesAppend ==
    ASSUME NEW S, NEW fs \in Seq(FrameSet(S)), NEW f \in FrameSet(S), frames' = Append(fs, f),
           Len(f.got) < f.n, \A i \in 1..Len(fs) : Len(fs[i].got) < fs[i].n
    PROVE  Framed(S)'
<1>1. /\ Append(fs, f) \in Seq(FrameSet(S)) /\ Len(Append(fs, f)) = Len(fs) + 1
      /\ \A i \in 1..Len(fs) : Append(fs, f)[i] = fs[i]
      /\ Append(fs, f)[Len(fs) + 1] = f
  BY AppendProperties
<1>2. Len(fs) \in Nat
  BY LenProperties
<1>3. ASSUME NEW i \in 1..(Len(fs) + 1)
      PROVE  Len(Append(fs, f)[i].got) < Append(fs, f)[i].n
  <2>1. i \in 1..Len(fs) \/ i = Len(fs) + 1
    BY <1>2
  <2> QED
    BY <1>1, <2>1
<1> QED
  BY <1>1, <1>3 DEF Framed

LEMMA ChompTyped ==
    ASSUME NEW line \in Bytes, EndsInCRLF(line)
    PROVE  Chomp(line) \in Bytes /\ Len(Chomp(line)) = Len(line) - 2
<1>1. Len(line) - 2 \in Nat /\ Len(line) - 2 <= Len(line)
  BY LenProperties DEF EndsInCRLF, Bytes
<1> QED
  BY <1>1, CutIs DEF Chomp, Bytes

\* An array is opened.
Opens(n) ==
    /\ n \in 1..MaxArrayLen
    /\ \/ frames' = Append(frames, [n |-> n, got |-> <<>>, multi |-> FALSE])
       \/ frames' = Append(frames, [n |-> n, got |-> <<>>, multi |-> TRUE])
    /\ st' = "type" /\ typ' = Nil
    /\ UNCHANGED <<acc, need, ret, err, out>>

LEMMA OpenArrayKeeps ==
    ASSUME Inv, st \notin {"text", "inline", "body", "idle"}, rerr = "none", UNCHANGED rerr,
           NEW n, Opens(n)
    PROVE  DecoderOK' /\ (\E S : Framed(S)') /\ ReaderInv'
<1>1. ReaderInv /\ DecoderOK /\ acc = <<>> /\ need = 0 /\ err = "none"
  BY DEF Inv, ReaderOK, ReaderInv
<1>2. DecoderOK'
  BY <1>1, ReaderAssumption DEF Opens, DecoderOK, Places, BodyLen
<1>3. ReaderInv'
  BY <1>1 DEF Opens, ReaderInv
<1>4. PICK S : Framed(S)
  BY DEF Inv, ReaderOK
<1> DEFINE f(m) == [n |-> n, got |-> <<>>, multi |-> m]
<1>5. /\ f(FALSE) \in FrameSet(S) /\ f(TRUE) \in FrameSet(S)
      /\ Len(f(FALSE).got) < f(FALSE).n /\ Len(f(TRUE).got) < f(TRUE).n
  <2>1. <<>> \in Seq(S) /\ Len(<<>>) = 0 /\ 0 < n
    BY EmptySeq, ReaderAssumption DEF Opens
  <2> QED
    BY <2>1 DEF FrameSet, Opens
<1>6. PICK g \in FrameSet(S) : frames' = Append(frames, g) /\ Len(g.got) < g.n
  BY <1>5 DEF Opens
<1>7. Framed(S)'
  BY <1>4, <1>6, FramesAppend DEF Framed
<1> QED
  BY <1>2, <1>3, <1>7

LEMMA ReadIntKeeps ==
    ASSUME Inv, ReadInt, UNCHANGED closed
    PROVE  ReaderKept
<1>1. /\ st \in {"bulklen", "arraylen", "multilen"} /\ rerr = "none" /\ BufferOK
      /\ UNCHANGED <<buf, rerr, dropped, wire>>
  BY DEF ReadInt, Inv, ReaderOK
<1>2. err = "none" /\ acc = <<>> /\ need = 0 /\ ReaderInv /\ DecoderOK
  BY <1>1 DEF Inv, ReaderOK, ReaderInv
<1>3. CASE IndexByte > 0
  <2> DEFINE line == SubSeq(buf, rpos + 1, rpos + IndexByte)
             n == Btoi64(Chomp(line))
  <2>1. rpos' = rpos + IndexByte
    BY <1>3 DEF ReadInt
  <2>2. IndexByte \in 0..Buffered /\ line \in Bytes
    BY <1>1, IndexIs
  <2>3. BufferOK' /\ wire' \in Bytes
    BY <1>1, <2>1, <2>2, UseBuffer
  <2>4. CASE ~EndsInCRLF(line) \/ ~IsNumber(Chomp(line))
    <3>1. Fail("bad")
      BY <1>3, <2>4 DEF ReadInt
    <3> QED
      BY <2>3, <3>1, FailKeeps DEF ReaderKept, ReaderOK
  <2>5. CASE EndsInCRLF(line) /\ IsNumber(Chomp(line))
    <3>1. n \in Int
      <4>1. Chomp(line) \in Bytes
        BY <2>2, <2>5, ChompTyped
      <4> QED
        BY <4>1, <2>5, Btoi64Typed
    <3>2. \/ st = "bulklen" /\ BulkHeader(n)
          \/ st = "arraylen" /\ ArrayHeader(n)
          \/ st = "multilen" /\ MultiHeader(n)
      BY <1>1, <1>3, <2>5 DEF ReadInt
    <3> HIDE DEF n
    <3>3. \/ Fail("bad") \/ \E v : Return(v)
          \/ Opens(n)
          \/ /\ n \in 0..MaxBulkBytesLen /\ st' = "body" /\ need' = n + 2
             /\ UNCHANGED <<typ, acc, frames, ret, err, out>>
      <4>1. CASE st = "bulklen" /\ BulkHeader(n)
        <5>1. CASE n < -1 \/ n > MaxBulkBytesLen
          BY <4>1, <5>1, <3>1, ReaderAssumption DEF BulkHeader
        <5>2. CASE n = -1
          BY <4>1, <5>2, ReaderAssumption DEF BulkHeader
        <5>3. CASE n \in 0..MaxBulkBytesLen
          BY <4>1, <5>3, ReaderAssumption DEF BulkHeader
        <5> QED
          BY <3>1, <5>1, <5>2, <5>3, ReaderAssumption
      <4>2. CASE st = "arraylen" /\ ArrayHeader(n)
        <5>1. CASE n < -1 \/ n > MaxArrayLen
          BY <4>2, <5>1, <3>1, ReaderAssumption DEF ArrayHeader, OpenArray
        <5>2. CASE n = -1 \/ n = 0
          BY <4>2, <5>2, ReaderAssumption DEF ArrayHeader, OpenArray, Array
        <5>3. CASE n \in 1..MaxArrayLen
          <6>1. Opens(n)
            BY <4>2, <5>3, ReaderAssumption DEF ArrayHeader, OpenArray, Opens
          <6> QED
            BY <6>1
        <5> QED
          BY <3>1, <5>1, <5>2, <5>3, ReaderAssumption
      <4>3. CASE st = "multilen" /\ MultiHeader(n)
        <5>1. Fail("bad") \/ Opens(n)
          BY <3>1, <4>3, ReaderAssumption DEF MultiHeader, OpenArray, Opens
        <5> QED
          BY <5>1
      <4> QED
        BY <3>2, <4>1, <4>2, <4>3
    <3>4. CASE Fail("bad") \/ \E v : Return(v)
      BY <1>1, <2>3, <3>4, FailKeeps, ReturnKeeps DEF ReaderKept, ReaderOK
    <3>5. CASE Opens(n)
      BY <1>1, <2>3, <3>5, OpenArrayKeeps DEF ReaderKept, ReaderOK
    <3>6. CASE /\ n \in 0..MaxBulkBytesLen /\ st' = "body" /\ need' = n + 2
               /\ UNCHANGED <<typ, acc, frames, ret, err, out>>
      <4>1. Len(acc') = 0 /\ acc' \in Bytes
        BY <1>2, <3>6, EmptyBytes
      <4>2. need' \in Nat /\ 0 + need' <= MaxBulkBytesLen + 2
        BY <3>6, ReaderAssumption
      <4>3. DecoderOK'
        BY <1>2, <3>6, <4>1, <4>2 DEF DecoderOK, BodyLen, Places
      <4>4. ReaderInv'
        BY <1>1, <1>2, <3>6 DEF ReaderInv
      <4>5. \E S : Framed(S)'
        BY <3>6, FramesSame
      <4> QED
        BY <2>3, <4>3, <4>4, <4>5 DEF ReaderKept, ReaderOK
    <3> QED
      BY <3>3, <3>4, <3>5, <3>6
  <2> QED
    BY <2>4, <2>5
<1>4. CASE ~ (IndexByte > 0)
  <2>1. rpos' = Len(buf) /\ Fail("bad")
    BY <1>4 DEF ReadInt
  <2>2. BufferOK' /\ wire' \in Bytes
    <3>1. Len(buf) \in Nat
      BY <1>1, LenProperties DEF BufferOK, Bytes
    <3> QED
      BY <1>1, <2>1, <3>1 DEF Inv, Shared, BufferOK
  <2> QED
    BY <2>1, <2>2, FailKeeps DEF ReaderKept, ReaderOK
<1> QED
  BY <1>3, <1>4

LEMMA CopyBodyKeeps ==
    ASSUME Inv, CopyBody, UNCHANGED closed
    PROVE  ReaderKept
<1> DEFINE n == IF need < Buffered THEN need ELSE Buffered
<1>1. /\ st = "body" /\ 0 < need /\ 0 < Buffered /\ BufferOK /\ acc \in Bytes /\ need \in Nat
      /\ UNCHANGED <<buf, rerr, st, typ, frames, ret, err, out, dropped, wire>>
      /\ acc' = acc \o SubSeq(buf, rpos + 1, rpos + n)
      /\ need' = need - n /\ rpos' = rpos + n
  BY DEF CopyBody, Inv, ReaderOK, DecoderOK
<1>2. rerr = "none"
  BY <1>1 DEF Inv, ReaderOK, ReaderInv
<1>3. n \in 1..Buffered /\ n <= need /\ Buffered \in Nat
  BY <1>1, WindowIs
<1> HIDE DEF n
<1>4. BufferOK' /\ wire' \in Bytes
  <2>1. n \in 0..Buffered
    BY <1>3
  <2> QED
    BY <1>1, <2>1, UseBuffer
<1>5. SubSeq(buf, rpos + 1, rpos + n) \in Bytes /\ Len(SubSeq(buf, rpos + 1, rpos + n)) = n
  <2>1. rpos \in Nat /\ Len(buf) \in Nat /\ Buffered = Len(buf) - rpos
    BY <1>1, LenProperties DEF BufferOK, Bytes, Buffered
  <2>2. rpos + n \in Nat /\ rpos <= rpos + n /\ rpos + n <= Len(buf) /\ (rpos + n) - rpos = n
    BY <2>1, <1>3
  <2>3. /\ SubSeq(buf, rpos + 1, rpos + n) \in Seq(Byte)
        /\ Len(SubSeq(buf, rpos + 1, rpos + n)) = (rpos + n) - rpos
    BY <1>1, <2>1, <2>2, PartIs DEF BufferOK, Bytes
  <2> QED
    BY <2>2, <2>3 DEF Bytes
<1>6. acc' \in Bytes /\ Len(acc') = Len(acc) + n /\ Len(acc) \in Nat
  BY <1>1, <1>5, ConcatProperties, LenProperties DEF Bytes
<1>7. DecoderOK'
  <2>0. need' = need - n /\ need \in Nat /\ n \in Nat /\ n <= need
    BY <1>1, <1>3
  <2>1. Len(acc') + need' = Len(acc) + need /\ need' \in Nat
    BY <2>0, <1>6
  <2> QED
    BY <1>1, <1>6, <2>1 DEF Inv, ReaderOK, DecoderOK, BodyLen
<1>8. ReaderInv'
  BY <1>1, <1>2 DEF Inv, ReaderOK, ReaderInv
<1>9. \E S : Framed(S)'
  BY <1>1, FramesSame
<1> QED
  BY <1>4, <1>7, <1>8, <1>9 DEF ReaderKept, ReaderOK

LEMMA BodyDoneKeeps ==
    ASSUME Inv, BodyDone, UNCHANGED closed
    PROVE  ReaderKept
<1>1. st = "body" /\ UNCHANGED <<buf, rpos, rerr, wire>> /\ BufferOK /\ wire \in Bytes
  BY DEF BodyDone, Inv, ReaderOK, Shared
<1>2. (\E v : Return(v)) \/ Fail("bad")
  BY DEF BodyDone
<1>3. DecoderOK' /\ (\E S : Framed(S)') /\ ReaderInv'
  BY <1>1, <1>2, FailKeeps, ReturnKeeps
<1> QED
  BY <1>1, <1>3 DEF ReaderKept, ReaderOK, BufferOK

LEMMA FrontIs ==
    ASSUME NEW S, NEW s \in Seq(S), s # <<>>
    PROVE  /\ Front(s) \in Seq(S) /\ Len(Front(s)) = Len(s) - 1 /\ Len(s) \in Nat \ {0}
           /\ \A i \in 1..(Len(s) - 1) : Front(s)[i] = s[i]
           /\ Last(s) \in S /\ Last(s) = s[Len(s)]
<1>1. Len(s) \in Nat \ {0}
  BY LenProperties, EmptySeq
<1>2. Len(s) - 1 \in Nat /\ 0 <= Len(s) - 1 /\ Len(s) - 1 <= Len(s)
  BY <1>1
<1>3. ASSUME NEW k \in Nat, k <= Len(s)
      PROVE  /\ SubSeq(s, 1, k) \in Seq(S) /\ Len(SubSeq(s, 1, k)) = k
             /\ \A i \in 1..k : SubSeq(s, 1, k)[i] = s[i]
  <2>1. /\ SubSeq(s, 0 + 1, k) \in Seq(S) /\ Len(SubSeq(s, 0 + 1, k)) = k - 0
        /\ \A i \in 1..(k - 0) : SubSeq(s, 0 + 1, k)[i] = s[0 + i]
    BY <1>3, PartIs
  <2>2. 0 + 1 = 1 /\ k - 0 = k /\ \A i \in 1..k : 0 + i = i
    OBVIOUS
  <2> QED
    BY <2>1, <2>2
<1>5. Len(s) \in 1..Len(s)
  BY <1>1
<1>6. Last(s) \in S /\ Last(s) = s[Len(s)]
  BY <1>5, ElementOfSeq DEF Last
<1> QED
  BY <1>1, <1>2, <1>3, <1>6 DEF Front

\* A value goes to the innermost array, which may be complete with it.
LEMMA FramesDelivered ==
    ASSUME NEW S, Framed(S), frames # <<>>,
           NEW v, NEW f, f = Last(frames), NEW got, got = Append(f.got, v),
           \/ Len(got) = f.n /\ frames' = Front(frames)
           \/ Len(got) # f.n /\ frames' = Append(Front(frames), [f EXCEPT !.got = got])
    PROVE  Framed(S \cup {v})'
<1> DEFINE S2 == S \cup {v}
           L == Len(frames)
           fs == Front(frames)
<1>1. frames \in Seq(FrameSet(S)) /\ L \in Nat \ {0}
  BY FrontIs DEF Framed
<1>2. f \in FrameSet(S) /\ f = frames[L] /\ L \in 1..L
  BY <1>1, FrontIs
<1>3. f \in FrameSet(S) /\ Len(f.got) < f.n
  BY <1>2 DEF Framed
<1>4. FrameSet(S) \subseteq FrameSet(S2)
  <2>1. Seq(S) \subseteq Seq(S2)
    BY SeqMonotonic
  <2> QED
    BY <2>1 DEF FrameSet
<1>5. /\ fs \in Seq(FrameSet(S)) /\ Len(fs) = L - 1
      /\ \A i \in 1..(L - 1) : fs[i] = frames[i]
  BY <1>1, FrontIs
<1>6. fs \in Seq(FrameSet(S2)) /\ \A i \in 1..Len(fs) : Len(fs[i].got) < fs[i].n
  <2>1. fs \in Seq(FrameSet(S2))
    BY <1>4, <1>5, SeqMonotonic
  <2>2. \A i \in 1..(L - 1) : i \in 1..L
    BY <1>1
  <2> QED
    BY <1>5, <2>1, <2>2 DEF Framed
<1>7. got \in Seq(S2) /\ Len(got) = Len(f.got) + 1 /\ Len(f.got) \in Nat /\ f.n \in Nat
  <2>1. f.got \in Seq(S) /\ f.n \in 1..MaxArrayLen
    BY <1>3 DEF FrameSet
  <2>2. f.got \in Seq(S2) /\ v \in S2
    BY <2>1, SeqMonotonic
  <2>3. got \in Seq(S2) /\ Len(got) = Len(f.got) + 1
    BY <2>2, AppendProperties
  <2> QED
    BY <2>1, <2>3, LenProperties
<1> HIDE DEF S2, fs
<1>8. CASE Len(got) = f.n /\ frames' = fs
  BY <1>6, <1>8 DEF Framed, S2
<1>9. CASE Len(got) # f.n /\ frames' = Append(fs, [f EXCEPT !.got = got])
  <2> DEFINE g == [f EXCEPT !.got = got]
  <2>1. g \in FrameSet(S2) /\ g.got = got /\ g.n = f.n
    BY <1>3, <1>7 DEF FrameSet
  <2>2. Len(g.got) < g.n
    BY <1>3, <1>7, <1>9, <2>1
  <2>3. frames' = Append(fs, g)
    BY <1>9
  <2> HIDE DEF g
  <2>4. Framed(S2)'
    BY <1>6, <2>1, <2>2, <2>3, FramesAppend
  <2> QED
    BY <2>4 DEF S2
<1> QED
  BY <1>8, <1>9 DEF fs

LEMMA DeliverKeeps ==
    ASSUME Inv, Deliver, UNCHANGED closed
    PROVE  ReaderKept
<1>1. /\ st = "ret" /\ UNCHANGED <<buf, rpos, rerr, wire>> /\ BufferOK /\ wire \in Bytes
      /\ DecoderOK /\ ReaderInv
  BY DEF Deliver, Inv, ReaderOK, Shared
<1>2. err = "none" /\ acc = <<>> /\ need = 0
  BY <1>1 DEF ReaderInv
<1>3. BufferOK' /\ wire' \in Bytes
  BY <1>1 DEF BufferOK
<1>4. CASE frames = <<>>
  <2>1. st' = "idle" /\ UNCHANGED <<typ, acc, need, frames, err>>
    BY <1>4 DEF Deliver
  <2>2. DecoderOK' /\ ReaderInv'
    BY <1>1, <1>2, <2>1, ReaderAssumption DEF DecoderOK, ReaderInv, BodyLen, Places
  <2>3. \E S : Framed(S)'
    BY <2>1, FramesSame
  <2> QED
    BY <1>3, <2>2, <2>3 DEF ReaderKept, ReaderOK
<1>5. CASE frames # <<>>
  <2> DEFINE f == Last(frames)
             got == Append(f.got, ret)
  <2>1. CASE Fail("bad")
    BY <1>3, <2>1, FailKeeps DEF ReaderKept, ReaderOK
  <2>2. CASE ~ Fail("bad")
    <3>1. /\ \/ Len(got) = f.n /\ frames' = Front(frames) /\ st' = "ret"
             \/ /\ Len(got) # f.n /\ frames' = Append(Front(frames), [f EXCEPT !.got = got])
                /\ st' = "type"
          /\ UNCHANGED <<typ, acc, need, err, out>>
      BY <1>5, <2>2 DEF Deliver
    <3>2. DecoderOK' /\ ReaderInv'
      BY <1>1, <1>2, <3>1, ReaderAssumption DEF DecoderOK, ReaderInv, BodyLen, Places
    <3>3. PICK S : Framed(S)
      BY DEF Inv, ReaderOK
    <3>9. PICK v, g, h : v = ret /\ g = f /\ h = got
      OBVIOUS
    <3>4. Framed(S \cup {v})'
      BY <1>5, <3>1, <3>3, <3>9, FramesDelivered
    <3> QED
      BY <1>3, <3>2, <3>4 DEF ReaderKept, ReaderOK
  <2> QED
    BY <2>1, <2>2
<1> QED
  BY <1>4, <1>5

LEMMA ReaderKeeps ==
    ASSUME Inv, ReaderNext, UNCHANGED <<closed, wvars, multi>>
    PROVE  Inv'
<1>1. ReaderKept
  <2>1. CASE \E n \in 1..N : Fill(n)
    BY <2>1, FillKeeps
  <2>2. CASE \E n \in 1..(MaxBulkBytesLen + 2) : DirectRead(n)
    <3>1. PICK n \in 1..(MaxBulkBytesLen + 2) : DirectRead(n)
      BY <2>2
    <3>2. n \in Nat
      BY ReaderAssumption
    <3> QED
      BY <3>1, <3>2, DirectReadKeeps
  <2>3. CASE ReadFails("eof") \/ ReadFails("io")
    BY <2>3, ReadFailsKeeps
  <2>4. CASE ReadsLast
    BY <2>4, ReadsLastKeeps
  <2>5. CASE ReaderFailed \/ Decode
    BY <2>5, ReaderFailedKeeps, DecodeKeeps
  <2>6. CASE PeekByte \/ ReadType
    BY <2>6, PeekByteKeeps, ReadTypeKeeps
  <2>7. CASE ReadText \/ ReadInt
    BY <2>7, ReadTextKeeps, ReadIntKeeps
  <2>8. CASE CopyBody \/ BodyDone
    BY <2>8, CopyBodyKeeps, BodyDoneKeeps
  <2>9. CASE Deliver
    BY <2>9, DeliverKeeps
  <2> QED
    BY <2>1, <2>2, <2>3, <2>4, <2>5, <2>6, <2>7, <2>8, <2>9 DEF ReaderNext, Proceed
<1>2. Shared'
  BY <1>1 DEF ReaderKept, Inv, Shared
<1>3. WriterTypeOK' /\ WriterInv'
  BY DEF Inv, wvars, WriterTypeOK, WriterInv
<1> QED
  BY <1>1, <1>2, <1>3 DEF ReaderKept, Inv

-----------------------------------------------------------------------------
(* The steps of the writer and encoder preserve it *)

WriterKept == Shared' /\ WriterTypeOK' /\ WriterInv'

\* The decoder sees nothing of them.
LEMMA ReaderApart ==
    ASSUME Inv, ~closed, UNCHANGED rvars
    PROVE  ReaderOK'
<1>1. BufferOK' /\ DecoderOK'
  BY DEF Inv, ReaderOK, rvars, BufferOK, DecoderOK, BodyLen
<1>2. \E S : Framed(S)'
  BY FramesSame DEF rvars
<1>3. ReaderInv'
  BY DEF Inv, ReaderOK, rvars, ReaderInv
<1> QED
  BY <1>1, <1>2, <1>3 DEF ReaderOK

LEMMA TodoIs ==
    ASSUME WriterTypeOK, todo # <<>>
    PROVE  /\ Head(todo) \in Tasks /\ Tail(todo) \in Seq(Tasks)
           /\ Head(todo).op \in Writes => Head(todo).b \in Bytes
           /\ Head(todo).op = "encodeResp" => Head(todo).r \in Values
           /\ Len(todo) \in Nat \ {0} /\ todo[1] = Head(todo)
           /\ todo = <<Head(todo)>> \o Tail(todo)
<1>1. todo \in Seq(Tasks)
  BY DEF WriterTypeOK
<1>2. Head(todo) \in Tasks /\ Tail(todo) \in Seq(Tasks)
  BY <1>1, HeadTailProperties
<1>3. Head(todo).op \in Writes => Head(todo).b \in Bytes
  BY <1>2 DEF Tasks, Writes, Bytes
<1>4. Head(todo).op = "encodeResp" => Head(todo).r \in Values
  BY <1>2 DEF Tasks, Writes
<1>5. Len(todo) \in Nat \ {0}
  BY <1>1, LenProperties, EmptySeq
<1>6. todo[1] = Head(todo)
  BY <1>1, <1>5
<1>7. todo = <<Head(todo)>> \o Tail(todo)
  BY <1>1
<1> QED
  BY <1>2, <1>3, <1>4, <1>5, <1>6, <1>7

\* What a write leaves on the connection.
LEMMA WrittenIs ==
    ASSUME Shared, NEW b \in Bytes, WriteOk(b) \/ WriteError(b)
    PROVE  wire' \in Bytes
<1>1. wire \in Bytes
  BY DEF Shared
<1>2. CASE WriteOk(b)
  BY <1>1, <1>2, ConcatProperties DEF WriteOk, Bytes
<1>3. CASE WriteError(b)
  <2>1. PICK k \in 0..(Len(b) - 1) : wire' = wire \o SubSeq(b, 1, k)
    BY <1>3 DEF WriteError
  <2>2. k \in Nat /\ k <= Len(b)
    BY LenProperties DEF Bytes
  <2>3. SubSeq(b, 1, k) \in Bytes
    BY <2>2, CutIs DEF Bytes
  <2> QED
    BY <1>1, <2>1, <2>3, ConcatProperties DEF Bytes
<1> QED
  BY <1>2, <1>3

LEMMA EncodeKeeps ==
    ASSUME Inv, Encode, UNCHANGED <<closed, multi>>
    PROVE  WriterKept
<1>1. /\ pend # <<>> /\ ~closed /\ todo' = Calls(Head(pend)) /\ pend' = Tail(pend)
      /\ sent' = Append(sent, Head(pend)) /\ UNCHANGED <<wbuf, werr, nbuffered, wire>>
      /\ werr = "none"
  BY DEF Encode
<1>2. pend \in Seq(Values) /\ sent \in Seq(Values)
  BY DEF Inv, WriterTypeOK
<1>3. Head(pend) \in Values /\ Tail(pend) \in Seq(Values)
  BY <1>1, <1>2, HeadTailProperties
<1>4. todo' \in Seq(Tasks) /\ todo' # <<>>
  BY <1>1, <1>3, CallsTyped
<1>5. sent' \in Seq(Values)
  BY <1>1, <1>2, <1>3, AppendProperties
<1>6. WriterTypeOK'
  BY <1>1, <1>3, <1>4, <1>5 DEF Inv, WriterTypeOK
<1>7. WriterInv' /\ Shared'
  BY <1>1, <1>4 DEF WriterInv, Inv, Shared
<1> QED
  BY <1>6, <1>7 DEF WriterKept

LEMMA EncodeRespKeeps ==
    ASSUME Inv, EncodeResp, UNCHANGED <<closed, multi>>
    PROVE  WriterKept
<1>1. /\ todo # <<>> /\ Head(todo).op = "encodeResp" /\ todo' = Calls(Head(todo).r) \o Tail(todo)
      /\ UNCHANGED <<pend, wbuf, werr, nbuffered, sent, wire>> /\ WriterTypeOK
  BY DEF EncodeResp, Inv
<1>2. Head(todo).r \in Values /\ Tail(todo) \in Seq(Tasks)
  BY <1>1, TodoIs
<1>3. Calls(Head(todo).r) \in Seq(Tasks) /\ Calls(Head(todo).r) # <<>>
  BY <1>2, CallsTyped
<1>4. todo' \in Seq(Tasks) /\ todo' # <<>>
  BY <1>1, <1>2, <1>3, ConcatProperties, ConcatEqualIffEmpty
<1>5. ~closed /\ werr = "none"
  BY <1>1 DEF Inv, WriterInv, WriterTypeOK
<1>6. WriterTypeOK'
  BY <1>1, <1>4 DEF WriterTypeOK
<1>7. WriterInv' /\ Shared'
  BY <1>1, <1>4, <1>5 DEF WriterInv, Inv, Shared
<1> QED
  BY <1>6, <1>7 DEF WriterKept

LEMMA BadTypeKeeps ==
    ASSUME Inv, BadType, UNCHANGED <<closed, multi>>
    PROVE  WriterKept
<1>1. WriterTypeOK' /\ Shared'
  BY EmptySeq DEF Inv, BadType, WriterTypeOK, Shared
<1>2. WriterInv'
  BY DEF BadType, WriterInv
<1> QED
  BY <1>1, <1>2 DEF WriterKept

\* The room in the buffer.
LEMMA AvailableIs ==
    ASSUME WriterTypeOK
    PROVE  Available \in 0..M /\ wbuf \in Bytes /\ Len(wbuf) \in Nat /\ Available = M - Len(wbuf)
           /\ M \in Nat /\ nbuffered \in Nat
BY LenProperties, WriterAssumption DEF WriterTypeOK, Available, Bytes

LEMMA PutKeeps ==
    ASSUME Inv, Put, UNCHANGED <<closed, multi>>
    PROVE  WriterKept
<1> DEFINE b == Head(todo).b
<1>1. /\ todo # <<>> /\ Head(todo).op \in Writes /\ Len(b) <= Available /\ wbuf' = wbuf \o b
      /\ todo' = Tail(todo)
      /\ nbuffered' = (IF Tail(todo) = <<>> THEN nbuffered + 1 ELSE nbuffered)
      /\ UNCHANGED <<pend, werr, sent, wire>> /\ WriterTypeOK
  BY DEF Put, CallDone, Inv
<1>2. b \in Bytes /\ Tail(todo) \in Seq(Tasks)
  BY <1>1, TodoIs
<1> HIDE DEF b
<1>3. Available \in 0..M /\ wbuf \in Bytes /\ Len(wbuf) \in Nat /\ Available = M - Len(wbuf)
      /\ M \in Nat /\ nbuffered \in Nat
  BY <1>1, AvailableIs
<1>4. wbuf' \in Bytes /\ Len(wbuf') = Len(wbuf) + Len(b) /\ Len(b) \in Nat
  BY <1>1, <1>2, <1>3, ConcatProperties, LenProperties DEF Bytes
<1>5. Len(b) <= Available
  BY <1>1
<1>6. Len(wbuf') <= M
  BY <1>3, <1>4, <1>5
<1>7. nbuffered' \in Nat /\ (todo' = <<>> => nbuffered' # 0)
  BY <1>1, <1>3
<1>8. WriterTypeOK'
  BY <1>1, <1>2, <1>4, <1>6, <1>7 DEF WriterTypeOK, Bytes
<1>9. ~closed /\ werr = "none"
  BY <1>1 DEF Inv, WriterInv, WriterTypeOK
<1>10. WriterInv' /\ Shared'
  BY <1>1, <1>7, <1>9 DEF WriterInv, Inv, Shared
<1> QED
  BY <1>8, <1>10 DEF WriterKept

LEMMA WriteDirectKeeps ==
    ASSUME Inv, WriteDirect, UNCHANGED <<closed, multi>>
    PROVE  WriterKept
<1> DEFINE b == Head(todo).b
<1>1. /\ todo # <<>> /\ Head(todo).op = "Write" /\ WriterTypeOK /\ Shared /\ wbuf = <<>>
      /\ \/ /\ WriteOk(b) /\ todo' = Tail(todo)
            /\ nbuffered' = (IF Tail(todo) = <<>> THEN nbuffered + 1 ELSE nbuffered)
         \/ WriteError(b) /\ todo' = <<>> /\ UNCHANGED nbuffered
      /\ UNCHANGED <<pend, wbuf, sent>>
  BY DEF WriteDirect, CallDone, Inv
<1>2. b \in Bytes /\ Tail(todo) \in Seq(Tasks)
  BY <1>1, TodoIs DEF Writes
<1> HIDE DEF b
<1>3. wire' \in Bytes
  BY <1>1, <1>2, WrittenIs
<1>4. nbuffered \in Nat
  BY <1>1 DEF WriterTypeOK
<1>5. nbuffered' \in Nat /\ todo' \in Seq(Tasks)
  <2>1. nbuffered' = nbuffered \/ nbuffered' = nbuffered + 1
    BY <1>1
  <2>2. nbuffered' \in Nat
    BY <1>4, <2>1
  <2>3. todo' = Tail(todo) \/ todo' = <<>>
    BY <1>1
  <2>4. <<>> \in Seq(Tasks)
    BY EmptySeq
  <2>5. todo' \in Seq(Tasks)
    BY <1>2, <2>3, <2>4
  <2> QED
    BY <2>2, <2>5
<1>6. werr' \in {"none", "io", "type"}
  BY <1>1 DEF WriterTypeOK, WriteOk, WriteError
<1>7. WriterTypeOK' /\ Shared'
  BY <1>1, <1>3, <1>5, <1>6 DEF WriterTypeOK, Shared
<1>8. ~closed /\ werr = "none"
  BY <1>1 DEF Inv, WriterInv, WriterTypeOK
<1>9. WriterInv'
  BY <1>1, <1>8 DEF WriterInv, WriteOk
<1> QED
  BY <1>7, <1>9 DEF WriterKept

\* The call that is left after its first k bytes.
LEMMA CallLeft ==
    ASSUME WriterTypeOK, todo # <<>>, Head(todo).op \in Writes, NEW c \in Bytes
    PROVE  /\ [todo EXCEPT ![1].b = c] \in Seq(Tasks) /\ [todo EXCEPT ![1].b = c] # <<>>
           /\ Head([todo EXCEPT ![1].b = c]) = [Head(todo) EXCEPT !.b = c]
<1> DEFINE t == [Head(todo) EXCEPT !.b = c]
<1>1. /\ Head(todo) \in Tasks /\ todo[1] = Head(todo) /\ Len(todo) \in Nat \ {0}
      /\ todo \in Seq(Tasks)
  BY TodoIs DEF WriterTypeOK
<1>2. t \in Tasks
  BY <1>1 DEF Tasks, Writes, Bytes
<1>3. [todo EXCEPT ![1].b = c] = [todo EXCEPT ![1] = t]
  BY <1>1
<1> HIDE DEF t
<1>4. 1 \in 1..Len(todo)
  BY <1>1
<1>5. /\ [todo EXCEPT ![1] = t] \in Seq(Tasks) /\ Len([todo EXCEPT ![1] = t]) = Len(todo)
      /\ [todo EXCEPT ![1] = t][1] = t
  BY <1>1, <1>2, <1>4, ExceptSeq
<1> DEFINE u == [todo EXCEPT ![1] = t]
<1> HIDE DEF u
<1>6. u \in Seq(Tasks) /\ Len(u) \in Nat \ {0} /\ u[1] = t
  BY <1>1, <1>5 DEF u
<1>7. u # <<>> /\ Head(u) = t
  BY <1>6, EmptySeq
<1> QED
  BY <1>3, <1>5, <1>7 DEF t, u

LEMMA WriteFullKeeps ==
    ASSUME Inv, WriteFull, UNCHANGED <<closed, multi>>
    PROVE  WriterKept
<1> DEFINE b == Head(todo).b
           full == wbuf \o SubSeq(b, 1, Available)
           left == SubSeq(b, Available + 1, Len(b))
<1>1. /\ todo # <<>> /\ Head(todo).op \in Writes /\ WriterTypeOK /\ Shared
      /\ Len(b) > Available /\ werr = "none"
      /\ \/ WriteOk(full) /\ wbuf' = <<>> /\ todo' = [todo EXCEPT ![1].b = left]
         \/ WriteError(full) /\ wbuf' = full /\ todo' = <<>>
      /\ UNCHANGED <<pend, nbuffered, sent>>
  BY DEF WriteFull, Inv
<1>2. b \in Bytes
  BY <1>1, TodoIs
<1>3. Available \in 0..M /\ wbuf \in Bytes /\ Len(wbuf) \in Nat /\ Available = M - Len(wbuf)
      /\ M \in Nat
  BY <1>1, AvailableIs
<1> HIDE DEF b
<1>4. SubSeq(b, 1, Available) \in Bytes /\ Len(SubSeq(b, 1, Available)) = Available
      /\ left \in Bytes
  <2>1. Available \in Nat /\ Available <= Len(b) /\ Len(b) \in Nat
    BY <1>1, <1>2, <1>3, LenProperties DEF Bytes
  <2> QED
    BY <1>2, <2>1, CutIs DEF Bytes
<1>5. full \in Bytes /\ Len(full) = M
  <2>1. full \in Bytes /\ Len(full) = Len(wbuf) + Available
    BY <1>3, <1>4, ConcatProperties DEF Bytes
  <2> QED
    BY <1>3, <2>1
<1> HIDE DEF full, left
<1>6. wire' \in Bytes
  BY <1>1, <1>5, WrittenIs
<1>7. todo' \in Seq(Tasks) /\ (todo' = <<>> => werr' = "io")
  <2>1. CASE WriteError(full) /\ todo' = <<>>
    BY <2>1, EmptySeq DEF WriteError
  <2>2. CASE todo' = [todo EXCEPT ![1].b = left]
    BY <1>1, <1>4, <2>2, CallLeft
  <2> QED
    BY <1>1, <2>1, <2>2
<1>8. wbuf' \in Bytes /\ Len(wbuf') <= M
  BY <1>1, <1>3, <1>5, EmptyBytes
<1>9. werr' \in {"none", "io"} /\ (werr' # "none" => todo' = <<>>)
  BY <1>1 DEF WriteOk, WriteError
<1>10. WriterTypeOK' /\ Shared'
  BY <1>1, <1>6, <1>7, <1>8, <1>9 DEF WriterTypeOK, Shared, Bytes
<1>11. ~closed
  BY <1>1 DEF Inv, WriterInv, Shared
<1>12. WriterInv'
  BY <1>7, <1>9, <1>11 DEF WriterInv
<1> QED
  BY <1>10, <1>12 DEF WriterKept

LEMMA FlushKeeps ==
    ASSUME Inv, NEW force, NEW elapsed, Flush(force, elapsed), UNCHANGED <<closed, multi>>
    PROVE  WriterKept
<1>1. /\ todo = <<>> /\ werr = "none" /\ ~closed /\ WriterTypeOK /\ Shared
      /\ \/ WriteOk(wbuf) /\ wbuf' = <<>> /\ nbuffered' = 0
         \/ WriteError(wbuf) /\ UNCHANGED <<wbuf, nbuffered>>
      /\ UNCHANGED <<pend, todo, sent>>
  BY DEF Flush, Inv
<1>2. wire' \in Bytes
  BY <1>1, WrittenIs DEF WriterTypeOK, Bytes
<1>3. werr' \in {"none", "io"} /\ (werr' = "none" => wbuf' = <<>>)
  BY <1>1 DEF WriteOk, WriteError
<1>4. wbuf' \in Bytes /\ Len(wbuf') <= M /\ nbuffered' \in Nat
  <2>1. wbuf' \in {wbuf, <<>>} /\ nbuffered' \in {nbuffered, 0}
    BY <1>1
  <2>2. wbuf \in Bytes /\ Len(wbuf) <= M /\ nbuffered \in Nat /\ M \in Nat
    BY <1>1, WriterAssumption DEF WriterTypeOK, Bytes
  <2>3. <<>> \in Bytes /\ Len(<<>>) <= M
    BY <2>2, EmptyBytes
  <2> QED
    BY <2>1, <2>2, <2>3
<1>5. WriterTypeOK' /\ Shared'
  BY <1>1, <1>2, <1>3, <1>4 DEF WriterTypeOK, Shared, Bytes
<1>6. WriterInv'
  BY <1>1, <1>3 DEF WriterInv
<1> QED
  BY <1>5, <1>6 DEF WriterKept

LEMMA CloseKeeps ==
    ASSUME Inv, Close, UNCHANGED multi
    PROVE  WriterKept
<1>1. Shared' /\ WriterTypeOK'
  BY DEF Inv, Close, wvars, Shared, WriterTypeOK
<1>2. WriterInv'
  BY DEF Inv, Close, wvars, WriterInv
<1> QED
  BY <1>1, <1>2 DEF WriterKept

LEMMA WriterKeeps ==
    ASSUME Inv, WriterNext, UNCHANGED <<rvars, multi>>
    PROVE  Inv'
<1>1. WriterKept
  <2>1. CASE Encode /\ UNCHANGED closed
    BY <2>1, EncodeKeeps
  <2>2. CASE EncodeResp /\ UNCHANGED closed
    BY <2>2, EncodeRespKeeps
  <2>3. CASE BadType /\ UNCHANGED closed
    BY <2>3, BadTypeKeeps
  <2>4. CASE Put /\ UNCHANGED closed
    BY <2>4, PutKeeps
  <2>5. CASE WriteDirect /\ UNCHANGED closed
    BY <2>5, WriteDirectKeeps
  <2>6. CASE WriteFull /\ UNCHANGED closed
    BY <2>6, WriteFullKeeps
  <2>7. CASE (\E f, e : Flush(f, e)) /\ UNCHANGED closed
    BY <2>7, FlushKeeps
  <2>8. CASE Close
    BY <2>8, CloseKeeps
  <2> QED
    BY <2>1, <2>2, <2>3, <2>4, <2>5, <2>6, <2>7, <2>8
       DEF WriterNext, WriterStep, LastFlush
<1>2. ~closed
  BY DEF Inv, WriterInv, Shared, WriterNext, WriterStep, LastFlush, Encode, EncodeResp, BadType,
         Put, WriteDirect, WriteFull, Flush, Close
<1>3. ReaderOK'
  BY <1>2, ReaderApart
<1> QED
  BY <1>1, <1>3 DEF WriterKept, Inv

LEMMA NextInv == Inv /\ [Next]_vars => Inv'
<1>1. ASSUME Inv, Next PROVE Inv'
  BY <1>1, ReaderKeeps, WriterKeeps DEF Next
<1>2. ASSUME Inv, UNCHANGED vars PROVE Inv'
  <2>1. Shared' /\ WriterTypeOK' /\ WriterInv'
    BY <1>2 DEF Inv, vars, wvars, Shared, WriterTypeOK, WriterInv
  <2>2. BufferOK' /\ DecoderOK' /\ ReaderInv'
    BY <1>2 DEF Inv, ReaderOK, vars, rvars, BufferOK, DecoderOK, BodyLen, ReaderInv
  <2>3. \E S : Framed(S)'
    BY <1>2, FramesSame DEF vars, rvars
  <2> QED
    BY <2>1, <2>2, <2>3 DEF Inv, ReaderOK
<1> QED
  BY <1>1, <1>2

LEMMA Invariant == Spec => []Inv
BY InitInv, NextInv, PTL DEF Spec

\* Whatever a peer sends and however the bytes arrive, the indices of both
\* buffers stay within them, and the decoder allocates no more for a bulk or
\* an array than its limits allow.
THEOREM TypeCorrect == Spec => []TypeOK
BY Invariant, InvTypeOK, PTL

-----------------------------------------------------------------------------
(* The bytes that are unread, cut where the parts of the codec hold them *)

\* What the reader holds, what the writer still holds, and the bytes that
\* the reader has yet to get.
Held == acc \o Window
Behind == IF werr = "none" THEN wbuf ELSE <<>>
Coming == wire \o Behind

LEMMA UnreadIs ==
    ASSUME Inv, err = "none"
    PROVE  /\ acc \in Bytes /\ Window \in Bytes /\ Held \in Bytes /\ wire \in Bytes
           /\ Behind \in Bytes /\ Coming \in Bytes
           /\ Unread = Held \o Coming /\ Unread \in Bytes
<1>1. acc \in Bytes /\ Window \in Bytes /\ wire \in Bytes
  BY WindowIs DEF Inv, Shared, ReaderOK, DecoderOK
<1>2. Behind \in Bytes
  BY EmptyBytes DEF Inv, WriterTypeOK, Behind, Bytes
<1>3. Held \in Bytes
  BY <1>1, ConcatProperties DEF Held, Bytes
<1>4. Coming \in Bytes
  BY <1>1, <1>2, ConcatProperties DEF Coming, Bytes
<1>5. Unread = (Held \o wire) \o Behind
  BY DEF Unread, Held, Behind
<1>6. (Held \o wire) \o Behind = Held \o (wire \o Behind)
  BY <1>1, <1>2, <1>3, ConcatAssociative DEF Bytes
<1>7. Unread = Held \o Coming
  BY <1>5, <1>6 DEF Coming
<1>8. Held \o Coming \in Bytes
  BY <1>3, <1>4, ConcatProperties DEF Bytes
<1> QED
  BY <1>1, <1>2, <1>3, <1>4, <1>7, <1>8

LEMMA UnreadFailed ==
    ASSUME err # "none"
    PROVE  Unread = <<>>
BY DEF Unread

\* A decoder that has collected nothing.
LEMMA HeldWindow ==
    ASSUME Inv, acc = <<>>
    PROVE  Held = Window
<1>1. Window \in Seq(Byte)
  BY WindowIs DEF Inv, ReaderOK, Bytes
<1> QED
  BY <1>1, ConcatEmptySeq DEF Held

\* The reader has used its buffer up.
LEMMA HeldAcc ==
    ASSUME Inv, Buffered = 0
    PROVE  Held = acc /\ Window = <<>>
<1>1. acc \in Seq(Byte) /\ Window \in Seq(Byte) /\ Len(Window) = 0
  BY WindowIs DEF Inv, ReaderOK, DecoderOK, Bytes
<1>2. Window = <<>>
  BY <1>1, EmptySeq
<1> QED
  BY <1>1, <1>2, ConcatEmptySeq DEF Held

\* The end of the stream.
LEMMA NothingComes ==
    ASSUME Inv, closed
    PROVE  Behind = <<>> /\ Coming = wire
<1>1. Behind = <<>>
  BY DEF Inv, WriterInv, Behind
<1>2. wire \in Seq(Byte)
  BY DEF Inv, Shared, Bytes
<1> QED
  BY <1>1, <1>2, ConcatEmptySeq DEF Coming

\* A stream that begins with a: it is taken from the front.
LEMMA FrontTaken ==
    ASSUME NEW a \in Bytes, NEW b \in Bytes
    PROVE  /\ a \o b \in Bytes /\ SubSeq(a \o b, 1, Len(a)) = a
           /\ SubSeq(a \o b, Len(a) + 1, Len(a \o b)) = b
           /\ Len(a \o b) = Len(a) + Len(b) /\ Len(a) \in Nat /\ Len(b) \in Nat
           /\ Len(a) > 0 => a \o b # <<>> /\ (a \o b)[1] = a[1]
<1>1. /\ a \o b \in Seq(Byte) /\ Len(a \o b) = Len(a) + Len(b) /\ Len(a) \in Nat /\ Len(b) \in Nat
      /\ SubSeq(a \o b, 1, Len(a)) = a /\ SubSeq(a \o b, Len(a) + 1, Len(a \o b)) = b
  BY PartsOfConcat DEF Bytes
<1>2. ASSUME Len(a) > 0 PROVE a \o b # <<>> /\ (a \o b)[1] = a[1]
  <2>1. 1 \in 1..(Len(a) + Len(b)) /\ 1 <= Len(a)
    BY <1>1, <1>2
  <2>2. (a \o b)[1] = a[1]
    BY <2>1, ConcatProperties DEF Bytes
  <2>3. Len(a \o b) # 0
    BY <1>1, <1>2
  <2> QED
    BY <2>2, <2>3, EmptySeq
<1> QED
  BY <1>1, <1>2 DEF Bytes

\* The first k bytes of the window, and the window after them.
LEMMA WindowCut ==
    ASSUME BufferOK, NEW k \in 0..Buffered
    PROVE  /\ SubSeq(buf, rpos + 1, rpos + k) \in Bytes
           /\ Len(SubSeq(buf, rpos + 1, rpos + k)) = k
           /\ SubSeq(buf, (rpos + k) + 1, Len(buf)) \in Bytes
           /\ Window = SubSeq(buf, rpos + 1, rpos + k) \o SubSeq(buf, (rpos + k) + 1, Len(buf))
<1>1. rpos \in Nat /\ Len(buf) \in Nat /\ Buffered = Len(buf) - rpos /\ buf \in Seq(Byte)
  BY LenProperties DEF BufferOK, Bytes, Buffered
<1>2. /\ rpos + k \in Nat /\ rpos <= rpos + k /\ rpos + k <= Len(buf) /\ (rpos + k) - rpos = k
      /\ rpos + 1 \in 1..(Len(buf) + 1) /\ (rpos + 1) - 1 = rpos
  BY <1>1
<1>3. /\ SubSeq(buf, rpos + 1, rpos + k) \in Seq(Byte)
      /\ Len(SubSeq(buf, rpos + 1, rpos + k)) = (rpos + k) - rpos
  BY <1>1, <1>2, PartIs
<1>4. SubSeq(buf, (rpos + k) + 1, Len(buf)) \in Seq(Byte)
  BY <1>1, <1>2, PartIs
<1>5. rpos + k \in ((rpos + 1) - 1)..Len(buf) /\ Len(buf) \in (rpos + k)..Len(buf)
  BY <1>1, <1>2
<1>6. SubSeq(buf, rpos + 1, rpos + k) \o SubSeq(buf, (rpos + k) + 1, Len(buf))
        = SubSeq(buf, rpos + 1, Len(buf))
  BY <1>1, <1>2, <1>5, ConcatAdjacentSubSeq
<1> QED
  BY <1>2, <1>3, <1>4, <1>6 DEF Bytes, Window

\* What was collected and k more bytes, and what the buffer has after them.
Taken(k) == acc \o SubSeq(buf, rpos + 1, rpos + k)
Left(k) == SubSeq(buf, (rpos + k) + 1, Len(buf))

LEMMA HeldCut ==
    ASSUME Inv, NEW k \in 0..Buffered
    PROVE  /\ Taken(k) \in Bytes /\ Left(k) \in Bytes /\ Len(Taken(k)) = Len(acc) + k
           /\ Held = Taken(k) \o Left(k)
<1> DEFINE w == SubSeq(buf, rpos + 1, rpos + k)
           q == Left(k)
<1>1. acc \in Bytes /\ BufferOK
  BY DEF Inv, ReaderOK, DecoderOK
<1>2. w \in Bytes /\ Len(w) = k /\ q \in Bytes
  BY <1>1, WindowCut DEF Left
<1>3. Window = w \o q
  BY <1>1, WindowCut DEF Left
<1>7. Taken(k) = acc \o w
  BY DEF Taken
<1> HIDE DEF w, q
<1>4. acc \o w \in Bytes /\ Len(acc \o w) = Len(acc) + k
  BY <1>1, <1>2, ConcatProperties DEF Bytes
<1>5. (acc \o w) \o q = acc \o (w \o q)
  BY <1>1, <1>2, ConcatAssociative DEF Bytes
<1>6. Held = (acc \o w) \o q
  BY <1>3, <1>5 DEF Held
<1> QED
  BY <1>2, <1>4, <1>6, <1>7 DEF q

\* The decoder uses what it has collected and k bytes of the buffer: they are
\* the first ones that are unread, and what follows them is what is left.
LEMMA UnreadTaken ==
    ASSUME Inv, err = "none", NEW k \in 0..Buffered
    PROVE  /\ SubSeq(Unread, 1, Len(acc) + k) = Taken(k)
           /\ SubSeq(Unread, (Len(acc) + k) + 1, Len(Unread)) = Left(k) \o Coming
           /\ Len(Unread) >= Len(acc) + k
           /\ Len(acc) + k > 0 => Unread # <<>> /\ Unread[1] = Taken(k)[1]
<1> DEFINE p == Taken(k)
           q == Left(k)
<1>1. p \in Bytes /\ q \in Bytes /\ Len(p) = Len(acc) + k
  BY HeldCut
<1>2. Held = p \o q
  BY HeldCut
<1>3. Coming \in Bytes
  BY UnreadIs
<1>9. Unread = Held \o Coming
  BY UnreadIs
<1> HIDE DEF p, q
<1>4. (p \o q) \o Coming = p \o (q \o Coming)
  BY <1>1, <1>3, ConcatAssociative DEF Bytes
<1>5. q \o Coming \in Bytes
  BY <1>1, <1>3, ConcatProperties DEF Bytes
<1>6. Unread = p \o (q \o Coming)
  BY <1>2, <1>4, <1>9
<1> DEFINE r == q \o Coming
<1> HIDE DEF r
<1>7. /\ SubSeq(p \o r, 1, Len(p)) = p /\ SubSeq(p \o r, Len(p) + 1, Len(p \o r)) = r
      /\ Len(p \o r) = Len(p) + Len(r) /\ Len(p) \in Nat /\ Len(r) \in Nat
      /\ Len(p) > 0 => p \o r # <<>> /\ (p \o r)[1] = p[1]
  <2>1. p \in Bytes /\ r \in Bytes
    BY <1>1, <1>5 DEF r
  <2> QED
    BY <2>1, FrontTaken
<1>8. Len(p \o r) >= Len(p)
  BY <1>7
<1>10. Len(p) = Len(acc) + k /\ Unread = p \o r
  BY <1>1, <1>6 DEF r
<1>11. /\ SubSeq(Unread, 1, Len(p)) = p /\ SubSeq(Unread, Len(p) + 1, Len(Unread)) = r
       /\ Len(Unread) >= Len(p)
       /\ Len(p) > 0 => Unread # <<>> /\ Unread[1] = p[1]
  BY <1>7, <1>8, <1>10
<1>12. Len(p) = Len(acc) + k
  BY <1>1
<1> QED
  BY <1>11, <1>12 DEF p, q, r

-----------------------------------------------------------------------------
(* A step of the reader is a step of the stream's decoder, or none *)

\* The variables of the stream that a step of the reader leaves alone.
Apart == UNCHANGED <<closed, multi, wvars>>

\* What the reader does with bytes that it only moves.
Hidden ==
    /\ Unread' = Unread /\ BodyLen' = BodyLen
    /\ UNCHANGED <<st, typ, frames, ret, err, out, dropped>>

LEMMA HiddenSim ==
    ASSUME Hidden, Apart
    PROVE  UNCHANGED Stream!vars
BY DEF Hidden, Apart, wvars, Stream!vars, Stream!decoder, Stream!encoder

LEMMA UnreadMoved ==
    ASSUME Apart, err = "none", err' = "none", (acc' \o Window') \o wire' = Held \o wire
    PROVE  Unread' = Unread
BY DEF Apart, wvars, Unread, Held

LEMMA FillSim ==
    ASSUME Inv, NEW n \in 1..N, Fill(n), Apart
    PROVE  UNCHANGED Stream!vars
<1> DEFINE p == SubSeq(wire, 1, n)
           q == SubSeq(wire, n + 1, Len(wire))
<1>1. /\ Shared /\ BufferOK /\ acc \in Bytes /\ buf' = Window \o p /\ rpos' = 0 /\ wire' = q
      /\ n \in Nat /\ n <= Len(wire)
      /\ UNCHANGED <<acc, st, typ, need, frames, ret, err, out, dropped>>
  BY DEF Inv, ReaderOK, DecoderOK, Fill, decoderVars
<1>2. err = "none"
  BY DEF Inv, ReaderOK, ReaderInv, Fill, NeedsFill, Lines
<1>3. Window \in Bytes /\ p \in Bytes /\ Held \in Bytes /\ wire \in Bytes
  BY <1>1, <1>2, WindowIs, WireCut, UnreadIs
<1>4. Window' = Window \o p
  <2>1. Window \o p \in Seq(Byte)
    BY <1>3, ConcatProperties DEF Bytes
  <2>2. Window' = SubSeq(Window \o p, 1, Len(Window \o p))
    BY <1>1 DEF Window
  <2> QED
    BY <2>1, <2>2, SubSeqFull
<1>5. (Held \o p) \o q = Held \o wire
  BY <1>1, <1>3, MoveBytes DEF Bytes
<1>6. (acc \o Window) \o p = acc \o (Window \o p)
  <2>1. acc \in Seq(Byte) /\ Window \in Seq(Byte) /\ p \in Seq(Byte)
    BY <1>1, <1>3 DEF Bytes
  <2> HIDE DEF p
  <2> QED
    BY <2>1, ConcatAssociative
<1>7. acc' \o Window' = Held \o p /\ wire' = q
  BY <1>1, <1>4, <1>6 DEF Held
<1> HIDE DEF p, q
<1>8. Unread' = Unread
  BY <1>1, <1>2, <1>5, <1>7, UnreadMoved
<1>9. BodyLen' = BodyLen
  BY <1>1 DEF BodyLen
<1> QED
  BY <1>1, <1>8, <1>9, HiddenSim DEF Hidden

LEMMA DirectReadSim ==
    ASSUME Inv, NEW n \in Nat, DirectRead(n), Apart
    PROVE  UNCHANGED Stream!vars
<1> DEFINE p == SubSeq(wire, 1, n)
           q == SubSeq(wire, n + 1, Len(wire))
<1>1. /\ Shared /\ acc \in Bytes /\ acc' = acc \o p /\ wire' = q /\ st = "body" /\ Buffered = 0
      /\ n <= Len(wire) /\ need' = need - n /\ need \in Nat
      /\ UNCHANGED <<buf, rpos, st, typ, frames, ret, err, out, dropped>>
  BY DEF Inv, ReaderOK, DecoderOK, DirectRead, NeedsDirect
<1>2. err = "none"
  BY <1>1 DEF Inv, ReaderOK, ReaderInv
<1>3. Held = acc /\ Window = <<>> /\ Window' = Window
  BY <1>1, HeldAcc DEF Window
<1>4. p \in Bytes /\ Len(p) = n /\ wire \in Bytes
  BY <1>1, WireCut DEF Shared
<1>5. (acc \o p) \o q = acc \o wire
  BY <1>1, <1>4, MoveBytes DEF Bytes
<1> HIDE DEF p, q
<1>6. acc \o p \in Bytes /\ Len(acc \o p) = Len(acc) + n /\ Len(acc) \in Nat
  BY <1>1, <1>4, ConcatProperties, LenProperties DEF Bytes
<1>7. acc' \o Window' = acc \o p
  <2>1. (acc \o p) \o <<>> = acc \o p
    BY <1>6, ConcatEmptySeq DEF Bytes
  <2> QED
    BY <1>1, <1>3, <2>1
<1>8. Unread' = Unread
  BY <1>1, <1>2, <1>3, <1>5, <1>7, UnreadMoved
<1>9. BodyLen' = BodyLen
  <2>1. Len(acc') + need' = Len(acc) + need
    BY <1>1, <1>6
  <2> QED
    BY <1>1, <2>1 DEF BodyLen
<1> QED
  BY <1>1, <1>8, <1>9, HiddenSim DEF Hidden

LEMMA CopyBodySim ==
    ASSUME Inv, CopyBody, Apart
    PROVE  UNCHANGED Stream!vars
<1> DEFINE n == IF need < Buffered THEN need ELSE Buffered
<1>1. /\ st = "body" /\ 0 < need /\ 0 < Buffered /\ BufferOK /\ need \in Nat
      /\ UNCHANGED <<buf, st, typ, frames, ret, err, out, dropped, wire>>
      /\ acc' = acc \o SubSeq(buf, rpos + 1, rpos + n)
      /\ need' = need - n /\ rpos' = rpos + n
  BY DEF CopyBody, Inv, ReaderOK, DecoderOK
<1>2. err = "none" /\ acc \in Bytes
  BY <1>1 DEF Inv, ReaderOK, ReaderInv, DecoderOK
<1>3. n \in 0..Buffered /\ n <= need /\ n \in Nat
  BY <1>1, WindowIs
<1> HIDE DEF n
<1>4. acc' = Taken(n) /\ Window' = Left(n)
  BY <1>1 DEF Taken, Left, Window
<1>5. Held = Taken(n) \o Left(n) /\ Len(Taken(n)) = Len(acc) + n
  BY <1>3, HeldCut
<1>6. Unread' = Unread
  BY <1>1, <1>2, <1>4, <1>5, UnreadMoved
<1>7. BodyLen' = BodyLen
  <2>1. Len(acc) \in Nat
    BY <1>2, LenProperties DEF Bytes
  <2>2. Len(acc') = Len(acc) + n /\ need' = need - n /\ need \in Nat
    BY <1>1, <1>4, <1>5
  <2>3. Len(acc') + need' = Len(acc) + need
    BY <1>3, <2>1, <2>2
  <2> QED
    BY <1>1, <2>3 DEF BodyLen
<1> QED
  BY <1>1, <1>6, <1>7, HiddenSim DEF Hidden

\* The abstract forms of what the actions of the decoder have in common.
LEMMA FailSim ==
    ASSUME NEW e, e # "none", Fail(e)
    PROVE  Stream!Fail(e)
BY DEF Fail, Stream!Fail, Unread, BodyLen

LEMMA ReturnSim ==
    ASSUME NEW v, Return(v)
    PROVE  Stream!Return(v)
BY DEF Return, Stream!Return, BodyLen

LEMMA EnterSim ==
    ASSUME NEW s, s # "body", st # "body", Enter(s)
    PROVE  Stream!Enter(s)
BY DEF Enter, Stream!Enter, BodyLen

LEMMA DecoderSim ==
    ASSUME Apart,
           \/ Stream!Decode \/ Stream!PeekByte \/ Stream!ReadType \/ Stream!ReadText
           \/ Stream!ReadInt \/ Stream!ReadBody \/ Stream!Deliver
           \/ Stream!Ends \/ Stream!ReadFails
    PROVE  Stream!Next
BY DEF Apart, wvars, Stream!Next, Stream!DecoderNext, Stream!encoder

\* The decoder has used k bytes of the buffer after those it had collected.
LEMMA UnreadNext ==
    ASSUME Inv, Apart, err = "none", err' = "none", NEW k \in 0..Buffered,
           rpos' = rpos + k, acc' = <<>>, UNCHANGED <<buf, wire>>
    PROVE  Unread' = SubSeq(Unread, (Len(acc) + k) + 1, Len(Unread))
<1>1. Left(k) \in Bytes /\ wire \in Bytes /\ Behind \in Bytes
  BY HeldCut, UnreadIs
<1>2. Window' = Left(k) /\ Behind' = Behind
  BY DEF Window, Left, Apart, wvars, Behind
<1>3. Unread' = ((<<>> \o Left(k)) \o wire) \o Behind
  BY <1>2 DEF Unread, Behind
<1>4. <<>> \o Left(k) = Left(k)
  BY <1>1, ConcatEmptySeq DEF Bytes
<1>5. (Left(k) \o wire) \o Behind = Left(k) \o (wire \o Behind)
  BY <1>1, ConcatAssociative DEF Bytes
<1>6. Unread' = Left(k) \o Coming
  BY <1>3, <1>4, <1>5 DEF Coming
<1> QED
  BY <1>6, UnreadTaken

\* The buffer is not touched.
LEMMA UnreadSame ==
    ASSUME Apart, err = "none", err' = "none", UNCHANGED <<buf, rpos, wire, acc>>
    PROVE  Unread' = Unread
BY DEF Apart, wvars, Unread, Window

LEMMA DecodeSim ==
    ASSUME Inv, Decode, Apart
    PROVE  Stream!Next
<1>1. st = "idle" /\ err = "none" /\ UNCHANGED <<buf, rpos, typ, dropped, wire>>
      /\ Enter(IF multi THEN "peek" ELSE "type")
  BY DEF Decode
<1>2. Unread' = Unread
  BY <1>1, UnreadSame DEF Enter
<1>3. Stream!Enter(IF multi THEN "peek" ELSE "type")
  BY <1>1, EnterSim
<1>4. Stream!Decode
  BY <1>1, <1>2, <1>3 DEF Stream!Decode
<1> QED
  BY <1>4, DecoderSim

\* The first byte of the buffer is the first of the stream.
LEMMA FirstByte ==
    ASSUME Inv, err = "none", acc = <<>>, 0 < Buffered
    PROVE  Unread # <<>> /\ Unread[1] = buf[rpos + 1] /\ Unread \in Bytes
           /\ 1 \in 0..Buffered /\ 0 \in 0..Buffered /\ rpos \in Nat /\ Len(acc) = 0
<1>1. BufferOK /\ Len(acc) = 0
  BY EmptyBytes DEF Inv, ReaderOK
<1>2. Buffered \in Nat /\ rpos \in Nat
  BY <1>1, WindowIs DEF BufferOK
<1>3. 1 \in 0..Buffered /\ 0 \in 0..Buffered
  BY <1>2
<1>4. Unread # <<>> /\ Unread[1] = Taken(1)[1]
  <2>1. Len(acc) + 1 > 0
    BY <1>1
  <2> QED
    BY <1>3, <2>1, UnreadTaken
<1> DEFINE w == SubSeq(buf, rpos + 1, rpos + 1)
<1>5. w \in Bytes /\ Len(w) = 1
  BY <1>1, <1>3, WindowCut
<1>6. w[1] = buf[rpos + 1]
  <2>1. /\ rpos + 1 \in Nat /\ rpos <= rpos + 1 /\ rpos + 1 <= Len(buf)
        /\ (rpos + 1) - rpos = 1 /\ buf \in Seq(Byte)
    BY <1>1, <1>2, LenProperties DEF BufferOK, Bytes, Buffered
  <2>2. \A i \in 1..((rpos + 1) - rpos) : SubSeq(buf, rpos + 1, rpos + 1)[i] = buf[rpos + i]
    BY <1>2, <2>1, PartIs
  <2> QED
    BY <2>1, <2>2
<1> HIDE DEF w
<1>7. Taken(1) = w
  <2>1. Taken(1) = <<>> \o w
    BY DEF Taken, w
  <2> QED
    BY <1>5, <2>1, ConcatEmptySeq DEF Bytes
<1> QED
  BY <1>1, <1>2, <1>3, <1>4, <1>6, <1>7, UnreadIs

LEMMA PeekByteSim ==
    ASSUME Inv, PeekByte, Apart
    PROVE  Stream!Next
<1>1. /\ st = "peek" /\ 0 < Buffered /\ UNCHANGED <<buf, typ, dropped, wire>>
      /\ IF buf[rpos + 1] = "*"
         THEN rpos' = rpos + 1 /\ Enter("multilen")
         ELSE Enter("inline") /\ UNCHANGED rpos
  BY DEF PeekByte
<1>2. err = "none" /\ acc = <<>>
  BY <1>1 DEF Inv, ReaderOK, ReaderInv
<1>3. /\ Unread # <<>> /\ Unread[1] = buf[rpos + 1] /\ Unread \in Bytes /\ Len(acc) = 0
      /\ 1 \in 0..Buffered /\ 0 \in 0..Buffered /\ rpos \in Nat
  BY <1>1, <1>2, FirstByte
<1>4. CASE buf[rpos + 1] = "*"
  <2>1. rpos' = rpos + 1 /\ Enter("multilen")
    BY <1>1, <1>4
  <2>2. Unread' = SubSeq(Unread, (Len(acc) + 1) + 1, Len(Unread))
    BY <1>1, <1>2, <1>3, <2>1, UnreadNext DEF Enter
  <2>3. (Len(acc) + 1) + 1 = 1 + 1
    BY <1>3
  <2>4. Stream!Take(1) /\ Stream!Enter("multilen")
    BY <1>1, <2>1, <2>2, <2>3, EnterSim DEF Stream!Take
  <2>5. Stream!PeekByte
    BY <1>1, <1>3, <1>4, <2>4 DEF Stream!PeekByte
  <2> QED
    BY <2>5, DecoderSim
<1>5. CASE buf[rpos + 1] # "*"
  <2>1. rpos' = rpos /\ Enter("inline")
    BY <1>1, <1>5
  <2>2. Unread' = Unread
    BY <1>1, <1>2, <2>1, UnreadSame DEF Enter
  <2>3. SubSeq(Unread, 0 + 1, Len(Unread)) = Unread
    <3>1. 0 + 1 = 1
      OBVIOUS
    <3> QED
      BY <1>3, <3>1, SubSeqFull DEF Bytes
  <2>4. Stream!Take(0) /\ Stream!Enter("inline")
    BY <1>1, <2>1, <2>2, <2>3, EnterSim DEF Stream!Take
  <2>5. Stream!PeekByte
    BY <1>1, <1>3, <1>5, <2>4 DEF Stream!PeekByte
  <2> QED
    BY <2>5, DecoderSim
<1> QED
  BY <1>4, <1>5

LEMMA ReadTypeSim ==
    ASSUME Inv, ReadType, Apart
    PROVE  Stream!Next
<1> DEFINE c == buf[rpos + 1]
<1>1. /\ st = "type" /\ 0 < Buffered /\ rpos' = rpos + 1 /\ UNCHANGED <<buf, dropped, wire>>
      /\ \/ c \in TextTypes /\ Enter("text") /\ typ' = c
         \/ c = "$" /\ Enter("bulklen") /\ typ' = c
         \/ c = "*" /\ Enter("arraylen") /\ typ' = c
         \/ c \notin TextTypes \cup {"$", "*"} /\ Fail("bad")
  BY DEF ReadType, TextTypes
<1>2. err = "none" /\ acc = <<>>
  BY <1>1 DEF Inv, ReaderOK, ReaderInv
<1>3. /\ Unread # <<>> /\ Unread[1] = c /\ Len(acc) = 0 /\ 1 \in 0..Buffered
  BY <1>1, <1>2, FirstByte
<1> HIDE DEF c
<1>4. CASE Fail("bad") /\ c \notin TextTypes \cup {"$", "*"}
  <2>1. Stream!Fail("bad")
    BY <1>4, FailSim
  <2>2. Stream!ReadType
    BY <1>1, <1>3, <1>4, <2>1, SameBytes DEF Stream!ReadType
  <2> QED
    BY <2>2, DecoderSim
<1>5. CASE \E s \in {"text", "bulklen", "arraylen"} : Enter(s)
  <2>1. err' = "none" /\ acc' = <<>>
    BY <1>2, <1>5 DEF Enter
  <2>2. Unread' = SubSeq(Unread, (Len(acc) + 1) + 1, Len(Unread))
    BY <1>1, <1>2, <1>3, <2>1, UnreadNext
  <2>3. (Len(acc) + 1) + 1 = 1 + 1
    BY <1>3
  <2>4. Stream!Take(1)
    BY <2>2, <2>3 DEF Stream!Take
  <2>5. err' # "bad"
    BY <2>1
  <2>6. \/ c \in TextTypes /\ Stream!Enter("text") /\ typ' = c
        \/ c = "$" /\ Stream!Enter("bulklen") /\ typ' = c
        \/ c = "*" /\ Stream!Enter("arraylen") /\ typ' = c
    <3>1. ~ Fail("bad")
      BY <2>5 DEF Fail
    <3> QED
      BY <1>1, <3>1, EnterSim
  <2>7. Stream!ReadType
    BY <1>1, <1>3, <2>4, <2>6, SameBytes DEF Stream!ReadType
  <2> QED
    BY <2>7, DecoderSim
<1> QED
  BY <1>1, <1>4, <1>5

\* The line that the decoder has found in the buffer is the first of the stream.
LEMMA LineRead ==
    ASSUME Inv, err = "none", NoLF(acc), IndexByte > 0
    PROVE  /\ IndexByte \in 0..Buffered /\ Len(acc) + IndexByte \in Nat \ {0}
           /\ FirstLF(Unread) = Len(acc) + IndexByte
           /\ SubSeq(Unread, 1, Len(acc) + IndexByte) = Taken(IndexByte)
           /\ Taken(IndexByte) \in Bytes /\ Unread \in Bytes
<1>1. BufferOK
  BY DEF Inv, ReaderOK
<1>2. IndexByte \in 0..Buffered /\ Buffered \in Nat
  BY <1>1, IndexIs, WindowIs
<1>3. acc \in Bytes /\ Window \in Bytes /\ Coming \in Bytes /\ Unread \in Bytes
  BY UnreadIs
<1>4. Unread = acc \o Window \o Coming
  BY UnreadIs DEF Held
<1>5. FirstLF(Window) # 0
  BY <1>2 DEF IndexByte
<1>6. FirstLF(acc \o Window \o Coming) = Len(acc) + FirstLF(Window)
  BY <1>3, <1>5, FirstLFOfConcat
<1>7. FirstLF(Unread) = Len(acc) + IndexByte
  BY <1>4, <1>6 DEF IndexByte
<1>8. Len(acc) \in Nat
  BY <1>3, LenProperties DEF Bytes
<1>9. Len(acc) + IndexByte \in Nat \ {0}
  BY <1>2, <1>8
<1>10. SubSeq(Unread, 1, Len(acc) + IndexByte) = Taken(IndexByte) /\ Taken(IndexByte) \in Bytes
  BY <1>2, UnreadTaken, HeldCut
<1> QED
  BY <1>2, <1>3, <1>7, <1>9, <1>10

\* There is no line in what the reader holds.
LEMMA NoLineHeld ==
    ASSUME Inv, err = "none", NoLF(acc), ~ (IndexByte > 0)
    PROVE  /\ IndexByte = 0 /\ NoLF(Window) /\ Held \in Bytes /\ NoLF(Held)
           /\ Len(Held) = Len(acc) + Buffered /\ Len(acc) \in Nat /\ Buffered \in 0..N
<1>1. BufferOK
  BY DEF Inv, ReaderOK
<1>2. IndexByte \in 0..Buffered /\ (IndexByte = 0 <=> NoLF(Window))
  BY <1>1, IndexIs
<1>3. Window \in Bytes /\ Len(Window) = Buffered /\ Buffered \in 0..N /\ acc \in Bytes
  BY <1>1, WindowIs DEF Inv, ReaderOK, DecoderOK
<1>4. IndexByte = 0
  BY <1>2, <1>3, ReaderAssumption
<1>5. Held \in Bytes /\ Len(Held) = Len(acc) + Len(Window) /\ Len(acc) \in Nat
  BY <1>3, ConcatProperties, LenProperties DEF Held, Bytes
<1>6. NoLF(Held)
  BY <1>2, <1>3, <1>4, NoLFConcat DEF Held
<1> QED
  BY <1>2, <1>3, <1>4, <1>5, <1>6

LEMMA ReadTextSim ==
    ASSUME Inv, ReadText, Apart
    PROVE  Stream!Next \/ UNCHANGED Stream!vars
<1>1. /\ st \in {"text", "inline"} /\ rerr = "none" /\ BufferOK
      /\ UNCHANGED <<buf, rerr, dropped, wire>>
  BY DEF ReadText, Inv, ReaderOK
<1>2. err = "none" /\ NoLF(acc) /\ acc \in Bytes
  BY <1>1 DEF Inv, ReaderOK, ReaderInv, DecoderOK
<1>3. CASE IndexByte > 0
  <2> DEFINE k == Len(acc) + IndexByte
             line == Taken(IndexByte)
             b == Chomp(line)
             bad == ~EndsInCRLF(line) \/ (st = "inline" /\ b # <<>> /\ Words(b) = <<>>)
             v == IF st = "text" THEN Stream!TextValue(b) ELSE Stream!InlineValue(b)
  <2>1. IndexByte \in 0..Buffered /\ k \in Nat \ {0} /\ FirstLF(Unread) = k
        /\ SubSeq(Unread, 1, k) = line
    BY <1>2, <1>3, LineRead
  <2>2. rpos' = rpos + IndexByte
    BY <1>3 DEF ReadText
  <2>3. Stream!TextValue(b) = Text(typ, b)
    BY SameValues DEF Stream!TextValue
  <2>4. Stream!InlineValue(b)
          = IF b = <<>> THEN Array(Nil)
            ELSE Array([j \in DOMAIN Words(b) |-> Bulk(Words(b)[j])])
    BY SameValues, SameWords DEF Stream!InlineValue
  <2>5. (bad /\ Fail("bad")) \/ (~bad /\ Return(v))
    <3>1. CASE ~EndsInCRLF(line)
      BY <1>3, <3>1 DEF ReadText, Taken
    <3>2. CASE EndsInCRLF(line) /\ st = "text"
      BY <1>3, <3>2, <2>3 DEF ReadText, Taken, DecodeText
    <3>3. CASE EndsInCRLF(line) /\ st = "inline"
      <4>1. DecodeInline(b)
        BY <1>3, <3>3 DEF ReadText, Taken
      <4> HIDE DEF b
      <4>2. CASE b = <<>>
        BY <3>3, <4>1, <4>2, <2>4 DEF DecodeInline
      <4>3. CASE b # <<>> /\ Words(b) = <<>>
        BY <3>3, <4>1, <4>3, <2>4 DEF DecodeInline
      <4>4. CASE b # <<>> /\ Words(b) # <<>>
        BY <3>3, <4>1, <4>4, <2>4 DEF DecodeInline
      <4> QED
        BY <4>2, <4>3, <4>4
    <3> QED
      BY <1>1, <3>1, <3>2, <3>3
  <2>6. Stream!FirstLF(Unread) = k /\ (Stream!EndsInCRLF(line) <=> EndsInCRLF(line))
        /\ Stream!Chomp(line) = b /\ Stream!Words(b) = Words(b)
    BY <2>1, SameLines, SameWords
  <2> DEFINE sk == Stream!FirstLF(Unread)
             sline == SubSeq(Unread, 1, sk)
             sb == Stream!Chomp(sline)
             sbad == \/ ~Stream!EndsInCRLF(sline)
                     \/ st = "inline" /\ sb # <<>> /\ Stream!Words(sb) = <<>>
  <2> HIDE DEF line, b, v, k
  <2>9. sk = k /\ sk > 0
    BY <2>1, <2>6
  <2>10. sline = line
    BY <2>1, <2>9
  <2>11. sb = b /\ (sbad <=> bad)
    BY <2>6, <2>10
  <2>7. CASE bad /\ Fail("bad")
    <3>1. Stream!Fail("bad")
      BY <2>7, FailSim
    <3>2. Stream!ReadText
      <4>1. sbad
        BY <2>7, <2>11
      <4> QED
        BY <1>1, <2>9, <4>1, <3>1 DEF Stream!ReadText
    <3> QED
      BY <3>2, DecoderSim
  <2>8. CASE ~bad /\ Return(v)
    <3>1. err' = "none" /\ acc' = <<>> /\ Stream!Return(v)
      BY <1>2, <2>8, ReturnSim DEF Return
    <3>2. Unread' = SubSeq(Unread, k + 1, Len(Unread))
      BY <1>1, <1>2, <2>1, <2>2, <3>1, UnreadNext DEF k
    <3>3. Stream!Take(sk)
      BY <2>9, <3>2 DEF Stream!Take
    <3>4. Stream!ReadText
      <4>1. ~sbad
        BY <2>8, <2>11
      <4>2. Stream!Return(IF st = "text" THEN Stream!TextValue(sb) ELSE Stream!InlineValue(sb))
        BY <2>11, <3>1 DEF v
      <4> QED
        BY <1>1, <2>9, <4>1, <4>2, <3>3 DEF Stream!ReadText
    <3> QED
      BY <3>4, DecoderSim
  <2> QED
    BY <2>5, <2>7, <2>8
<1>4. CASE ~ (IndexByte > 0)
  <2>1. acc' = Held /\ rpos' = Len(buf)
        /\ UNCHANGED <<st, typ, need, frames, ret, err, out>>
    BY <1>4 DEF ReadText, Held
  <2>2. Window' = <<>>
    <3>1. Len(buf) \in Nat /\ buf \in Seq(Byte)
      BY <1>1, LenProperties DEF BufferOK, Bytes
    <3>2. Window' = SubSeq(buf, Len(buf) + 1, Len(buf))
      BY <1>1, <2>1 DEF Window
    <3>3. SubSeq(buf, Len(buf) + 1, Len(buf)) \in Seq(Byte)
          /\ Len(SubSeq(buf, Len(buf) + 1, Len(buf))) = Len(buf) - Len(buf)
      BY <3>1, PartIs
    <3> QED
      BY <3>1, <3>2, <3>3, EmptySeq
  <2>3. acc' \o Window' = Held
    <3>1. Held \in Seq(Byte)
      BY <1>2, UnreadIs DEF Bytes
    <3> QED
      BY <2>1, <2>2, <3>1, ConcatEmptySeq
  <2>4. Unread' = Unread
    BY <1>1, <1>2, <2>1, <2>3, UnreadMoved
  <2>5. BodyLen' = BodyLen
    BY <1>1, <2>1 DEF BodyLen
  <2> QED
    BY <1>1, <2>1, <2>4, <2>5, HiddenSim DEF Hidden
<1> QED
  BY <1>3, <1>4

\* A line does not end within bytes that hold no newline.
LEMMA NoLineInFront ==
    ASSUME NEW a \in Bytes, NEW c \in Bytes, NoLF(a)
    PROVE  FirstLF(a \o c) \notin 1..Len(a) /\ Len(a \o c) >= Len(a)
<1>1. a \o c \in Bytes /\ Len(a \o c) = Len(a) + Len(c) /\ Len(a) \in Nat /\ Len(c) \in Nat
  BY FrontTaken
<1>2. ASSUME FirstLF(a \o c) \in 1..Len(a) PROVE FALSE
  <2> DEFINE i == FirstLF(a \o c)
  <2>1. (a \o c)[i] = LF
    <3> DEFINE s == a \o c
    <3>1. s \in Bytes /\ FirstLF(s) # 0
      BY <1>1, <1>2
    <3> HIDE DEF s
    <3>2. s[FirstLF(s)] = LF
      BY <3>1, FirstLFIs
    <3> QED
      BY <3>2 DEF s
  <2> HIDE DEF i
  <2>2. i \in 1..Len(a)
    BY <1>2 DEF i
  <2>3. i \in 1..(Len(a) + Len(c)) /\ i <= Len(a)
    BY <1>1, <2>2
  <2>4. (a \o c)[i] = a[i]
    BY <2>3, ConcatProperties DEF Bytes
  <2> QED
    BY <2>1, <2>2, <2>4 DEF NoLF
<1> QED
  BY <1>1, <1>2

\* What the decoder does with a length.
LEMMA HeaderSim ==
    ASSUME NEW n \in Int, acc = <<>>, err = "none",
           \/ st = "bulklen" /\ BulkHeader(n)
           \/ st = "arraylen" /\ ArrayHeader(n)
           \/ st = "multilen" /\ MultiHeader(n)
    PROVE  \/ Fail("bad") /\ ~Stream!LengthOk(n)
           \/ /\ Stream!LengthOk(n) /\ err' = "none" /\ acc' = <<>>
              /\ \/ st = "bulklen" /\ Stream!BulkHeader(n)
                 \/ st = "arraylen" /\ Stream!ArrayHeader(n)
                 \/ st = "multilen" /\ Stream!OpenArray(n, TRUE)
<1>1. MaxBulkBytesLen \in Nat /\ MaxArrayLen \in Nat
  BY ReaderAssumption
<1>2. CASE st = "bulklen" /\ BulkHeader(n)
  <2>1. CASE n < -1 \/ n > MaxBulkBytesLen
    <3>1. Fail("bad")
      BY <1>1, <1>2, <2>1 DEF BulkHeader
    <3>2. ~Stream!LengthOk(n)
      BY <1>1, <1>2, <2>1 DEF Stream!LengthOk
    <3> QED
      BY <3>1, <3>2
  <2>2. CASE n = -1
    <3>1. Return(Bulk(Nil))
      BY <1>1, <1>2, <2>2 DEF BulkHeader
    <3>2. Stream!Return(Stream!Bulk(Nil))
      BY <3>1, ReturnSim, SameValues
    <3>3. err' = "none" /\ acc' = <<>>
      BY <3>1 DEF Return
    <3>4. Stream!LengthOk(n)
      BY <1>1, <1>2, <2>2 DEF Stream!LengthOk
    <3> QED
      BY <1>2, <2>2, <3>2, <3>3, <3>4 DEF Stream!BulkHeader
  <2>3. CASE n \in 0..MaxBulkBytesLen
    <3>1. st' = "body" /\ need' = n + 2 /\ UNCHANGED <<typ, acc, frames, ret, err, out>>
      BY <1>1, <1>2, <2>3 DEF BulkHeader
    <3>2. BodyLen' = n + 2
      BY <2>3, <3>1, EmptyBytes DEF BodyLen
    <3>3. Stream!LengthOk(n)
      BY <1>1, <1>2, <2>3 DEF Stream!LengthOk
    <3>4. Stream!BulkHeader(n)
      BY <2>3, <3>1, <3>2 DEF Stream!BulkHeader
    <3> QED
      BY <1>2, <3>1, <3>3, <3>4
  <2>4. n < -1 \/ n > MaxBulkBytesLen \/ n = -1 \/ n \in 0..MaxBulkBytesLen
    BY <1>1
  <2> QED
    BY <2>1, <2>2, <2>3, <2>4, Zenon
<1>3. CASE st = "arraylen" /\ ArrayHeader(n)
  <2>1. CASE n < -1 \/ n > MaxArrayLen
    <3>1. Fail("bad")
      BY <1>1, <1>3, <2>1 DEF ArrayHeader, OpenArray
    <3>2. ~Stream!LengthOk(n)
      BY <1>1, <1>3, <2>1 DEF Stream!LengthOk
    <3> QED
      BY <3>1, <3>2
  <2>2. CASE n = -1 \/ n = 0
    <3>1. (n = -1 /\ Return(Array(Nil))) \/ (n = 0 /\ Return(Array(<<>>)))
      BY <1>1, <1>3, <2>2 DEF ArrayHeader, OpenArray
    <3>2. \/ n = -1 /\ Stream!Return(Stream!Array(Nil))
          \/ n = 0 /\ Stream!Return(Stream!Array(<<>>))
      BY <3>1, ReturnSim, SameValues
    <3>3. err' = "none" /\ acc' = <<>>
      BY <3>1 DEF Return
    <3>4. Stream!LengthOk(n)
      BY <1>1, <1>3, <2>2 DEF Stream!LengthOk
    <3>5. Stream!ArrayHeader(n)
      BY <3>2 DEF Stream!ArrayHeader, Stream!OpenArray
    <3> QED
      BY <1>3, <3>3, <3>4, <3>5
  <2>3. CASE n \in 1..MaxArrayLen
    <3>1. /\ frames' = Append(frames, [n |-> n, got |-> <<>>, multi |-> FALSE])
          /\ st' = "type" /\ typ' = Nil /\ UNCHANGED <<acc, need, ret, err, out>>
      BY <1>1, <1>3, <2>3 DEF ArrayHeader, OpenArray
    <3>2. BodyLen' = BodyLen
      BY <1>3, <3>1 DEF BodyLen
    <3>3. Stream!LengthOk(n)
      BY <1>1, <1>3, <2>3 DEF Stream!LengthOk
    <3>4. Stream!ArrayHeader(n)
      BY <2>3, <3>1, <3>2 DEF Stream!ArrayHeader, Stream!OpenArray
    <3> QED
      BY <1>3, <3>1, <3>3, <3>4
  <2>4. n < -1 \/ n > MaxArrayLen \/ n = -1 \/ n = 0 \/ n \in 1..MaxArrayLen
    BY <1>1
  <2> QED
    BY <2>1, <2>2, <2>3, <2>4, Zenon
<1>4. CASE st = "multilen" /\ MultiHeader(n)
  <2>1. CASE n <= 0 \/ n > MaxArrayLen
    <3>1. Fail("bad")
      BY <1>1, <1>4, <2>1 DEF MultiHeader, OpenArray
    <3>2. ~Stream!LengthOk(n)
      BY <1>1, <1>4, <2>1 DEF Stream!LengthOk
    <3> QED
      BY <3>1, <3>2
  <2>2. CASE n \in 1..MaxArrayLen
    <3>1. /\ frames' = Append(frames, [n |-> n, got |-> <<>>, multi |-> TRUE])
          /\ st' = "type" /\ typ' = Nil /\ UNCHANGED <<acc, need, ret, err, out>>
      BY <1>1, <1>4, <2>2 DEF MultiHeader, OpenArray
    <3>2. BodyLen' = BodyLen
      BY <1>4, <3>1 DEF BodyLen
    <3>3. Stream!LengthOk(n)
      BY <1>1, <1>4, <2>2 DEF Stream!LengthOk
    <3> QED
      BY <1>4, <3>1, <3>2, <3>3 DEF Stream!OpenArray
  <2>3. n <= 0 \/ n > MaxArrayLen \/ n \in 1..MaxArrayLen
    BY <1>1
  <2> QED
    BY <2>1, <2>2, <2>3, Zenon
<1> QED
  BY <1>2, <1>3, <1>4

LEMMA ReadIntSim ==
    ASSUME Inv, ReadInt, Apart
    PROVE  Stream!Next
<1>1. /\ st \in {"bulklen", "arraylen", "multilen"} /\ rerr = "none" /\ BufferOK
      /\ UNCHANGED <<buf, rerr, dropped, wire>>
  BY DEF ReadInt, Inv, ReaderOK
<1>2. err = "none" /\ acc = <<>> /\ NoLF(acc) /\ Len(acc) = 0
  BY <1>1, EmptyBytes DEF Inv, ReaderOK, ReaderInv
<1> DEFINE sk == Stream!FirstLF(Unread)
           sline == SubSeq(Unread, 1, sk)
           sb == Stream!Chomp(sline)
           sn == Stream!Btoi64(sb)
           sbad == ~Stream!EndsInCRLF(sline) \/ ~Stream!IsNumber(sb) \/ ~Stream!LengthOk(sn)
<1>3. CASE IndexByte > 0
  <2> DEFINE line == SubSeq(buf, rpos + 1, rpos + IndexByte)
             b == Chomp(line)
             n == Btoi64(b)
  <2>1. rpos' = rpos + IndexByte
    BY <1>3 DEF ReadInt
  <2>2. IndexByte \in 0..Buffered /\ line \in Bytes
    BY <1>1, IndexIs
  <2>3. line = Taken(IndexByte)
    <3>1. <<>> \o line = line
      BY <2>2, ConcatEmptySeq DEF Bytes
    <3> QED
      BY <1>2, <3>1 DEF Taken
  <2>4. FirstLF(Unread) = Len(acc) + IndexByte
        /\ SubSeq(Unread, 1, Len(acc) + IndexByte) = Taken(IndexByte)
    BY <1>2, <1>3, LineRead
  <2>5. Len(acc) + IndexByte = IndexByte /\ IndexByte \in 1..N
    <3>1. Buffered \in 0..N /\ N \in Nat
      BY <1>1, WindowIs, ReaderAssumption
    <3> QED
      BY <1>2, <1>3, <2>2, <3>1
  <2>6. sk = IndexByte
    BY <2>4, <2>5, SameLines
  <2>7. sline = line
    BY <2>3, <2>4, <2>5, <2>6
  <2>8. sb = b /\ sn = n /\ (Stream!EndsInCRLF(sline) <=> EndsInCRLF(line))
        /\ (Stream!IsNumber(sb) <=> IsNumber(b))
    BY <2>7, SameLines, SameInts
  <2>9. CASE ~EndsInCRLF(line) \/ ~IsNumber(b)
    <3>1. Fail("bad")
      BY <1>3, <2>9 DEF ReadInt
    <3>2. Stream!Fail("bad")
      BY <3>1, FailSim
    <3>3. sbad
      BY <2>8, <2>9
    <3>4. sk \in 1..N
      BY <2>5, <2>6
    <3> HIDE DEF sbad, sk
    <3>5. Stream!ReadInt
      BY <1>1, <3>2, <3>3, <3>4 DEF Stream!ReadInt, sbad, sk
    <3> QED
      BY <3>5, DecoderSim
  <2>10. CASE EndsInCRLF(line) /\ IsNumber(b)
    <3>1. n \in Int
      <4>1. b \in Bytes
        BY <2>2, <2>10, ChompTyped
      <4> QED
        BY <4>1, <2>10, Btoi64Typed
    <3>2. \/ st = "bulklen" /\ BulkHeader(n)
          \/ st = "arraylen" /\ ArrayHeader(n)
          \/ st = "multilen" /\ MultiHeader(n)
      BY <1>1, <1>3, <2>10 DEF ReadInt
    <3>3. n = sn /\ Stream!EndsInCRLF(sline) /\ Stream!IsNumber(sb) /\ sk \in 1..N
      BY <2>5, <2>6, <2>8, <2>10
    <3>4. \/ Fail("bad") /\ ~Stream!LengthOk(n)
          \/ /\ Stream!LengthOk(n) /\ err' = "none" /\ acc' = <<>>
             /\ \/ st = "bulklen" /\ Stream!BulkHeader(n)
                \/ st = "arraylen" /\ Stream!ArrayHeader(n)
                \/ st = "multilen" /\ Stream!OpenArray(n, TRUE)
      <4> HIDE DEF n
      <4> QED
        BY <1>2, <3>1, <3>2, HeaderSim
    <3>5. CASE Fail("bad") /\ ~Stream!LengthOk(n)
      <4>1. Stream!Fail("bad")
        BY <3>5, FailSim
      <4>2. sbad
        BY <3>3, <3>5
      <4>3. Stream!ReadInt
        <5> HIDE DEF sbad, sk
        <5> QED
          BY <1>1, <3>3, <4>1, <4>2 DEF Stream!ReadInt, sbad, sk
      <4> QED
        BY <4>3, DecoderSim
    <3>6. CASE /\ Stream!LengthOk(n) /\ err' = "none" /\ acc' = <<>>
               /\ \/ st = "bulklen" /\ Stream!BulkHeader(n)
                  \/ st = "arraylen" /\ Stream!ArrayHeader(n)
                  \/ st = "multilen" /\ Stream!OpenArray(n, TRUE)
      <4>1. Unread' = SubSeq(Unread, (Len(acc) + IndexByte) + 1, Len(Unread))
        BY <1>1, <1>2, <2>1, <2>2, <3>6, UnreadNext
      <4>2. Stream!Take(sk)
        BY <2>5, <2>6, <4>1 DEF Stream!Take
      <4>3. ~sbad
        BY <3>3, <3>6
      <4>4. \/ st = "bulklen" /\ Stream!BulkHeader(sn)
            \/ st = "arraylen" /\ Stream!ArrayHeader(sn)
            \/ st = "multilen" /\ Stream!OpenArray(sn, TRUE)
        BY <3>3, <3>6 DEF Stream!OpenArray
      <4>5. Stream!ReadInt
        BY <1>1, <3>3, <4>2, <4>3, <4>4 DEF Stream!ReadInt
      <4> QED
        BY <4>5, DecoderSim
    <3> QED
      BY <3>4, <3>5, <3>6
  <2> QED
    BY <2>9, <2>10
<1>4. CASE ~ (IndexByte > 0)
  <2>1. Buffered = N /\ Fail("bad")
    BY <1>4 DEF ReadInt
  <2>2. Held \in Bytes /\ NoLF(Held) /\ Len(Held) = N
    <3>1. Held \in Bytes /\ NoLF(Held) /\ Len(Held) = Len(acc) + Buffered
      BY <1>2, <1>4, NoLineHeld
    <3> QED
      BY <1>2, <2>1, <3>1, ReaderAssumption
  <2>3. Unread = Held \o Coming /\ Coming \in Bytes
    BY <1>2, UnreadIs
  <2>4. FirstLF(Held \o Coming) \notin 1..Len(Held) /\ Len(Held \o Coming) >= Len(Held)
    <3>1. Coming \in Bytes
      BY <2>3
    <3> QED
      BY <2>2, <3>1, NoLineInFront
  <2>5. sk \notin 1..N /\ Len(Unread) >= N
    BY <2>2, <2>3, <2>4, SameLines
  <2>6. Stream!Fail("bad")
    BY <2>1, FailSim
  <2>7. Stream!ReadInt
    <3> HIDE DEF sk
    <3> QED
      BY <1>1, <2>5, <2>6 DEF Stream!ReadInt, sk
  <2> QED
    BY <2>7, DecoderSim
<1> QED
  BY <1>3, <1>4

LEMMA BodyDoneSim ==
    ASSUME Inv, BodyDone, Apart
    PROVE  Stream!Next
<1>1. /\ st = "body" /\ need = 0 /\ BufferOK /\ UNCHANGED <<buf, rpos, dropped, wire>>
      /\ IF SubSeq(acc, Len(acc) - 1, Len(acc)) = CRLF
         THEN Return(Bulk(Chomp(acc))) ELSE Fail("bad")
  BY DEF BodyDone, Inv, ReaderOK
<1>2. err = "none" /\ acc \in Bytes /\ Len(acc) \in Nat
  BY <1>1, LenProperties DEF Inv, ReaderOK, ReaderInv, DecoderOK, Bytes
<1>3. BodyLen = Len(acc)
  BY <1>1, <1>2 DEF BodyLen
<1>4. 0 \in 0..Buffered /\ rpos + 0 = rpos /\ Len(acc) + 0 = Len(acc)
  BY <1>1, <1>2, WindowIs DEF BufferOK
<1>5. Taken(0) = acc
  <2>1. BufferOK /\ Len(SubSeq(buf, rpos + 1, rpos + 0)) = 0
        /\ SubSeq(buf, rpos + 1, rpos + 0) \in Seq(Byte)
    BY <1>1, <1>4, WindowCut DEF Bytes
  <2>2. SubSeq(buf, rpos + 1, rpos + 0) = <<>>
    BY <2>1, EmptySeq
  <2>3. acc \o <<>> = acc
    BY <1>2, ConcatEmptySeq DEF Bytes
  <2> QED
    BY <2>2, <2>3 DEF Taken
<1>6. SubSeq(Unread, 1, Len(acc)) = acc /\ Len(Unread) >= Len(acc)
  BY <1>2, <1>4, <1>5, UnreadTaken
<1>7. Stream!CRLF = CRLF /\ Stream!Bulk(Stream!Chomp(acc)) = Bulk(Chomp(acc))
  BY SameBytes, SameLines, SameValues
<1> DEFINE sb == SubSeq(Unread, 1, BodyLen)
<1>8. sb = acc
  BY <1>3, <1>6
<1>9. CASE SubSeq(acc, Len(acc) - 1, Len(acc)) = CRLF
  <2>1. Return(Bulk(Chomp(acc)))
    BY <1>1, <1>9
  <2>2. err' = "none" /\ acc' = <<>>
    BY <1>2, <2>1 DEF Return
  <2>3. Stream!Return(Stream!Bulk(Stream!Chomp(sb)))
    BY <1>7, <1>8, <2>1, ReturnSim
  <2>4. Unread' = SubSeq(Unread, (Len(acc) + 0) + 1, Len(Unread))
    BY <1>1, <1>2, <1>4, <2>2, UnreadNext
  <2>5. Stream!Take(BodyLen)
    BY <1>3, <1>4, <2>4 DEF Stream!Take
  <2>6. SubSeq(sb, Len(sb) - 1, Len(sb)) = Stream!CRLF /\ Len(Unread) >= BodyLen
    BY <1>3, <1>6, <1>7, <1>8, <1>9
  <2>7. Stream!ReadBody
    BY <1>1, <2>3, <2>5, <2>6 DEF Stream!ReadBody
  <2> QED
    BY <2>7, DecoderSim
<1>10. CASE SubSeq(acc, Len(acc) - 1, Len(acc)) # CRLF
  <2>1. Stream!Fail("bad")
    BY <1>1, <1>10, FailSim
  <2>2. SubSeq(sb, Len(sb) - 1, Len(sb)) # Stream!CRLF /\ Len(Unread) >= BodyLen
    BY <1>3, <1>6, <1>7, <1>8, <1>10
  <2>3. Stream!ReadBody
    BY <1>1, <2>1, <2>2 DEF Stream!ReadBody
  <2> QED
    BY <2>3, DecoderSim
<1> QED
  BY <1>9, <1>10

LEMMA DeliverSim ==
    ASSUME Inv, Deliver, Apart
    PROVE  Stream!Next
<1> DEFINE f == Last(frames)
           got == Append(f.got, ret)
<1>1. st = "ret" /\ UNCHANGED <<buf, rpos, rerr, dropped, wire>>
  BY DEF Deliver
<1>2. err = "none" /\ acc = <<>>
  BY <1>1 DEF Inv, ReaderOK, ReaderInv
<1>3. f = Stream!Last(frames) /\ Front(frames) = Stream!Front(frames)
      /\ Array(got) = Stream!Array(got)
  BY SameValues DEF Last, Front, Stream!Last, Stream!Front
<1>4. CASE frames # <<>> /\ f.multi /\ ret.type # "$"
  <2>1. Fail("bad")
    BY <1>4 DEF Deliver
  <2>2. Stream!Fail("bad")
    BY <2>1, FailSim
  <2>3. Stream!Deliver
    BY <1>1, <1>3, <1>4, <2>2 DEF Stream!Deliver
  <2> QED
    BY <2>3, DecoderSim
<1>5. CASE frames = <<>>
  <2>1. /\ out' = Append(out, ret) /\ st' = "idle" /\ ret' = Nil
        /\ UNCHANGED <<typ, acc, need, frames, err>>
    BY <1>5 DEF Deliver
  <2>2. Unread' = Unread
    BY <1>1, <1>2, <2>1, UnreadSame
  <2>3. BodyLen' = BodyLen
    BY <1>1, <2>1 DEF BodyLen
  <2>4. Stream!Deliver
    BY <1>1, <1>5, <2>1, <2>2, <2>3 DEF Stream!Deliver
  <2> QED
    BY <2>4, DecoderSim
<1>6. CASE frames # <<>> /\ ~ (f.multi /\ ret.type # "$")
  <2>1. /\ IF Len(got) = f.n
           THEN frames' = Front(frames) /\ ret' = Array(got) /\ st' = "ret"
           ELSE /\ frames' = Append(Front(frames), [f EXCEPT !.got = got])
                /\ ret' = Nil /\ st' = "type"
        /\ UNCHANGED <<typ, acc, need, err, out>>
    BY <1>6 DEF Deliver
  <2>2. Unread' = Unread
    BY <1>1, <1>2, <2>1, UnreadSame
  <2>3. BodyLen' = BodyLen
    BY <1>1, <2>1 DEF BodyLen
  <2>4. Stream!Deliver
    BY <1>1, <1>3, <1>6, <2>1, <2>2, <2>3 DEF Stream!Deliver
  <2> QED
    BY <2>4, DecoderSim
<1> QED
  BY <1>4, <1>5, <1>6

LEMMA ReadingIs ==
    ASSUME Inv, NeedsFill \/ NeedsDirect
    PROVE  st \in Stream!Reading /\ err = "none" /\ rerr = "none"
<1>1. st \in {"peek", "type", "text", "inline", "bulklen", "arraylen", "multilen", "body"}
      /\ rerr = "none"
  BY DEF NeedsFill, NeedsDirect, Lines
<1> QED
  BY <1>1 DEF Inv, ReaderOK, ReaderInv, Stream!Reading

\* A reader that asks for bytes does not hold what the decoder wants.
LEMMA HeldIncomplete ==
    ASSUME Inv, NeedsFill \/ NeedsDirect, Unread = Held
    PROVE  Stream!Incomplete
<1>1. err = "none" /\ BufferOK
  BY ReadingIs DEF Inv, ReaderOK
<1>2. acc \in Bytes /\ Len(acc) \in Nat /\ need \in Nat /\ N \in Nat \ {0}
  BY LenProperties, ReaderAssumption DEF Inv, ReaderOK, DecoderOK, Bytes
<1>3. CASE st \in {"peek", "type"}
  <2>1. Buffered = 0 /\ acc = <<>>
    BY <1>3 DEF NeedsFill, NeedsDirect, Lines, Inv, ReaderOK, ReaderInv
  <2>2. Unread = <<>>
    BY <2>1, HeldAcc
  <2> QED
    BY <1>3, <2>2 DEF Stream!Incomplete
<1>4. CASE st \in {"text", "inline", "bulklen", "arraylen", "multilen"}
  <2>1. IndexByte = 0 /\ Buffered < N
    BY <1>4 DEF NeedsFill, NeedsDirect
  <2>2. NoLF(acc)
    BY <1>4, EmptyBytes DEF Inv, ReaderOK, ReaderInv
  <2>3. ~ (IndexByte > 0)
    BY <2>1
  <2>4. Held \in Bytes /\ NoLF(Held) /\ Len(Held) = Len(acc) + Buffered /\ Buffered \in 0..N
    BY <1>1, <2>2, <2>3, NoLineHeld
  <2>5. FirstLF(Held) = 0
    BY <2>4, FirstLFIs
  <2>6. Stream!FirstLF(Unread) = 0
    BY <2>5, SameLines
  <2>7. CASE st \in {"text", "inline"}
    BY <2>6, <2>7 DEF Stream!Incomplete
  <2>8. CASE st \in {"bulklen", "arraylen", "multilen"}
    <3>1. Len(acc) = 0
      BY <2>8, EmptyBytes DEF Inv, ReaderOK, ReaderInv
    <3>2. Len(Unread) < N
      BY <1>2, <2>1, <2>4, <3>1
    <3> QED
      BY <2>6, <2>8, <3>2 DEF Stream!Incomplete
  <2> QED
    BY <1>4, <2>7, <2>8
<1>5. CASE st = "body"
  <2>1. Buffered = 0 /\ need > 0
    <3>1. Buffered = 0 /\ (need > 0 \/ need >= N)
      BY <1>5 DEF NeedsFill, NeedsDirect, Lines
    <3> QED
      BY <1>2, <3>1
  <2>2. Unread = acc
    BY <2>1, HeldAcc
  <2>3. Len(Unread) < BodyLen
    BY <1>2, <1>5, <2>1, <2>2 DEF BodyLen
  <2> QED
    BY <1>5, <2>3 DEF Stream!Incomplete
<1> QED
  BY <1>3, <1>4, <1>5, ReadingIs DEF Stream!Reading

\* At its end the stream is what the reader holds and the bytes under way.
LEMMA UnreadAtEnd ==
    ASSUME Inv, closed, err = "none"
    PROVE  /\ Unread = Held \o wire /\ Held \in Bytes /\ wire \in Bytes
           /\ Len(Unread) = Len(Held) + Len(wire) /\ Len(Held) \in Nat /\ Len(wire) \in Nat
           /\ wire = <<>> => Unread = Held
<1>1. Held \in Bytes /\ wire \in Bytes
  BY UnreadIs
<1>2. Unread = Held \o wire
  BY UnreadIs, NothingComes
<1>3. Len(Held \o wire) = Len(Held) + Len(wire) /\ Len(Held) \in Nat /\ Len(wire) \in Nat
  BY <1>1, FrontTaken
<1>4. Held \o <<>> = Held
  BY <1>1, ConcatEmptySeq DEF Bytes
<1> QED
  BY <1>1, <1>2, <1>3, <1>4

LEMMA ReaderFailedSim ==
    ASSUME Inv, ReaderFailed, Apart
    PROVE  Stream!Next
<1>1. /\ st \in {"peek", "type"} /\ rerr # "none" /\ Fail(rerr) /\ UNCHANGED dropped
  BY DEF ReaderFailed
<1>2. /\ err = "none" /\ acc = <<>> /\ rerr = "eof" /\ closed /\ wire = <<>>
      /\ rpos = Len(buf) /\ BufferOK
  BY <1>1 DEF Inv, ReaderOK, ReaderInv
<1>3. Buffered = 0
  BY <1>2, LenProperties DEF Buffered, BufferOK, Bytes
<1>4. Unread = <<>>
  BY <1>2, <1>3, HeldAcc, UnreadAtEnd
<1>5. Stream!Incomplete
  BY <1>1, <1>4 DEF Stream!Incomplete
<1>6. Stream!Fail("eof")
  BY <1>1, <1>2, FailSim
<1>7. Stream!Ends
  BY <1>1, <1>2, <1>5, <1>6 DEF Stream!Ends, Stream!Reading
<1> QED
  BY <1>7, DecoderSim

LEMMA ReadFailsSim ==
    ASSUME Inv, NEW e \in {"eof", "io"}, ReadFails(e), Apart
    PROVE  Stream!Next
<1>1. (NeedsFill \/ NeedsDirect) /\ Fail(e) /\ UNCHANGED dropped
  BY DEF ReadFails
<1>2. st \in Stream!Reading /\ err = "none"
  BY <1>1, ReadingIs
<1>3. Stream!Fail(e)
  BY <1>1, FailSim
<1>4. CASE e = "eof"
  <2>1. closed /\ wire = <<>>
    BY <1>4 DEF ReadFails
  <2>2. Unread = Held
    BY <1>2, <2>1, UnreadAtEnd
  <2>3. Stream!Incomplete
    BY <1>1, <2>2, HeldIncomplete
  <2>4. Stream!Ends
    BY <1>1, <1>2, <1>3, <1>4, <2>1, <2>3 DEF Stream!Ends
  <2> QED
    BY <2>4, DecoderSim
<1>5. CASE e = "io"
  <2>1. MayFail
    BY <1>5 DEF ReadFails
  <2>2. Stream!ReadFails
    BY <1>1, <1>2, <1>3, <1>5, <2>1 DEF Stream!ReadFails
  <2> QED
    BY <2>2, DecoderSim
<1> QED
  BY <1>4, <1>5

LEMMA ReadsLastSim ==
    ASSUME Inv, ReadsLast, Apart
    PROVE  Stream!Next \/ UNCHANGED Stream!vars
<1>1. closed /\ wire # <<>> /\ wire' = <<>> /\ (NeedsFill \/ NeedsDirect)
  BY DEF ReadsLast
<1>2. st \in Stream!Reading /\ err = "none"
  BY <1>1, ReadingIs
<1>3. /\ Unread = Held \o wire /\ Held \in Bytes /\ wire \in Bytes
      /\ Len(Unread) = Len(Held) + Len(wire) /\ Len(Held) \in Nat /\ Len(wire) \in Nat
  BY <1>1, <1>2, UnreadAtEnd
<1>4. CASE NeedsFill /\ dropped' = TRUE /\ Fail("eof")
  <2>1. Unread # <<>>
    <3>1. Len(wire) # 0
      BY <1>1, <1>3, EmptySeq DEF Bytes
    <3>2. Len(Unread) # 0
      BY <1>3, <3>1
    <3> QED
      BY <3>2, EmptySeq
  <2>2. Stream!Fail("eof")
    BY <1>4, FailSim
  <2>3. Stream!Ends
    BY <1>1, <1>2, <1>4, <2>1, <2>2 DEF Stream!Ends
  <2> QED
    BY <2>3, DecoderSim
<1>5. CASE NeedsDirect /\ Len(wire) < need /\ Fail("eof") /\ UNCHANGED dropped
  <2>1. st = "body" /\ Buffered = 0 /\ need \in Nat
    BY <1>5 DEF NeedsDirect, Inv, ReaderOK, DecoderOK
  <2>2. Held = acc
    BY <2>1, HeldAcc
  <2>3. Len(Unread) < BodyLen
    BY <1>3, <1>5, <2>1, <2>2 DEF BodyLen
  <2>4. Stream!Incomplete
    BY <2>1, <2>3 DEF Stream!Incomplete
  <2>5. Stream!Fail("eof")
    BY <1>5, FailSim
  <2>6. Stream!Ends
    BY <1>1, <1>2, <1>5, <2>4, <2>5 DEF Stream!Ends
  <2> QED
    BY <2>6, DecoderSim
<1>6. CASE /\ NeedsDirect /\ Len(wire) <= need /\ ~ (Len(wire) < need)
           /\ acc' = acc \o wire /\ need' = 0
           /\ UNCHANGED <<st, typ, frames, ret, err, out>>
           /\ UNCHANGED <<buf, rpos, dropped>>
  <2>1. st = "body" /\ Buffered = 0 /\ need \in Nat
    BY <1>6 DEF NeedsDirect, Inv, ReaderOK, DecoderOK
  <2>2. Held = acc /\ Window = <<>> /\ Window' = <<>>
    BY <1>6, <2>1, HeldAcc DEF Window
  <2>3. Len(wire) = need
    BY <1>3, <1>6, <2>1
  <2>4. acc \o wire \in Bytes /\ Len(acc \o wire) = Len(acc) + Len(wire) /\ Len(acc) \in Nat
    <3>1. acc \in Bytes /\ wire \in Bytes
      BY <1>3, <2>2
    <3> QED
      BY <3>1, FrontTaken
  <2>5. ((acc \o wire) \o <<>>) \o <<>> = acc \o wire
    BY <2>4, ConcatEmptySeq DEF Bytes
  <2>6. (acc' \o Window') \o wire' = Held \o wire
    BY <1>1, <1>6, <2>2, <2>5
  <2>7. Unread' = Unread
    BY <1>2, <1>6, <2>6, UnreadMoved
  <2>8. BodyLen' = BodyLen
    <3>1. Len(acc') + need' = Len(acc) + need
      BY <1>6, <2>1, <2>3, <2>4
    <3> QED
      BY <1>6, <2>1, <3>1 DEF BodyLen
  <2> QED
    BY <1>6, <2>7, <2>8, HiddenSim DEF Hidden
<1> QED
  BY <1>4, <1>5, <1>6 DEF ReadsLast

LEMMA ReaderSim ==
    ASSUME Inv, ReaderNext, Apart
    PROVE  Stream!Next \/ UNCHANGED Stream!vars
<1>1. CASE \E n \in 1..N : Fill(n)
  BY <1>1, FillSim
<1>2. CASE \E n \in 1..(MaxBulkBytesLen + 2) : DirectRead(n)
  <2>1. PICK n \in 1..(MaxBulkBytesLen + 2) : DirectRead(n)
    BY <1>2
  <2>2. n \in Nat
    BY <2>1
  <2> QED
    BY <2>1, <2>2, DirectReadSim
<1>3. CASE ReadFails("eof") \/ ReadFails("io") \/ ReadsLast \/ ReaderFailed
  BY <1>3, ReadFailsSim, ReadsLastSim, ReaderFailedSim
<1>4. CASE Decode \/ PeekByte \/ ReadType \/ ReadText
  BY <1>4, DecodeSim, PeekByteSim, ReadTypeSim, ReadTextSim
<1>5. CASE ReadInt \/ CopyBody \/ BodyDone \/ Deliver
  BY <1>5, ReadIntSim, CopyBodySim, BodyDoneSim, DeliverSim
<1> QED
  BY <1>1, <1>2, <1>3, <1>4, <1>5 DEF ReaderNext, Proceed

-----------------------------------------------------------------------------
(* A step of the writer is a step of the stream's encoder, or none *)

\* The variables of the stream that a step of the writer leaves alone.
Still == UNCHANGED <<rvars, multi>>

\* The bytes of the call under way.
Underway == IF todo # <<>> /\ Head(todo).op \in Writes THEN Head(todo).b ELSE <<>>

LEMMA EncoderSim ==
    ASSUME Still,
           \/ Stream!Encode \/ Stream!EncodeResp \/ Stream!WriteSome \/ Stream!Break
           \/ Stream!Close
    PROVE  Stream!Next
<1>1. UNCHANGED <<multi, st, typ, frames, ret, err, out, dropped>> /\ BodyLen' = BodyLen
  BY DEF Still, rvars, BodyLen
<1> QED
  BY <1>1 DEF Stream!Next, Stream!EncoderNext, Stream!decoder

LEMMA UnreadKept ==
    ASSUME Still, UNCHANGED <<wire, wbuf, werr>>
    PROVE  Unread' = Unread
BY DEF Still, rvars, Unread, Window

LEMMA UnderwayIs ==
    ASSUME Inv
    PROVE  Underway \in Bytes
<1>1. WriterTypeOK
  BY DEF Inv
<1>2. CASE todo # <<>> /\ Head(todo).op \in Writes
  BY <1>1, <1>2, TodoIs DEF Underway
<1> QED
  BY <1>2, EmptyBytes DEF Underway

\* The unread bytes after a step of the writer.
LEMMA UnreadWritten ==
    ASSUME Inv, Still, err = "none", wire' \in Bytes, Behind' \in Bytes
    PROVE  Unread' = Held \o (wire' \o Behind')
<1> DEFINE w == wire'
           h == Behind'
<1>1. Held \in Seq(Byte) /\ w \in Seq(Byte) /\ h \in Seq(Byte)
  BY UnreadIs DEF Bytes
<1>2. Unread' = (Held \o w) \o h
  BY DEF Still, rvars, Unread, Held, Behind, Window
<1> HIDE DEF w, h
<1>3. (Held \o w) \o h = Held \o (w \o h)
  BY <1>1, ConcatAssociative
<1>4. Unread' = Held \o (w \o h)
  BY <1>2, <1>3
<1> QED
  BY <1>4 DEF w, h

\* The writer takes b, for its buffer or for the connection.
LEMMA UnreadGrows ==
    ASSUME Inv, Still, err = "none", wire' \in Bytes, Behind' \in Bytes,
           NEW b \in Bytes, wire' \o Behind' = Coming \o b
    PROVE  Unread' = Unread \o b
<1>1. Unread' = Held \o (Coming \o b)
  BY UnreadWritten
<1>2. Held \in Seq(Byte) /\ Coming \in Seq(Byte) /\ b \in Seq(Byte)
  BY UnreadIs DEF Bytes
<1>3. Unread = Held \o Coming
  BY UnreadIs
<1>4. ASSUME NEW h \in Seq(Byte), NEW c \in Seq(Byte), NEW d \in Seq(Byte)
      PROVE  h \o (c \o d) = (h \o c) \o d
  BY <1>4, ConcatAssociative
<1>5. Held \o (Coming \o b) = (Held \o Coming) \o b
  BY <1>2, <1>4
<1> QED
  BY <1>1, <1>3, <1>5

LEMMA Regroup ==
    /\ \A h, w \in Bytes : h \o w \in Bytes
    /\ \A h, w, p \in Bytes : (h \o w) \o p = h \o (w \o p)
    /\ \A h, w, p, q \in Bytes : (h \o (w \o p)) \o q = (h \o w) \o (p \o q)
<1>1. ASSUME NEW h \in Bytes, NEW w \in Bytes PROVE h \o w \in Bytes
  BY <1>1, ConcatProperties DEF Bytes
<1>2. ASSUME NEW h \in Bytes, NEW w \in Bytes, NEW p \in Bytes
      PROVE  (h \o w) \o p = h \o (w \o p)
  BY <1>2, ConcatAssociative DEF Bytes
<1>3. ASSUME NEW h \in Bytes, NEW w \in Bytes, NEW p \in Bytes, NEW q \in Bytes
      PROVE  (h \o (w \o p)) \o q = (h \o w) \o (p \o q)
  <2>1. h \o w \in Bytes
    BY <1>1, Zenon
  <2>2. ((h \o w) \o p) \o q = (h \o w) \o (p \o q)
    BY <1>2, <2>1, Zenon
  <2>3. (h \o w) \o p = h \o (w \o p)
    BY <1>2, Zenon
  <2> QED
    BY <2>2, <2>3, Zenon
<1> QED
  BY <1>1, <1>2, <1>3, Zenon

\* The writer fails and only c arrives of what it held and of the call under way.
LEMMA UnreadBroken ==
    ASSUME Inv, Still, err = "none", werr' # "none",
           NEW b \in Bytes, NEW c \in Bytes, NEW d \in Bytes
    PROVE  wire' = wire \o c /\ Behind \o b = c \o d => IsPrefix(Unread', Unread \o b)
<1>1. Held \in Seq(Byte) /\ wire \in Seq(Byte) /\ Behind \in Seq(Byte) /\ b \in Seq(Byte)
      /\ c \in Seq(Byte) /\ d \in Seq(Byte)
  BY UnreadIs DEF Bytes
<1>2. wire \o c \in Bytes /\ <<>> \in Bytes /\ Behind' = <<>> /\ (wire \o c) \o <<>> = wire \o c
  <2>1. wire \o c \in Seq(Byte)
    BY <1>1, ConcatProperties
  <2>2. (wire \o c) \o <<>> = wire \o c
    BY <2>1, ConcatEmptySeq
  <2> QED
    BY <2>1, <2>2, EmptyBytes DEF Bytes, Behind
<1>3. wire' = wire \o c => Unread' = Held \o (wire \o c)
  BY <1>2, UnreadWritten
<1>4. Unread \o b = (Held \o (wire \o Behind)) \o b
  BY UnreadIs DEF Coming
<1>5. /\ Held \in Bytes /\ wire \in Bytes /\ Behind \in Bytes
      /\ b \in Bytes /\ c \in Bytes /\ d \in Bytes
  BY UnreadIs
<1>6. (Held \o (wire \o Behind)) \o b = (Held \o wire) \o (Behind \o b)
  <2>1. \A p, q \in Bytes : (Held \o (wire \o p)) \o q = (Held \o wire) \o (p \o q)
    BY <1>5, Regroup, Zenon
  <2> QED
    BY <1>5, <2>1, Zenon
<1>7. (Held \o (wire \o c)) \o d = (Held \o wire) \o (c \o d)
  <2>1. \A p, q \in Bytes : (Held \o (wire \o p)) \o q = (Held \o wire) \o (p \o q)
    BY <1>5, Regroup, Zenon
  <2> QED
    BY <1>5, <2>1, Zenon
<1>8. Behind \o b = c \o d => Unread \o b = (Held \o (wire \o c)) \o d
  BY <1>4, <1>6, <1>7
<1>9. Held \o (wire \o c) \in Seq(Byte)
  BY <1>1, <1>2, ConcatProperties DEF Bytes
<1> DEFINE u == Held \o (wire \o c)
<1> HIDE DEF u
<1>10. u \in Seq(Byte)
  BY <1>9 DEF u
<1>11. IsPrefix(u, u \o d)
  BY <1>1, <1>10, PrefixIs
<1> QED
  BY <1>3, <1>8, <1>11 DEF u

LEMMA EncodeSim ==
    ASSUME Inv, Encode, Still, UNCHANGED closed
    PROVE  Stream!Next
<1>1. Unread' = Unread
  BY UnreadKept DEF Encode
<1>2. Stream!Encode
  BY <1>1, SameCalls DEF Encode, Stream!Encode
<1> QED
  BY <1>2, EncoderSim

LEMMA EncodeRespSim ==
    ASSUME Inv, EncodeResp, Still, UNCHANGED closed
    PROVE  Stream!Next
<1>1. Unread' = Unread
  BY UnreadKept DEF EncodeResp
<1>2. Stream!EncodeResp
  BY <1>1, SameCalls DEF EncodeResp, Stream!EncodeResp
<1> QED
  BY <1>2, EncoderSim

LEMMA CloseSim ==
    ASSUME Inv, Close, Still
    PROVE  Stream!Next
<1>1. Unread' = Unread
  BY UnreadKept DEF Close, wvars
<1>2. Stream!Close
  BY <1>1 DEF Close, wvars, Stream!Close, Stream!encoder
<1> QED
  BY <1>2, EncoderSim

\* The first k bytes of the call under way are written.
LEMMA WriteSomeSim ==
    ASSUME Inv, Still, UNCHANGED <<closed, pend, werr, sent>>, werr = "none",
           todo # <<>>, Head(todo).op \in Writes, NEW b, b = Head(todo).b,
           wire' \in Bytes, wbuf' \in Bytes,
           NEW k \in 0..Len(b), wire' \o wbuf' = Coming \o SubSeq(b, 1, k),
           todo' = IF k = Len(b) THEN Tail(todo)
                   ELSE [todo EXCEPT ![1].b = SubSeq(b, k + 1, Len(b))]
    PROVE  Stream!Next
<1>1. b \in Seq(Byte) /\ Len(b) \in Nat /\ k \in Nat /\ k <= Len(b)
  <2>1. b \in Bytes
    BY TodoIs DEF Inv
  <2>2. b \in Seq(Byte) /\ Len(b) \in Nat
    BY <2>1, LenProperties DEF Bytes
  <2> QED
    BY <2>2
<1>2. SubSeq(b, 1, k) \in Bytes
  BY <1>1, CutIs DEF Bytes
<1>3. Stream!Write(SubSeq(b, 1, k))
  <2>1. CASE err = "none"
    <3>1. Behind' = wbuf'
      BY DEF Behind
    <3>2. wire' \o Behind' = Coming \o SubSeq(b, 1, k) /\ Behind' \in Bytes
      BY <3>1
    <3>3. Unread' = Unread \o SubSeq(b, 1, k)
      BY <1>2, <2>1, <3>2, UnreadGrows
    <3> QED
      BY <2>1, <3>3 DEF Stream!Write
  <2>2. CASE err # "none"
    <3>1. err' # "none"
      BY <2>2 DEF Still, rvars
    <3> QED
      BY <2>2, <3>1 DEF Stream!Write, Unread
  <2> QED
    BY <2>1, <2>2
<1>4. Head(todo).op \in Stream!Writes
  BY SameBytes
<1>5. Stream!WriteSome
  BY <1>3, <1>4 DEF Stream!WriteSome
<1> QED
  BY <1>5, EncoderSim

\* Some of x, what the writer holds and the beginning of the call under way, is
\* written before the connection fails.
LEMMA BreakSim ==
    ASSUME Inv, Still, UNCHANGED <<closed, pend, sent>>, werr = "none", ~closed, todo' = <<>>,
           NEW x \in Bytes, NEW r \in Bytes, WriteError(x)
    PROVE  wbuf \o Underway = x \o r => Stream!Next
<1>1. MayBreak /\ werr' = "io" /\ \E k \in 0..(Len(x) - 1) : wire' = wire \o SubSeq(x, 1, k)
  BY DEF WriteError
<1>2. PICK k \in 0..(Len(x) - 1) : wire' = wire \o SubSeq(x, 1, k)
  BY <1>1
<1>3. k \in Nat /\ k <= Len(x)
  <2>1. Len(x) \in Nat
    BY LenProperties DEF Bytes
  <2> QED
    BY <1>2, <2>1
<1> DEFINE c == SubSeq(x, 1, k)
           d == SubSeq(x, k + 1, Len(x))
<1>4. c \in Bytes /\ d \in Bytes
  BY <1>3, CutIs DEF Bytes
<1>5. c \o d = x
  BY <1>3, CutIs DEF Bytes
<1> HIDE DEF c, d
<1>6. (c \o d) \o r = c \o (d \o r) /\ d \o r \in Bytes
  <2>1. r \in Bytes
    OBVIOUS
  <2>2. \A w, p \in Bytes : (c \o w) \o p = c \o (w \o p)
    BY <1>4, Regroup, Zenon
  <2>3. (c \o d) \o r = c \o (d \o r)
    BY <1>4, <2>1, <2>2, Zenon
  <2>4. d \o r \in Bytes
    BY <1>4, <2>1, Regroup, Zenon
  <2> QED
    BY <2>3, <2>4
<1>7. Underway \in Bytes
  BY UnderwayIs
<1>12. HAVE wbuf \o Underway = x \o r
<1>8. Behind \o Underway = c \o (d \o r)
  BY <1>5, <1>6, <1>12 DEF Behind
<1>9. IF err = "none" THEN Stream!IsPrefix(Unread', Unread \o Underway) ELSE Unread' = <<>>
  <2>1. CASE err = "none"
    <3>1. wire' = wire \o c
      BY <1>2 DEF c
    <3>2. werr' # "none"
      BY <1>1
    <3>3. IsPrefix(Unread', Unread \o Underway)
      BY <1>4, <1>6, <1>7, <1>8, <2>1, <3>1, <3>2, UnreadBroken
    <3>4. Stream!IsPrefix(Unread', Unread \o Underway)
      BY <3>3 DEF IsPrefix, Stream!IsPrefix
    <3> QED
      BY <2>1, <3>4
  <2>2. CASE err # "none"
    <3>1. err' # "none"
      BY <2>2 DEF Still, rvars
    <3> QED
      BY <2>2, <3>1 DEF Unread
  <2> QED
    BY <2>1, <2>2
<1>10. Underway = IF todo # <<>> /\ Head(todo).op \in Stream!Writes THEN Head(todo).b ELSE <<>>
  BY SameBytes DEF Underway
<1>11. Stream!Break
  BY <1>1, <1>9, <1>10 DEF Stream!Break
<1> QED
  BY <1>11, EncoderSim

LEMMA BadTypeSim ==
    ASSUME Inv, BadType, Still, UNCHANGED closed
    PROVE  Stream!Next
<1>1. /\ todo # <<>> /\ Head(todo).op = "badType" /\ werr' = "type" /\ todo' = <<>>
      /\ UNCHANGED <<pend, wbuf, sent, wire>>
  BY DEF BadType
<1>2. werr = "none" /\ ~closed
  BY <1>1 DEF Inv, WriterInv
<1>3. Underway = <<>>
  BY <1>1 DEF Underway, Writes
<1>4. IF err = "none" THEN Stream!IsPrefix(Unread', Unread \o Underway) ELSE Unread' = <<>>
  <2>1. CASE err = "none"
    <3>1. wire \in Bytes /\ Behind \in Bytes /\ <<>> \in Bytes
      BY <2>1, UnreadIs, EmptyBytes
    <3>2. wire' = wire \o <<>> /\ Behind \o <<>> = <<>> \o Behind
      BY <1>1, <3>1, ConcatEmptySeq DEF Bytes
    <3>3. werr' # "none"
      BY <1>1
    <3>4. IsPrefix(Unread', Unread \o <<>>)
      BY <2>1, <3>1, <3>2, <3>3, UnreadBroken
    <3>5. Stream!IsPrefix(Unread', Unread \o <<>>)
      BY <3>4 DEF IsPrefix, Stream!IsPrefix
    <3> QED
      BY <1>3, <2>1, <3>5
  <2>2. CASE err # "none"
    <3>1. err' # "none"
      BY <2>2 DEF Still, rvars
    <3> QED
      BY <2>2, <3>1 DEF Unread
  <2> QED
    BY <2>1, <2>2
<1>5. Underway = IF todo # <<>> /\ Head(todo).op \in Stream!Writes THEN Head(todo).b ELSE <<>>
  BY SameBytes DEF Underway
<1>6. Stream!Break
  BY <1>1, <1>2, <1>4, <1>5 DEF Stream!Break
<1> QED
  BY <1>6, EncoderSim

LEMMA PutSim ==
    ASSUME Inv, Put, Still, UNCHANGED closed
    PROVE  Stream!Next
<1> DEFINE b == Head(todo).b
<1>1. /\ todo # <<>> /\ Head(todo).op \in Writes /\ werr = "none" /\ wbuf' = wbuf \o b
      /\ todo' = Tail(todo) /\ UNCHANGED <<pend, werr, sent, wire>>
  BY DEF Put, CallDone
<1>2. b \in Seq(Byte) /\ wbuf \in Seq(Byte) /\ wire \in Seq(Byte)
  BY <1>1, TodoIs DEF Inv, Shared, WriterTypeOK, Bytes
<1>3. Len(b) \in 0..Len(b) /\ SubSeq(b, 1, Len(b)) = b
  BY <1>2, LenProperties, SubSeqFull
<1>4. wire' \in Bytes /\ wbuf' \in Bytes
  <2>1. wbuf \o b \in Seq(Byte)
    BY <1>2, ConcatProperties
  <2> QED
    BY <1>1, <1>2, <2>1 DEF Bytes
<1> HIDE DEF b
<1>5. wire \o (wbuf \o b) = (wire \o wbuf) \o b
  <2>1. wire \in Bytes /\ wbuf \in Bytes /\ b \in Bytes
    BY <1>2 DEF Bytes
  <2> QED
    BY <2>1, Regroup, Zenon
<1>6. wire' \o wbuf' = Coming \o SubSeq(b, 1, Len(b))
  BY <1>1, <1>3, <1>5 DEF Coming, Behind
<1> QED
  BY <1>1, <1>3, <1>4, <1>6, WriteSomeSim DEF b

LEMMA WriteDirectSim ==
    ASSUME Inv, WriteDirect, Still, UNCHANGED closed
    PROVE  Stream!Next
<1> DEFINE b == Head(todo).b
<1>1. /\ todo # <<>> /\ Head(todo).op \in Writes /\ werr = "none" /\ wbuf = <<>>
      /\ \/ WriteOk(b) /\ CallDone
         \/ WriteError(b) /\ todo' = <<>>
      /\ UNCHANGED <<pend, wbuf, sent>>
  BY DEF WriteDirect, Writes
<1>2. b \in Seq(Byte) /\ wire \in Seq(Byte) /\ <<>> \in Seq(Byte) /\ ~closed
  BY <1>1, TodoIs, EmptyBytes DEF Inv, Shared, WriterInv, Bytes
<1>3. CASE WriteOk(b) /\ CallDone
  <2>1. wire' = wire \o b /\ todo' = Tail(todo) /\ werr' = werr
    BY <1>3 DEF WriteOk, CallDone
  <2>2. Len(b) \in 0..Len(b) /\ SubSeq(b, 1, Len(b)) = b
    BY <1>2, LenProperties, SubSeqFull
  <2> HIDE DEF b
  <2>3. wire \o b \in Seq(Byte)
    BY <1>2, ConcatProperties
  <2>4. (wire \o b) \o <<>> = wire \o b /\ wire \o <<>> = wire
    BY <1>2, <2>3, ConcatEmptySeq
  <2>5. wire' \in Bytes /\ wbuf' \in Bytes
    BY <1>1, <1>2, <2>1, <2>3 DEF Bytes
  <2>6. wire' \o wbuf' = Coming \o SubSeq(b, 1, Len(b))
    BY <1>1, <2>1, <2>2, <2>4 DEF Coming, Behind
  <2> QED
    BY <1>1, <2>1, <2>2, <2>5, <2>6, WriteSomeSim DEF b
<1>4. CASE WriteError(b) /\ todo' = <<>>
  <2>1. Underway = b
    BY <1>1 DEF Underway
  <2> HIDE DEF b
  <2>2. <<>> \o b = b /\ b \o <<>> = b
    BY <1>2, ConcatEmptySeq
  <2>3. wbuf \o Underway = b \o <<>>
    BY <1>1, <2>1, <2>2
  <2> QED
    BY <1>1, <1>2, <1>4, <2>3, BreakSim DEF Bytes
<1> QED
  BY <1>1, <1>3, <1>4

LEMMA WriteFullSim ==
    ASSUME Inv, WriteFull, Still, UNCHANGED closed
    PROVE  Stream!Next
<1> DEFINE b == Head(todo).b
           p == SubSeq(b, 1, Available)
           q == SubSeq(b, Available + 1, Len(b))
           full == wbuf \o p
<1>1. /\ todo # <<>> /\ Head(todo).op \in Writes /\ werr = "none" /\ Len(b) > Available
      /\ \/ WriteOk(full) /\ wbuf' = <<>> /\ todo' = [todo EXCEPT ![1].b = q]
         \/ WriteError(full) /\ todo' = <<>>
      /\ UNCHANGED <<pend, sent>>
  BY DEF WriteFull
<1>2. b \in Seq(Byte) /\ wire \in Seq(Byte) /\ wbuf \in Seq(Byte) /\ ~closed
  BY <1>1, TodoIs DEF Inv, Shared, WriterTypeOK, WriterInv, Bytes
<1>3. Available \in Nat /\ Len(b) \in Nat
  <2>1. Available \in 0..M /\ M \in Nat
    BY AvailableIs DEF Inv
  <2>2. Len(b) \in Nat
    BY <1>2, LenProperties
  <2> QED
    BY <2>1, <2>2
<1>4. Available <= Len(b) /\ Available \in 0..Len(b) /\ Available # Len(b)
  BY <1>1, <1>3
<1>5. p \in Seq(Byte) /\ q \in Seq(Byte)
  BY <1>2, <1>3, <1>4, CutIs
<1>6. p \o q = b
  BY <1>2, <1>3, <1>4, CutIs
<1>7. full \in Seq(Byte)
  BY <1>2, <1>5, ConcatProperties
<1>8. CASE WriteOk(full) /\ wbuf' = <<>> /\ todo' = [todo EXCEPT ![1].b = q]
  <2>1. wire' = wire \o full /\ werr' = werr
    BY <1>8 DEF WriteOk
  <2> HIDE DEF p
  <2>2. wire \o (wbuf \o p) = (wire \o wbuf) \o p
    <3>1. wire \in Bytes /\ wbuf \in Bytes /\ p \in Bytes
      BY <1>2, <1>5 DEF Bytes
    <3> QED
      BY <3>1, Regroup, Zenon
  <2>3. wire \o full \in Seq(Byte)
    BY <1>2, <1>7, ConcatProperties
  <2>4. (wire \o full) \o <<>> = wire \o full
    BY <2>3, ConcatEmptySeq
  <2>5. wire' \in Bytes /\ wbuf' \in Bytes
    BY <1>8, <2>1, <2>3, EmptyBytes DEF Bytes
  <2>6. wire' \o wbuf' = Coming \o p
    BY <1>1, <1>8, <2>1, <2>2, <2>4 DEF Coming, Behind
  <2>7. wire' \o wbuf' = Coming \o SubSeq(b, 1, Available)
    BY <2>6 DEF p
  <2>8. todo' = IF Available = Len(b) THEN Tail(todo)
                ELSE [todo EXCEPT ![1].b = SubSeq(b, Available + 1, Len(b))]
    BY <1>4, <1>8
  <2> HIDE DEF full
  <2> QED
    BY <1>1, <1>4, <2>1, <2>5, <2>7, <2>8, WriteSomeSim
<1>9. CASE WriteError(full) /\ todo' = <<>>
  <2>1. Underway = b
    BY <1>1 DEF Underway
  <2> HIDE DEF p, q, b
  <2>2. (wbuf \o p) \o q = wbuf \o (p \o q)
    <3>1. wbuf \in Bytes /\ p \in Bytes /\ q \in Bytes
      BY <1>2, <1>5 DEF Bytes
    <3> QED
      BY <3>1, Regroup, Zenon
  <2>3. wbuf \o Underway = full \o q
    BY <1>6, <2>1, <2>2
  <2> HIDE DEF full
  <2> QED
    BY <1>1, <1>2, <1>5, <1>7, <1>9, <2>3, BreakSim DEF Bytes
<1> QED
  BY <1>1, <1>8, <1>9

LEMMA FlushSim ==
    ASSUME Inv, NEW force, NEW elapsed, Flush(force, elapsed), Still, UNCHANGED closed
    PROVE  Stream!Next \/ UNCHANGED Stream!vars
<1>1. /\ todo = <<>> /\ werr = "none" /\ ~closed /\ UNCHANGED <<pend, todo, sent>>
      /\ \/ WriteOk(wbuf) /\ wbuf' = <<>>
         \/ WriteError(wbuf)
  BY DEF Flush
<1>2. wbuf \in Seq(Byte) /\ wire \in Seq(Byte) /\ <<>> \in Seq(Byte)
  BY EmptyBytes DEF Inv, Shared, WriterTypeOK, Bytes
<1>3. CASE WriteOk(wbuf) /\ wbuf' = <<>>
  <2>1. wire' = wire \o wbuf /\ werr' = werr
    BY <1>3 DEF WriteOk
  <2>2. wire \o wbuf \in Seq(Byte)
    BY <1>2, ConcatProperties
  <2>3. (wire \o wbuf) \o <<>> = wire \o wbuf
    BY <2>2, ConcatEmptySeq
  <2>4. Unread' = Unread
    <3>1. CASE err = "none"
      <4>1. wire' \in Bytes /\ Behind' \in Bytes /\ wire' \o Behind' = Coming
        BY <1>1, <1>2, <1>3, <2>1, <2>2, <2>3 DEF Bytes, Behind, Coming
      <4>2. Unread' = Held \o (wire' \o Behind')
        BY <3>1, <4>1, UnreadWritten
      <4>3. Unread = Held \o Coming
        BY <3>1, UnreadIs
      <4> QED
        BY <4>1, <4>2, <4>3
    <3>2. CASE err # "none"
      BY <3>2 DEF Still, rvars, Unread
    <3> QED
      BY <3>1, <3>2
  <2>5. UNCHANGED <<multi, st, typ, frames, ret, err, out, dropped>> /\ BodyLen' = BodyLen
    BY DEF Still, rvars, BodyLen
  <2> QED
    BY <1>1, <2>1, <2>4, <2>5 DEF Stream!vars, Stream!decoder, Stream!encoder
<1>4. CASE WriteError(wbuf)
  <2>1. Underway = <<>> /\ todo' = <<>>
    BY <1>1 DEF Underway
  <2>2. wbuf \o Underway = wbuf \o <<>>
    BY <2>1
  <2> QED
    BY <1>1, <1>2, <1>4, <2>1, <2>2, BreakSim DEF Bytes
<1> QED
  BY <1>1, <1>3, <1>4

LEMMA WriterSim ==
    ASSUME Inv, WriterNext, Still
    PROVE  Stream!Next \/ UNCHANGED Stream!vars
<1>1. CASE WriterStep /\ UNCHANGED closed
  BY <1>1, EncodeSim, EncodeRespSim, BadTypeSim, PutSim, WriteDirectSim, WriteFullSim
     DEF WriterStep
<1>2. CASE (\E e \in BOOLEAN : Flush(FALSE, e)) /\ UNCHANGED closed
  <2>1. PICK e \in BOOLEAN : Flush(FALSE, e)
    BY <1>2
  <2> QED
    BY <1>2, <2>1, FlushSim
<1>3. CASE LastFlush /\ UNCHANGED closed
  <2>1. Flush(TRUE, FALSE)
    BY <1>3 DEF LastFlush
  <2> QED
    BY <1>3, <2>1, FlushSim
<1>4. CASE Close
  BY <1>4, CloseSim
<1> QED
  BY <1>1, <1>2, <1>3, <1>4 DEF WriterNext

-----------------------------------------------------------------------------
(* The refinement *)

LEMMA InitSim ==
    ASSUME Init
    PROVE  Stream!Init
<1>1. /\ st = "idle" /\ typ = Nil /\ frames = <<>> /\ ret = Nil /\ err = "none"
      /\ out = <<>> /\ dropped = FALSE /\ todo = <<>> /\ werr = "none" /\ sent = <<>>
      /\ closed \/ wire = <<>>
  BY DEF Init, ReaderInit, WriterInit
<1>2. BodyLen = 0
  BY <1>1 DEF BodyLen
<1>3. wire = <<>> => Unread = <<>>
  <2>1. acc = <<>> /\ buf = <<>> /\ rpos = 0 /\ wbuf = <<>>
    BY DEF Init, ReaderInit, WriterInit
  <2>2. <<>> \in Seq(Byte) /\ Len(<<>>) = 0
    BY EmptySeq
  <2>3. Window = <<>>
    <3>1. SubSeq(<<>>, 1, Len(<<>>)) = <<>>
      BY <2>2, SubSeqFull
    <3>2. 0 + 1 = 1
      OBVIOUS
    <3> QED
      BY <2>1, <3>1, <3>2 DEF Window
  <2>4. <<>> \o <<>> = <<>>
    BY <2>2, ConcatEmptySeq
  <2> QED
    BY <1>1, <2>1, <2>3, <2>4 DEF Unread
<1> QED
  BY <1>1, <1>2, <1>3 DEF Stream!Init

LEMMA NextSim == Inv /\ [Next]_vars => [Stream!Next]_(Stream!vars)
<1> SUFFICES ASSUME Inv, [Next]_vars PROVE Stream!Next \/ UNCHANGED Stream!vars
  OBVIOUS
<1>1. CASE ReaderNext /\ UNCHANGED <<closed, wvars>> /\ UNCHANGED <<multi, input>>
  BY <1>1, ReaderSim DEF Apart
<1>2. CASE WriterNext /\ UNCHANGED rvars /\ UNCHANGED <<multi, input>>
  BY <1>2, WriterSim DEF Still
<1>3. CASE UNCHANGED vars
  BY <1>3 DEF vars, rvars, wvars, Stream!vars, Stream!decoder, Stream!encoder,
              Unread, Window, BodyLen
<1> QED
  BY <1>1, <1>2, <1>3 DEF Next

\* Whatever the sizes of the two buffers, however the bytes are cut into reads
\* and writes, whenever the encoder is flushed and whatever the peer sends, the
\* encoder and the decoder behave as if a plain stream of bytes joined them:
\* the buffered readers and writers of bufio2 lose no byte, deliver none twice
\* or out of order, and no answer of the decoder depends on where a chunk ends.
THEOREM StreamCorrect == Spec => RefinesStream
<1>1. Init => Stream!Init
  BY InitSim
<1> QED
  BY <1>1, NextSim, Invariant, PTL DEF Spec, RefinesStream, Stream!Spec
=============================================================================
