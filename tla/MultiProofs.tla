----------------------------- MODULE MultiProofs ----------------------------
(***************************************************************************)
(* Proofs about the commands of many keys, for any keys, slots and         *)
(* arguments, and any interleaving of their tasks and of other clients:    *)
(* MSET leaves the last value of every key, and MGET has at each position  *)
(* a value that was read for it.                                           *)
(*                                                                         *)
(* Positions is computed by a loop over the arguments; what it returns for *)
(* every call is proved by induction, from the fact that a set of naturals *)
(* has a smallest element.                                                 *)
(***************************************************************************)
EXTENDS Multi, FiniteSetTheorems, SequenceTheorems, WellFoundedInduction, TLAPS

-----------------------------------------------------------------------------
(* Induction *)

LEMMA Smallest ==
    ASSUME NEW T \in SUBSET Nat, T # {}
    PROVE  \E x \in T : \A y \in T : x <= y
<1> DEFINE R == OpToRel(<, Nat)
<1>1. IsWellFoundedOn(R, Nat)
    BY NatLessThanWellFounded
<1>2. ASSUME NEW x \in Nat, NEW y \in Nat, x < y
      PROVE  <<x, y>> \in R
    BY <1>2 DEF OpToRel
<1> HIDE DEF R
<1>3. PICK x \in T : \A y \in T : ~ (<<y, x>> \in R)
    BY <1>1, WFMin
<1>4. ASSUME NEW y \in T PROVE x <= y
    <2>1. x \in Nat /\ y \in Nat /\ ~ (y < x)
        BY <1>2, <1>3
    <2> QED
        BY <2>1
<1> QED
    BY <1>4

LEMMA Largest ==
    ASSUME NEW n \in Nat, NEW T \in SUBSET (1..n), T # {}
    PROVE  \E x \in T : \A y \in T : y <= x
<1> DEFINE U == {m \in Nat : n - m \in T}
<1>1. U \in SUBSET Nat
    OBVIOUS
<1>2. U # {}
    <2>1. PICK x : x \in T
        OBVIOUS
    <2>2. x \in 1..n
        BY <2>1
    <2>3. n - x \in Nat /\ n - (n - x) = x
        BY <2>2
    <2> QED
        BY <2>1, <2>3
<1>3. PICK u \in U : \A v \in U : u <= v
    BY <1>1, <1>2, Smallest
<1>4. ASSUME NEW y \in T PROVE y <= n - u
    <2>1. n - y \in Nat /\ n - (n - y) = y
        OBVIOUS
    <2>2. u <= n - y
        BY <1>3, <2>1
    <2> QED
        BY <2>2
<1> QED
    BY <1>3, <1>4

\* A set of naturals that has 0, and the successor of each of its elements,
\* has them all.
LEMMA Induction ==
    ASSUME NEW T \in SUBSET Nat, 0 \in T, \A n \in T : n + 1 \in T
    PROVE  T = Nat
<1> SUFFICES ASSUME Nat \ T # {} PROVE FALSE
    OBVIOUS
<1>1. PICK x \in Nat \ T : \A y \in Nat \ T : x <= y
    BY Smallest
<1>2. x - 1 \in Nat /\ ~ (x <= x - 1) /\ (x - 1) + 1 = x
    OBVIOUS
<1>3. x - 1 \in T
    BY <1>1, <1>2
<1> QED
    BY <1>2, <1>3

-----------------------------------------------------------------------------
(* The positions of a task *)

\* The positions up to n of the keys of task t, and the rank of a position
\* among those of its task.
Of(a, t, n) == {i \in 1..n : Leader(a, i) = t}
Rank(a, i)  == Cardinality(Of(a, Leader(a, i), i))

\* g is the function that the loop of Positions computes, over m arguments.
Grown(a, t, m, g) ==
    g = [n \in 0..m |-> IF n = 0 THEN <<>>
                        ELSE IF Leader(a, n) = t THEN Append(g[n - 1], n) ELSE g[n - 1]]

\* The sequence p has the positions up to n of task t, each at its rank.
Filled(a, t, n, p) ==
    /\ p \in Seq(Nat)
    /\ Len(p) = Cardinality(Of(a, t, n))
    /\ \A k \in 1..Len(p) : p[k] \in 1..n /\ Leader(a, p[k]) = t
    /\ \A k, l \in 1..Len(p) : k < l => p[k] < p[l]
    /\ \A i \in Of(a, t, n) : Rank(a, i) \in 1..Len(p) /\ p[Rank(a, i)] = i

LEMMA GrownExists ==
    ASSUME NEW a, NEW t
    PROVE  \A m \in Nat : \E g : Grown(a, t, m, g)
<1> DEFINE T == {m \in Nat : \E g : Grown(a, t, m, g)}
<1>1. 0 \in T
    <2> DEFINE g == [n \in 0..0 |-> <<>>]
    <2>1. Grown(a, t, 0, g)
        BY DEF Grown
    <2> QED
        BY <2>1
<1>2. ASSUME NEW m \in T
      PROVE  m + 1 \in T
    <2>1. PICK g : Grown(a, t, m, g)
        OBVIOUS
    <2> DEFINE h == [n \in 0..(m + 1) |->
                        IF n <= m THEN g[n]
                        ELSE IF Leader(a, m + 1) = t THEN Append(g[m], m + 1) ELSE g[m]]
               body == [n \in 0..(m + 1) |->
                          IF n = 0 THEN <<>>
                          ELSE IF Leader(a, n) = t THEN Append(h[n - 1], n) ELSE h[n - 1]]
    <2>2. ASSUME NEW n \in 0..(m + 1)
          PROVE  h[n] = IF n = 0 THEN <<>>
                        ELSE IF Leader(a, n) = t THEN Append(h[n - 1], n) ELSE h[n - 1]
        <3>1. CASE n = m + 1
            <4>1. /\ n # 0 /\ n - 1 = m /\ m \in 0..(m + 1) /\ ~ (n <= m) /\ m <= m
                BY <3>1
            <4>2. h[n - 1] = g[m]
                BY <4>1
            <4>3. h[n] = IF Leader(a, m + 1) = t THEN Append(g[m], m + 1) ELSE g[m]
                BY <4>1
            <4> QED
                BY <3>1, <4>1, <4>2, <4>3
        <3>2. CASE n # m + 1
            <4>1. n \in 0..m /\ n <= m
                BY <3>2
            <4>2. h[n] = g[n]
                BY <4>1
            <4>3. g[n] = IF n = 0 THEN <<>>
                         ELSE IF Leader(a, n) = t THEN Append(g[n - 1], n) ELSE g[n - 1]
                BY <2>1, <4>1 DEF Grown
            <4>4. n # 0 => n - 1 \in 0..(m + 1) /\ n - 1 <= m
                BY <4>1
            <4>5. n # 0 => h[n - 1] = g[n - 1]
                BY <4>4
            <4> QED
                BY <4>2, <4>3, <4>5
        <3> QED
            BY <3>1, <3>2
    <2>3. h = body
        BY <2>2
    <2>4. Grown(a, t, m + 1, h)
        BY <2>3 DEF Grown
    <2> QED
        BY <2>4
<1> HIDE DEF T
<1>3. T \in SUBSET Nat
    BY DEF T
<1>4. T = Nat
    BY <1>1, <1>2, <1>3, Induction
<1> QED
    BY <1>4 DEF T

\* Positions is the last value of that function.
LEMMA PositionsIs ==
    ASSUME NEW a, NEW t, Len(a) \in Nat
    PROVE  \E g : Grown(a, t, Len(a), g) /\ Positions(a, t) = g[Len(a)]
<1> DEFINE f == CHOOSE f : f = [n \in 0..Len(a) |->
                                  IF n = 0 THEN <<>>
                                  ELSE IF Leader(a, n) = t THEN Append(f[n - 1], n) ELSE f[n - 1]]
<1>1. \E g : Grown(a, t, Len(a), g)
    BY GrownExists
<1>2. f = [n \in 0..Len(a) |->
             IF n = 0 THEN <<>>
             ELSE IF Leader(a, n) = t THEN Append(f[n - 1], n) ELSE f[n - 1]]
    BY <1>1 DEF Grown
<1>3. Positions(a, t) = f[Len(a)]
    BY DEF Positions
<1> HIDE DEF f
<1>4. Grown(a, t, Len(a), f)
    BY <1>2 DEF Grown
<1> QED
    BY <1>3, <1>4

LEMMA OfFinite ==
    ASSUME NEW a, NEW t, NEW n \in Nat
    PROVE  IsFiniteSet(Of(a, t, n)) /\ Cardinality(Of(a, t, n)) \in Nat
<1>1. IsFiniteSet(1..n)
    BY FS_Interval
<1>2. Of(a, t, n) \in SUBSET (1..n)
    BY DEF Of
<1> QED
    BY <1>1, <1>2, FS_Subset, FS_CardinalityType

\* One more argument is filed.
LEMMA FilledNext ==
    ASSUME NEW a, NEW t, NEW n \in Nat, NEW p, Filled(a, t, n, p)
    PROVE  /\ Leader(a, n + 1) = t => Filled(a, t, n + 1, Append(p, n + 1))
           /\ Leader(a, n + 1) # t => Filled(a, t, n + 1, p)
<1>1. /\ p \in Seq(Nat) /\ Len(p) \in Nat
      /\ Len(p) = Cardinality(Of(a, t, n))
      /\ \A k \in 1..Len(p) : p[k] \in 1..n /\ Leader(a, p[k]) = t
      /\ \A k, l \in 1..Len(p) : k < l => p[k] < p[l]
      /\ \A i \in Of(a, t, n) : Rank(a, i) \in 1..Len(p) /\ p[Rank(a, i)] = i
    BY LenProperties DEF Filled
<1>2. ASSUME Leader(a, n + 1) # t
      PROVE  Filled(a, t, n + 1, p)
    <2>1. Of(a, t, n + 1) = Of(a, t, n)
        BY <1>2 DEF Of
    <2>2. \A k \in 1..Len(p) : p[k] \in 1..(n + 1)
        BY <1>1
    <2> QED
        BY <1>1, <2>1, <2>2 DEF Filled
<1>3. ASSUME Leader(a, n + 1) = t
      PROVE  Filled(a, t, n + 1, Append(p, n + 1))
    <2> DEFINE q == Append(p, n + 1)
    <2>1. Of(a, t, n + 1) = Of(a, t, n) \cup {n + 1} /\ n + 1 \notin Of(a, t, n)
        BY <1>3 DEF Of
    <2>2. Cardinality(Of(a, t, n + 1)) = Len(p) + 1
        BY <1>1, <2>1, OfFinite, FS_AddElement
    <2>3. /\ q \in Seq(Nat) /\ Len(q) = Len(p) + 1
          /\ \A k \in 1..Len(p) : q[k] = p[k]
          /\ q[Len(p) + 1] = n + 1
        BY <1>1, AppendProperties
    <2> HIDE DEF q
    <2>4. ASSUME NEW k \in 1..Len(q)
          PROVE  q[k] \in 1..(n + 1) /\ Leader(a, q[k]) = t
        <3>1. CASE k = Len(p) + 1
            BY <1>3, <2>3, <3>1
        <3>2. CASE k # Len(p) + 1
            <4>1. k \in 1..Len(p)
                BY <1>1, <2>3, <3>2
            <4>2. q[k] = p[k] /\ p[k] \in 1..n /\ Leader(a, p[k]) = t
                BY <1>1, <2>3, <4>1
            <4> QED
                BY <4>2
        <3> QED
            BY <3>1, <3>2
    <2>5. ASSUME NEW k \in 1..Len(q), NEW l \in 1..Len(q), k < l
          PROVE  q[k] < q[l]
        <3>1. k \in 1..Len(p)
            BY <1>1, <2>3, <2>5
        <3>2. q[k] = p[k] /\ p[k] \in 1..n
            BY <1>1, <2>3, <3>1
        <3>3. CASE l = Len(p) + 1
            BY <2>3, <3>2, <3>3
        <3>4. CASE l # Len(p) + 1
            <4>1. l \in 1..Len(p)
                BY <1>1, <2>3, <3>4
            <4>2. q[l] = p[l] /\ p[k] < p[l]
                BY <1>1, <2>3, <2>5, <3>1, <4>1
            <4> QED
                BY <3>2, <4>2
        <3> QED
            BY <3>3, <3>4
    <2>6. ASSUME NEW i \in Of(a, t, n + 1)
          PROVE  Rank(a, i) \in 1..Len(q) /\ q[Rank(a, i)] = i
        <3>1. CASE i = n + 1
            <4>1. Rank(a, i) = Len(p) + 1
                BY <1>3, <2>2, <3>1 DEF Rank
            <4> QED
                BY <1>1, <2>3, <3>1, <4>1
        <3>2. CASE i # n + 1
            <4>1. i \in Of(a, t, n)
                BY <2>1, <3>2
            <4>2. Rank(a, i) \in 1..Len(p) /\ p[Rank(a, i)] = i
                BY <1>1, <4>1
            <4> QED
                BY <1>1, <2>3, <4>2
        <3> QED
            BY <3>1, <3>2
    <2>7. Filled(a, t, n + 1, q)
        BY <2>2, <2>3, <2>4, <2>5, <2>6 DEF Filled
    <2> QED
        BY <2>7 DEF q
<1> QED
    BY <1>2, <1>3

LEMMA PositionsFilled ==
    ASSUME NEW a, NEW t, Len(a) \in Nat
    PROVE  Filled(a, t, Len(a), Positions(a, t))
<1> DEFINE M == Len(a)
<1>1. PICK g : Grown(a, t, M, g) /\ Positions(a, t) = g[M]
    BY PositionsIs
<1>2. \A n \in 0..M : g[n] = IF n = 0 THEN <<>>
                             ELSE IF Leader(a, n) = t THEN Append(g[n - 1], n) ELSE g[n - 1]
    BY <1>1 DEF Grown
<1> DEFINE T == {n \in Nat : n <= M => Filled(a, t, n, g[n])}
<1>3. 0 \in T
    <2>1. g[0] = <<>>
        BY <1>2
    <2>2. Of(a, t, 0) = {}
        BY DEF Of
    <2>3. Cardinality({}) = 0
        BY FS_EmptySet
    <2>4. <<>> \in Seq(Nat) /\ Len(<<>>) = 0
        BY EmptySeq
    <2>5. ASSUME NEW p \in Seq(Nat), Len(p) = 0
          PROVE  Filled(a, t, 0, p)
        BY <2>2, <2>3, <2>5 DEF Filled
    <2>6. g[0] \in Seq(Nat) /\ Len(g[0]) = 0
        BY <2>1, <2>4
    <2>7. Filled(a, t, 0, g[0])
        BY <2>5, <2>6
    <2> QED
        BY <2>7
<1>4. ASSUME NEW n \in T
      PROVE  n + 1 \in T
    <2> SUFFICES ASSUME n + 1 <= M
                 PROVE  Filled(a, t, n + 1, g[n + 1])
        OBVIOUS
    <2>1. n \in Nat /\ n <= M
        OBVIOUS
    <2>4. Filled(a, t, n, g[n])
        BY <2>1
    <2>2. n + 1 \in 0..M /\ n + 1 # 0 /\ (n + 1) - 1 = n
        BY <2>1
    <2>3. g[n + 1] = IF Leader(a, n + 1) = t THEN Append(g[n], n + 1) ELSE g[n]
        BY <1>2, <2>2
    <2> QED
        BY <2>1, <2>3, <2>4, FilledNext
<1> HIDE DEF T
<1>5. T \in SUBSET Nat
    BY DEF T
<1>6. T = Nat
    BY <1>3, <1>4, <1>5, Induction
<1>7. M \in T /\ M <= M
    BY <1>6
<1> QED
    BY <1>1, <1>7 DEF T

-----------------------------------------------------------------------------
(* The task of a key *)

LEMMA IsSeq ==
    ASSUME NEW n \in Nat, NEW S, NEW f \in [1..n -> S]
    PROVE  f \in Seq(S) /\ Len(f) = n
<1>1. f \in Seq(S)
    BY SeqDef
<1>2. Len(f) \in Nat /\ DOMAIN f = 1..Len(f) /\ DOMAIN f = 1..n
    BY <1>1, LenProperties
<1>3. Len(f) = n
    BY <1>2
<1> QED
    BY <1>1, <1>3

LEMMA CallIs ==
    ASSUME NEW a \in Calls
    PROVE  /\ a \in Seq(Keys) /\ Len(a) \in Nat /\ Len(a) >= 1 /\ Len(a) <= MaxArgs
           /\ \A i \in 1..Len(a) : a[i] \in Keys
<1>1. PICK n \in 1..MaxArgs : a \in [1..n -> Keys]
    BY DEF Calls
<1>2. n \in Nat /\ n >= 1 /\ n <= MaxArgs
    BY MultiAssumption
<1>3. a \in Seq(Keys)
    BY <1>1, <1>2, SeqDef
<1>4. Len(a) = n
    BY <1>1, <1>2, <1>3, LenProperties
<1> QED
    BY <1>1, <1>2, <1>3, <1>4

\* The leader is the first position with the slot.
LEMMA LeaderIs ==
    ASSUME NEW a, Len(a) \in Nat, NEW i \in 1..Len(a)
    PROVE  /\ Leader(a, i) \in 1..i /\ SlotOf[a[Leader(a, i)]] = SlotOf[a[i]]
           /\ \A h \in 1..(Leader(a, i) - 1) : SlotOf[a[h]] # SlotOf[a[i]]
<1> DEFINE T == {j \in 1..i : SlotOf[a[j]] = SlotOf[a[i]]}
<1>1. i \in Nat /\ i \in 1..i
    OBVIOUS
<1>2. T \in SUBSET Nat /\ i \in T
    BY <1>1
<1>3. PICK x \in T : \A y \in T : x <= y
    BY <1>2, Smallest
<1>4. \A h \in 1..(x - 1) : SlotOf[a[h]] # SlotOf[a[i]]
    <2> SUFFICES ASSUME NEW h \in 1..(x - 1), SlotOf[a[h]] = SlotOf[a[i]]
                 PROVE  FALSE
        OBVIOUS
    <2>1. h \in 1..i /\ ~ (x <= h)
        BY <1>1
    <2> QED
        BY <1>3, <2>1
<1>5. \E j \in 1..i : /\ SlotOf[a[j]] = SlotOf[a[i]]
                      /\ \A h \in 1..(j - 1) : SlotOf[a[h]] # SlotOf[a[i]]
    BY <1>4
<1> QED
    BY <1>5 DEF Leader

\* Keys of one slot have one task.
LEMMA SameLeader ==
    ASSUME NEW a, Len(a) \in Nat, NEW i \in 1..Len(a), NEW j \in 1..Len(a),
           SlotOf[a[i]] = SlotOf[a[j]]
    PROVE  Leader(a, i) = Leader(a, j)
<1> DEFINE l == Leader(a, i)
           m == Leader(a, j)
<1>1. /\ l \in 1..i /\ SlotOf[a[l]] = SlotOf[a[i]]
      /\ \A h \in 1..(l - 1) : SlotOf[a[h]] # SlotOf[a[i]]
    BY LeaderIs
<1>2. /\ m \in 1..j /\ SlotOf[a[m]] = SlotOf[a[j]]
      /\ \A h \in 1..(m - 1) : SlotOf[a[h]] # SlotOf[a[j]]
    BY LeaderIs
<1> HIDE DEF l, m
<1>3. l \notin 1..(m - 1) /\ m \notin 1..(l - 1)
    BY <1>1, <1>2
<1>4. l \in Nat /\ m \in Nat /\ l >= 1 /\ m >= 1
    BY <1>1, <1>2
<1>5. l = m
    BY <1>3, <1>4
<1> QED
    BY <1>5 DEF l, m

\* The keys at the positions of p, and the last of these with the key k.
KeysIn(a, p)    == {a[p[n]] : n \in 1..Len(p)}
LastOf(a, p, k) ==
    LET here == {n \in 1..Len(p) : a[p[n]] = k}
    IN  p[CHOOSE n \in here : \A h \in here : h <= n]

\* Where a task has written a key, it is the last value of the call.
LEMMA LastIs ==
    ASSUME NEW a \in Calls, NEW t, NEW p, Filled(a, t, Len(a), p), NEW k \in KeysIn(a, p)
    PROVE  /\ LastOf(a, p, k) \in 1..Len(a) /\ a[LastOf(a, p, k)] = k
           /\ \A h \in (LastOf(a, p, k) + 1)..Len(a) : a[h] # k
<1> DEFINE M == Len(a)
           T == {j \in 1..M : a[j] = k}
           here == {n \in 1..Len(p) : a[p[n]] = k}
<1>1. M \in Nat /\ p \in Seq(Nat) /\ Len(p) \in Nat
    BY CallIs, LenProperties DEF Filled
<1>2. PICK n \in 1..Len(p) : a[p[n]] = k
    BY DEF KeysIn
<1>3. p[n] \in 1..M /\ Leader(a, p[n]) = t
    BY DEF Filled
<1>4. PICK j \in T : \A y \in T : y <= j
    BY <1>1, <1>2, <1>3, Largest
<1>5. Leader(a, j) = t
    BY <1>1, <1>2, <1>3, SameLeader
<1>6. j \in Of(a, t, M)
    BY <1>5 DEF Of
<1>7. Rank(a, j) \in 1..Len(p) /\ p[Rank(a, j)] = j
    BY <1>6 DEF Filled
<1>8. Rank(a, j) \in here
    BY <1>7
<1>9. ASSUME NEW h \in here PROVE h <= Rank(a, j)
    <2>1. p[h] \in T
        BY DEF Filled
    <2>2. p[h] <= j /\ p[h] \in Nat /\ j \in Nat
        BY <1>1, <1>4, <2>1
    <2>3. Rank(a, j) < h => j < p[h]
        BY <1>7 DEF Filled
    <2>4. ~ (Rank(a, j) < h)
        BY <2>2, <2>3
    <2>5. Rank(a, j) \in Nat /\ h \in Nat
        BY <1>1, <1>7
    <2> QED
        BY <2>4, <2>5
<1>10. \A m \in here : (\A h \in here : h <= m) => m = Rank(a, j)
    <2> SUFFICES ASSUME NEW m \in here, \A h \in here : h <= m
                 PROVE  m = Rank(a, j)
        OBVIOUS
    <2>1. m <= Rank(a, j) /\ Rank(a, j) <= m
        BY <1>8, <1>9
    <2>2. Rank(a, j) \in Nat /\ m \in Nat
        BY <1>1, <1>7
    <2> QED
        BY <2>1, <2>2
<1>11. (CHOOSE m \in here : \A h \in here : h <= m) = Rank(a, j)
    <2> HIDE DEF here
    <2> QED
        BY <1>8, <1>9, <1>10
<1>12. LastOf(a, p, k) = j
    BY <1>7, <1>11 DEF LastOf
<1>13. \A h \in (j + 1)..M : a[h] # k
    <2> SUFFICES ASSUME NEW h \in (j + 1)..M, a[h] = k PROVE FALSE
        OBVIOUS
    <2>1. h \in 1..M /\ ~ (h <= j)
        BY <1>1
    <2> QED
        BY <1>4, <2>1
<1> QED
    BY <1>12, <1>13

-----------------------------------------------------------------------------
(* The inductive invariant *)

Replies == [kind : ReplyKinds, vals : Seq(Int)]
Tasks   == [pos : Seq(Nat), pc : {"run", "send", "gone"}, reply : Replies]

\* The call a has been split into the tasks ts.
IsSplit(a, ts) ==
    /\ a \in Calls
    /\ ts \in [Leaders(a) -> Tasks]
    /\ \A t \in DOMAIN ts : ts[t].pos = Positions(a, t)

\* A task k of MSET that replied OK has set its keys, and nothing has set
\* them since, if lf is what the call has written ...
HasSet(c, a, lf, k) ==
    c = "MSET" /\ k.reply.kind = "string" =>
        \A x \in KeysIn(a, k.pos) : lf[x] = LastOf(a, k.pos, x)

\* ... and one of MGET has a value for each of its positions, the same for the
\* same key.
HasRead(a, k) ==
    k.reply.kind = "list" =>
        /\ Len(k.reply.vals) = Len(k.pos)
        /\ \A n, m \in 1..Len(k.pos) : a[k.pos[n]] = a[k.pos[m]] => k.reply.vals[n] = k.reply.vals[m]

\* A task has a reply only when it has run.
Works(c, a, lf, k) ==
    /\ k.pc = "run" => k.reply.kind = "none"
    /\ HasSet(c, a, lf, k) /\ HasRead(a, k)

Inv ==
    /\ TypeOK
    /\ phase # "done" => result.kind = "none"
    /\ phase = "idle" => DOMAIN tasks = {}
    /\ phase = "wait" => /\ IsSplit(args, tasks)
                         /\ \A t \in DOMAIN tasks : Works(cmd, args, left, tasks[t])
    /\ phase = "done" => Taken /\ SetOk /\ GetAligned

\* What the invariant says of a task.
LEMMA SplitFilled ==
    ASSUME NEW a, NEW ts, IsSplit(a, ts), NEW t \in DOMAIN ts
    PROVE  /\ Filled(a, t, Len(a), ts[t].pos)
           /\ t \in 1..Len(a) /\ ts[t] \in Tasks
           /\ ts[t].pos \in Seq(1..Len(a))
           /\ KeysIn(a, ts[t].pos) \subseteq Keys
<1>1. a \in Calls /\ Len(a) \in Nat
    BY CallIs DEF IsSplit
<1>2. Filled(a, t, Len(a), ts[t].pos)
    BY <1>1, PositionsFilled DEF IsSplit
<1>3. PICK i \in 1..Len(a) : t = Leader(a, i)
    BY DEF IsSplit, Leaders
<1>4. t \in 1..Len(a)
    BY <1>1, <1>3, LeaderIs
<1>5. ts[t].pos \in Seq(1..Len(a))
    <2> DEFINE p == ts[t].pos
    <2>1. p \in Seq(Nat) /\ \A k \in 1..Len(p) : p[k] \in 1..Len(a)
        BY <1>2 DEF Filled
    <2> HIDE DEF p
    <2>2. Len(p) \in Nat /\ p \in [1..Len(p) -> Nat]
        BY <2>1, LenProperties
    <2>3. p \in [1..Len(p) -> 1..Len(a)]
        BY <2>1, <2>2
    <2>4. p \in Seq(1..Len(a))
        BY <2>2, <2>3, IsSeq
    <2> QED
        BY <2>4 DEF p
<1>6. KeysIn(a, ts[t].pos) \subseteq Keys
    BY <1>1, <1>2, CallIs DEF Filled, KeysIn
<1> QED
    BY <1>2, <1>4, <1>5, <1>6 DEF IsSplit

\* Tasks have no key in common.
LEMMA KeysApart ==
    ASSUME NEW a, NEW ts, IsSplit(a, ts), NEW t \in DOMAIN ts, NEW u \in DOMAIN ts, t # u
    PROVE  KeysIn(a, ts[t].pos) \cap KeysIn(a, ts[u].pos) = {}
<1> SUFFICES ASSUME NEW n \in 1..Len(ts[t].pos), NEW m \in 1..Len(ts[u].pos),
                    a[ts[t].pos[n]] = a[ts[u].pos[m]]
             PROVE  FALSE
    BY DEF KeysIn
<1>1. ts[t].pos[n] \in 1..Len(a) /\ Leader(a, ts[t].pos[n]) = t
    BY SplitFilled DEF Filled
<1>2. ts[u].pos[m] \in 1..Len(a) /\ Leader(a, ts[u].pos[m]) = u
    BY SplitFilled DEF Filled
<1>3. Len(a) \in Nat
    BY CallIs DEF IsSplit
<1> QED
    BY <1>1, <1>2, <1>3, SameLeader

\* The conditions of TypeOK on the tasks.
TasksTyped(a, ts) ==
    \A t \in DOMAIN ts :
        /\ t \in 1..Len(a)
        /\ ts[t].pos \in Seq(1..Len(a))
        /\ ts[t].pc \in {"run", "send", "gone"}
        /\ ts[t].reply \in Replies

LEMMA SplitTyped ==
    ASSUME NEW a, NEW ts, IsSplit(a, ts)
    PROVE  TasksTyped(a, ts)
BY SplitFilled DEF TasksTyped, Tasks

LEMMA OfKindTyped == \A k \in ReplyKinds : OfKind(k) \in Replies /\ OfKind(k).kind = k
<1>1. <<>> \in Seq(Int)
    BY EmptySeq
<1> QED
    BY <1>1 DEF OfKind, Replies

LEMMA InitHolds == Init => Inv
<1> SUFFICES ASSUME Init PROVE Inv
    OBVIOUS
<1>1. DOMAIN tasks = {} /\ phase = "idle" /\ result = OfKind("none")
    BY DEF Init
<1>2. result \in Replies /\ result.kind = "none"
    BY <1>1, OfKindTyped DEF ReplyKinds
<1>3. TypeOK
    <2>1. store \in [Keys -> Int]
        BY DEF Init
    <2>2. left \in [Keys -> 0..MaxArgs] /\ writes \in 0..MaxWrites
        BY MultiAssumption DEF Init
    <2> QED
        BY <1>1, <1>2, <2>1, <2>2 DEF Init, TypeOK, Replies
<1> QED
    BY <1>1, <1>2, <1>3 DEF Inv

-----------------------------------------------------------------------------
(* The call starts *)

LEMMA SplitHolds ==
    ASSUME Inv, NEW a \in Calls, Split(a)
    PROVE  Inv'
<1>1. /\ args' = a /\ phase = "idle" /\ phase' = "wait"
      /\ tasks' = [t \in Leaders(a) |-> [pos |-> Positions(a, t), pc |-> "run",
                                         reply |-> OfKind("none")]]
      /\ UNCHANGED <<store, writes, cmd, result, left>>
    BY DEF Split
<1>2. OfKind("none") \in Replies /\ OfKind("none").kind = "none"
    BY OfKindTyped DEF ReplyKinds
<1>3. \A t \in Leaders(a) : Positions(a, t) \in Seq(Nat)
    BY CallIs, PositionsFilled DEF Filled
<1>4. IsSplit(a, tasks')
    BY <1>1, <1>2, <1>3 DEF IsSplit, Tasks
<1>5. \A t \in DOMAIN tasks' : Works(cmd, a, left, tasks'[t])
    BY <1>1, <1>2 DEF Works, HasSet, HasRead
<1>6. TypeOK'
    <2>1. TasksTyped(a, tasks')
        BY <1>4, SplitTyped
    <2> QED
        BY <1>1, <2>1 DEF Inv, TypeOK, TasksTyped, Replies
<1> QED
    BY <1>1, <1>4, <1>5, <1>6 DEF Inv

LEMMA RejectHolds ==
    ASSUME Inv, NEW a \in Calls, Reject(a)
    PROVE  Inv'
<1>1. /\ args' = a /\ phase = "idle" /\ phase' = "done" /\ result' = OfKind("err")
      /\ UNCHANGED <<store, writes, cmd, tasks, left>>
    BY DEF Reject
<1>2. result' \in Replies /\ result'.kind = "err"
    BY <1>1, OfKindTyped DEF ReplyKinds
<1>3. DOMAIN tasks = {}
    BY <1>1 DEF Inv
<1>4. TypeOK'
    BY <1>1, <1>2, <1>3 DEF Inv, TypeOK, Replies
<1>5. Taken' /\ SetOk' /\ GetAligned'
    BY <1>1, <1>2, <1>3 DEF Taken, SetOk, GetAligned
<1> QED
    BY <1>1, <1>4, <1>5 DEF Inv

-----------------------------------------------------------------------------
(* A task runs *)

\* What a command of MSET or MSETNX changes, in terms of the call.
LEMMA ExecuteIs ==
    ASSUME TypeOK, IsSplit(args, tasks), NEW t \in DOMAIN tasks,
           Execute(t) \/ UNCHANGED <<store, left>>
    PROVE  /\ store' \in [Keys -> Int] /\ left' \in [Keys -> 0..MaxArgs]
           /\ \A k \in Keys \ KeysIn(args, tasks[t].pos) : left'[k] = left[k]
           /\ Execute(t) /\ cmd = "MSET" =>
                \A k \in KeysIn(args, tasks[t].pos) : left'[k] = LastOf(args, tasks[t].pos, k)
<1> DEFINE p == tasks[t].pos
<1>1. KeysOf(t) = KeysIn(args, p)
    BY DEF KeysOf, KeysIn
<1>2. \A k : Written(t, k) = LastOf(args, p, k)
    BY DEF Written, LastOf
<1>3. KeysIn(args, p) \subseteq Keys /\ Filled(args, t, Len(args), p) /\ args \in Calls
    BY SplitFilled DEF IsSplit
<1> HIDE DEF p
<1>4. \A k \in KeysIn(args, p) : LastOf(args, p, k) \in Int /\ LastOf(args, p, k) \in 0..MaxArgs
    <2> SUFFICES ASSUME NEW k \in KeysIn(args, p)
                 PROVE  LastOf(args, p, k) \in Int /\ LastOf(args, p, k) \in 0..MaxArgs
        OBVIOUS
    <2>1. LastOf(args, p, k) \in 1..Len(args)
        BY <1>3, LastIs
    <2>2. Len(args) \in Nat /\ Len(args) <= MaxArgs /\ MaxArgs \in Nat
        BY <1>3, CallIs, MultiAssumption
    <2> QED
        BY <2>1, <2>2
<1>5. store \in [Keys -> Int] /\ left \in [Keys -> 0..MaxArgs]
    BY DEF TypeOK
<1>6. CASE Execute(t) /\ Sets(t)
    <2>1. /\ store' = [k \in Keys |-> IF k \in KeysIn(args, p) THEN LastOf(args, p, k) ELSE store[k]]
          /\ left' = [k \in Keys |-> IF k \in KeysIn(args, p) THEN LastOf(args, p, k) ELSE left[k]]
        BY <1>1, <1>2, <1>6 DEF Execute
    <2> QED
        BY <1>3, <1>4, <1>5, <2>1 DEF p
<1>7. CASE Execute(t) /\ ~Sets(t)
    BY <1>5, <1>7 DEF Execute, Sets
<1>8. CASE UNCHANGED <<store, left>> /\ ~Execute(t)
    BY <1>5, <1>8
<1> QED
    BY <1>6, <1>7, <1>8

\* The task ends with the reply r.
LEMMA EndHolds ==
    ASSUME Inv, phase = "wait", NEW t \in DOMAIN tasks, NEW r \in Replies, r.kind # "none", End(t, r),
           Execute(t) \/ UNCHANGED <<store, left>>,
           HasSet(cmd, args, left', [tasks[t] EXCEPT !.pc = "send", !.reply = r]),
           HasRead(args, [tasks[t] EXCEPT !.pc = "send", !.reply = r])
    PROVE  Inv'
<1> DEFINE new == [tasks[t] EXCEPT !.pc = "send", !.reply = r]
<1>1. /\ tasks' = [tasks EXCEPT ![t].pc = "send", ![t].reply = r]
      /\ UNCHANGED <<writes, cmd, args, phase, result>>
    BY DEF End
<1>2. IsSplit(args, tasks) /\ TypeOK
    BY DEF Inv
<1>3. tasks \in [Leaders(args) -> Tasks]
    BY <1>2 DEF IsSplit
<1>4. /\ new \in Tasks /\ new.pos = tasks[t].pos /\ new.pc = "send" /\ new.reply = r
    BY <1>3 DEF Tasks
<1>5. DOMAIN tasks' = DOMAIN tasks /\ tasks'[t] = new /\ \A u \in DOMAIN tasks \ {t} : tasks'[u] = tasks[u]
    BY <1>1, <1>3 DEF Tasks
<1>6. tasks' \in [Leaders(args) -> Tasks]
    <2>1. tasks' = [u \in Leaders(args) |-> tasks'[u]]
        BY <1>1, <1>3
    <2>2. \A u \in Leaders(args) : tasks'[u] \in Tasks
        BY <1>3, <1>4, <1>5
    <2> HIDE DEF new
    <2> QED
        BY <2>1, <2>2
<1> HIDE DEF new
<1>7. IsSplit(args, tasks')
    BY <1>2, <1>4, <1>5, <1>6 DEF IsSplit
<1>8. /\ store' \in [Keys -> Int] /\ left' \in [Keys -> 0..MaxArgs]
      /\ \A k \in Keys \ KeysIn(args, tasks[t].pos) : left'[k] = left[k]
    BY <1>2, ExecuteIs
<1>9. ASSUME NEW u \in DOMAIN tasks
      PROVE  Works(cmd, args, left', tasks'[u])
    <2>1. CASE u = t
        <3>1. Works(cmd, args, left', new)
            BY <1>4 DEF Works, new
        <3> QED
            BY <1>5, <2>1, <3>1
    <2>2. CASE u # t
        <3>1. Works(cmd, args, left, tasks[u])
            BY DEF Inv
        <3>2. KeysIn(args, tasks[u].pos) \subseteq Keys \ KeysIn(args, tasks[t].pos)
            BY <1>2, <2>2, SplitFilled, KeysApart
        <3>3. \A k \in KeysIn(args, tasks[u].pos) : left'[k] = left[k]
            BY <1>8, <3>2
        <3>4. Works(cmd, args, left', tasks[u])
            BY <3>1, <3>3 DEF Works, HasSet
        <3> QED
            BY <1>5, <2>2, <3>4
    <2> QED
        BY <2>1, <2>2
<1>10. TypeOK'
    <2>1. TasksTyped(args, tasks')
        BY <1>7, SplitTyped
    <2> QED
        BY <1>1, <1>2, <1>8, <2>1 DEF TypeOK, TasksTyped, Replies
<1> QED
    BY <1>1, <1>5, <1>7, <1>9, <1>10 DEF Inv

\* Tasks run while the caller waits.
LEMMA Running ==
    ASSUME Inv, NEW t \in DOMAIN tasks, tasks[t].pc # "gone"
    PROVE  phase = "wait"
BY DEF Inv, TypeOK, Taken

LEMMA TaskOkHolds ==
    ASSUME Inv, NEW t, TaskOk(t)
    PROVE  Inv'
<1> DEFINE r == Answer(t)
           p == tasks[t].pos
           new == [tasks[t] EXCEPT !.pc = "send", !.reply = r]
<1>1. t \in DOMAIN tasks /\ tasks[t].pc = "run" /\ Execute(t) /\ End(t, r)
    BY DEF TaskOk
<1>2. phase = "wait"
    BY <1>1, Running
<1>3. IsSplit(args, tasks) /\ TypeOK /\ args \in Calls
    BY <1>2 DEF Inv, IsSplit
<1>4. cmd \in {"MSET", "MSETNX", "MGET"}
    BY <1>3, MultiAssumption DEF TypeOK
<1>5. \A k \in ReplyKinds : OfKind(k) \in Replies /\ OfKind(k).kind = k
    BY OfKindTyped
<1>6. tasks[t] \in Tasks
    BY <1>1, <1>3, SplitFilled
<1>7. CASE cmd = "MSET"
    <2>1. r = OfKind("string")
        BY <1>7 DEF Answer
    <2>2. r \in Replies /\ r.kind = "string"
        BY <1>5, <2>1 DEF ReplyKinds
    <2> HIDE DEF r
    <2>3. new.pos = p /\ new.reply = r
        BY <1>6 DEF Tasks
    <2>4. \A k \in KeysIn(args, p) : left'[k] = LastOf(args, p, k)
        BY <1>1, <1>3, <1>7, ExecuteIs
    <2>5. HasSet(cmd, args, left', new) /\ HasRead(args, new)
        BY <2>2, <2>3, <2>4 DEF HasSet, HasRead
    <2> QED
        BY <1>1, <1>2, <2>2, <2>5, EndHolds
<1>8. CASE cmd = "MSETNX"
    <2>1. r = OfKind("int")
        BY <1>8 DEF Answer
    <2>2. r \in Replies /\ r.kind = "int"
        BY <1>5, <2>1 DEF ReplyKinds
    <2> HIDE DEF r
    <2>3. new.reply = r
        BY <1>6 DEF Tasks
    <2>4. HasSet(cmd, args, left', new) /\ HasRead(args, new)
        BY <1>8, <2>2, <2>3 DEF HasSet, HasRead
    <2> QED
        BY <1>1, <1>2, <2>2, <2>4, EndHolds
<1>9. CASE cmd = "MGET"
    <2> DEFINE v == [n \in 1..Len(p) |-> store[args[p[n]]]]
    <2>1. r = [kind |-> "list", vals |-> v]
        BY <1>9 DEF Answer
    <2>2. Filled(args, t, Len(args), p)
        BY <1>1, <1>3, SplitFilled
    <2>3. Len(p) \in Nat
        BY <2>2, LenProperties DEF Filled
    <2>4. \A n \in 1..Len(p) : args[p[n]] \in Keys
        BY <1>3, <2>2, CallIs DEF Filled
    <2>5. v \in [1..Len(p) -> Int]
        BY <1>3, <2>4 DEF TypeOK
    <2>6. \A n, m \in 1..Len(p) : args[p[n]] = args[p[m]] => v[n] = v[m]
        OBVIOUS
    <2> HIDE DEF v
    <2>7. v \in Seq(Int) /\ Len(v) = Len(p)
        BY <2>3, <2>5, IsSeq
    <2>8. r \in Replies /\ r.kind = "list" /\ r.vals = v
        BY <2>1, <2>7 DEF Replies, ReplyKinds
    <2> HIDE DEF r
    <2>9. new.pos = p /\ new.reply = r
        BY <1>6 DEF Tasks
    <2>10. HasSet(cmd, args, left', new) /\ HasRead(args, new)
        <3> HIDE DEF p, new
        <3> QED
            BY <1>9, <2>6, <2>7, <2>8, <2>9 DEF HasSet, HasRead
    <2> QED
        BY <1>1, <1>2, <2>8, <2>10, EndHolds
<1> QED
    BY <1>4, <1>7, <1>8, <1>9

LEMMA TaskFailHolds ==
    ASSUME Inv, NEW t, TaskFail(t)
    PROVE  Inv'
<1>1. t \in DOMAIN tasks /\ tasks[t].pc = "run"
    BY DEF TaskFail
<1>2. phase = "wait"
    BY <1>1, Running
<1>3. tasks[t] \in Tasks
    BY <1>1, <1>2, SplitFilled DEF Inv
<1>4. PICK k \in {"redis", "err", "nil"} :
         /\ End(t, OfKind(k))
         /\ Execute(t) \/ UNCHANGED <<store, left>>
    BY DEF TaskFail
<1> DEFINE r == OfKind(k)
           new == [tasks[t] EXCEPT !.pc = "send", !.reply = r]
<1>5. r \in Replies /\ r.kind = k
    BY OfKindTyped DEF ReplyKinds
<1>6. End(t, r)
    BY <1>4
<1> HIDE DEF r
<1>7. new.reply = r
    BY <1>3 DEF Tasks
<1>8. HasSet(cmd, args, left', new) /\ HasRead(args, new)
    BY <1>5, <1>7 DEF HasSet, HasRead
<1> QED
    BY <1>1, <1>2, <1>4, <1>5, <1>6, <1>8, EndHolds

-----------------------------------------------------------------------------
(* The caller *)

LEMMA TakeHolds ==
    ASSUME Inv, NEW t, Take(t)
    PROVE  Inv'
<1>1. /\ phase = "wait" /\ t \in DOMAIN tasks
      /\ tasks' = [tasks EXCEPT ![t].pc = "gone"]
      /\ UNCHANGED <<store, writes, cmd, args, phase, result, left>>
    BY DEF Take
<1>2. IsSplit(args, tasks) /\ tasks \in [Leaders(args) -> Tasks]
    BY <1>1 DEF Inv, IsSplit
<1>3. IsSplit(args, tasks')
    BY <1>1, <1>2 DEF IsSplit, Tasks
<1>4. ASSUME NEW u \in DOMAIN tasks
      PROVE  Works(cmd, args, left, tasks'[u])
    <2>1. Works(cmd, args, left, tasks[u])
        BY <1>1 DEF Inv
    <2>2. /\ tasks'[u].pos = tasks[u].pos /\ tasks'[u].reply = tasks[u].reply
          /\ tasks'[u].pc = "run" => tasks[u].pc = "run"
        BY <1>1, <1>2 DEF Tasks
    <2> QED
        BY <2>1, <2>2 DEF Works, HasSet, HasRead
<1>5. TypeOK'
    <2>1. TasksTyped(args, tasks')
        BY <1>3, SplitTyped
    <2> QED
        BY <1>1, <2>1 DEF Inv, TypeOK, TasksTyped, Replies
<1>6. DOMAIN tasks' = DOMAIN tasks
    BY <1>1, <1>2
<1> QED
    BY <1>1, <1>3, <1>4, <1>5, <1>6 DEF Inv

LEMMA SetCollectHolds ==
    ASSUME Inv, SetCollect
    PROVE  Inv'
<1> DEFINE r == OfKind(IF Strings THEN "string" ELSE "err")
<1>1. /\ phase = "wait" /\ Taken /\ phase' = "done" /\ result' = r
      /\ UNCHANGED <<store, writes, cmd, args, tasks, left>>
    BY DEF SetCollect, Finish
<1>2. /\ r \in Replies /\ r.kind \in {"string", "err"}
      /\ r.kind = "string" => Strings
    BY OfKindTyped DEF ReplyKinds
<1> HIDE DEF r
<1>3. TypeOK'
    BY <1>1, <1>2 DEF Inv, TypeOK, Replies
<1>4. Taken' /\ GetAligned'
    BY <1>1, <1>2 DEF Taken, GetAligned
<1>5. IsSplit(args, tasks) /\ args \in Calls
    BY <1>1 DEF Inv, IsSplit
<1>6. ASSUME cmd = "MSET", Strings, NEW i \in 1..Len(args)
      PROVE  left[args[i]] = CHOOSE j \in 1..Len(args) :
                                /\ args[j] = args[i]
                                /\ \A h \in (j + 1)..Len(args) : args[h] # args[i]
    <2> DEFINE k == args[i]
               t == Leader(args, i)
               p == tasks[t].pos
               M == Len(args)
    <2>1. M \in Nat
        BY <1>5, CallIs
    <2>2. t \in DOMAIN tasks
        BY <1>5 DEF IsSplit, Leaders
    <2>3. Filled(args, t, M, p)
        BY <1>5, <2>2, SplitFilled
    <2>4. i \in Of(args, t, M)
        BY DEF Of
    <2>5. Rank(args, i) \in 1..Len(p) /\ p[Rank(args, i)] = i
        BY <2>3, <2>4 DEF Filled
    <2>6. k \in KeysIn(args, p)
        BY <2>5 DEF KeysIn
    <2>7. left[k] = LastOf(args, p, k)
        BY <1>1, <1>6, <2>2, <2>6 DEF Inv, Works, HasSet, Strings
    <2> DEFINE j0 == LastOf(args, p, k)
    <2>8. j0 \in 1..M /\ args[j0] = k /\ \A h \in (j0 + 1)..M : args[h] # k
        <3> HIDE DEF k, p, t
        <3> QED
            BY <1>5, <2>3, <2>6, LastIs
    <2> HIDE DEF k, t, p, M, j0
    <2>9. ASSUME NEW j \in 1..M, args[j] = k, \A h \in (j + 1)..M : args[h] # k
          PROVE  j = j0
        <3>1. j \in Nat /\ j0 \in Nat
            BY <2>1, <2>8
        <3>2. j \notin (j0 + 1)..M /\ j0 \notin (j + 1)..M
            BY <2>8, <2>9
        <3> QED
            BY <2>1, <2>8, <3>1, <3>2
    <2>10. (CHOOSE j \in 1..M : args[j] = k /\ \A h \in (j + 1)..M : args[h] # k) = j0
        BY <2>8, <2>9
    <2> QED
        BY <2>7, <2>10 DEF k, M, j0
<1>7. SetOk'
    BY <1>1, <1>2, <1>6 DEF SetOk
<1> QED
    BY <1>1, <1>3, <1>4, <1>7 DEF Inv

LEMMA GetCollectHolds ==
    ASSUME Inv, GetCollect
    PROVE  Inv'
<1> DEFINE lists == \A t \in DOMAIN tasks : tasks[t].reply.kind = "list"
           v == [i \in 1..Len(args) |-> Nth(i)]
<1>1. /\ phase = "wait" /\ Taken /\ phase' = "done"
      /\ UNCHANGED <<store, writes, cmd, args, tasks, left>>
      /\ result' = IF lists THEN [kind |-> "list", vals |-> v] ELSE OfKind("err")
      /\ cmd = "MGET"
    BY DEF GetCollect, Finish
<1>2. IsSplit(args, tasks) /\ args \in Calls /\ Len(args) \in Nat
    BY <1>1, CallIs DEF Inv, IsSplit
<1>3. Taken' /\ SetOk'
    BY <1>1 DEF Taken, SetOk
<1>4. CASE ~lists
    <2>1. result' = OfKind("err")
        BY <1>1, <1>4
    <2>2. result' \in Replies /\ result'.kind = "err"
        BY <2>1, OfKindTyped DEF ReplyKinds
    <2>3. TypeOK' /\ GetAligned'
        BY <1>1, <2>2 DEF Inv, TypeOK, Replies, GetAligned
    <2> QED
        BY <1>1, <1>3, <2>3 DEF Inv
<1>5. CASE lists
    <2>1. ASSUME NEW i \in 1..Len(args)
          PROVE  LET t == Leader(args, i)
                     n == Rank(args, i)
                 IN  /\ t \in DOMAIN tasks /\ n \in 1..Len(tasks[t].pos) /\ tasks[t].pos[n] = i
                     /\ Nth(i) = tasks[t].reply.vals[n] /\ Nth(i) \in Int
        <3> DEFINE t == Leader(args, i)
                   n == Rank(args, i)
        <3>1. t \in DOMAIN tasks
            BY <1>2 DEF IsSplit, Leaders
        <3>2. Filled(args, t, Len(args), tasks[t].pos) /\ tasks[t] \in Tasks
            BY <1>2, <3>1, SplitFilled
        <3>3. i \in Of(args, t, Len(args))
            BY DEF Of
        <3>4. n \in 1..Len(tasks[t].pos) /\ tasks[t].pos[n] = i
            BY <3>2, <3>3 DEF Filled
        <3>5. Nth(i) = tasks[t].reply.vals[n]
            BY DEF Nth, Rank, Of
        <3>6. Len(tasks[t].reply.vals) = Len(tasks[t].pos)
            BY <1>1, <1>5, <3>1 DEF Inv, Works, HasRead
        <3>7. tasks[t].reply.vals \in Seq(Int)
            BY <3>2 DEF Tasks, Replies
        <3>8. Nth(i) \in Int
            <4> HIDE DEF t, n
            <4> QED
                BY <3>4, <3>5, <3>6, <3>7, ElementOfSeq
        <3> QED
            BY <3>1, <3>4, <3>5, <3>8
    <2>2. v \in [1..Len(args) -> Int] /\ \A i \in 1..Len(args) : v[i] = Nth(i)
        BY <2>1
    <2>3. result' = [kind |-> "list", vals |-> v]
        BY <1>1, <1>5
    <2> HIDE DEF v
    <2>4. v \in Seq(Int) /\ Len(v) = Len(args)
        BY <1>2, <2>2, IsSeq
    <2>5. ASSUME NEW i \in 1..Len(args), NEW j \in 1..Len(args), args[i] = args[j]
          PROVE  v[i] = v[j]
        <3> DEFINE t == Leader(args, i)
                   n == Rank(args, i)
                   m == Rank(args, j)
        <3>1. Leader(args, j) = t
            BY <1>2, <2>5, SameLeader
        <3>2. /\ t \in DOMAIN tasks /\ n \in 1..Len(tasks[t].pos) /\ tasks[t].pos[n] = i
              /\ Nth(i) = tasks[t].reply.vals[n]
            BY <2>1
        <3>3. /\ m \in 1..Len(tasks[t].pos) /\ tasks[t].pos[m] = j
              /\ Nth(j) = tasks[t].reply.vals[m]
            BY <2>1, <3>1
        <3>4. HasRead(args, tasks[t]) /\ tasks[t].reply.kind = "list"
            BY <1>1, <1>5, <3>2 DEF Inv, Works
        <3> HIDE DEF t, n, m
        <3>5. tasks[t].reply.vals[n] = tasks[t].reply.vals[m]
            BY <2>5, <3>2, <3>3, <3>4 DEF HasRead
        <3> QED
            BY <2>2, <3>2, <3>3, <3>5
    <2>6. ASSUME NEW i \in 1..Len(args)
          PROVE  \E t \in DOMAIN tasks : \E n \in 1..Len(tasks[t].pos) :
                    tasks[t].pos[n] = i /\ v[i] = tasks[t].reply.vals[n]
        BY <2>1, <2>2
    <2>7. GetAligned'
        <3>1. result'.vals = v /\ args' = args /\ tasks' = tasks
            BY <1>1, <2>3
        <3>2. \A i, j \in 1..Len(args) : args[i] = args[j] => v[i] = v[j]
            BY <2>5
        <3> QED
            BY <2>4, <2>6, <3>1, <3>2 DEF GetAligned
    <2>8. TypeOK'
        <3>1. result' \in Replies
            BY <2>3, <2>4 DEF Replies, ReplyKinds
        <3> QED
            BY <1>1, <3>1 DEF Inv, TypeOK, Replies
    <2> QED
        BY <1>1, <1>3, <2>7, <2>8 DEF Inv
<1> QED
    BY <1>4, <1>5

LEMMA NextHolds ==
    ASSUME Inv, [Next]_vars
    PROVE  Inv'
<1>1. ASSUME NEW a \in Calls, Split(a) \/ Reject(a)
      PROVE  Inv'
    BY <1>1, SplitHolds, RejectHolds
<1>2. ASSUME NEW t \in 1..MaxArgs, TaskOk(t) \/ TaskFail(t) \/ Take(t)
      PROVE  Inv'
    BY <1>2, TaskOkHolds, TaskFailHolds, TakeHolds
<1>3. CASE SetCollect \/ GetCollect
    BY <1>3, SetCollectHolds, GetCollectHolds
<1>4. ASSUME NEW k \in Keys, OtherWrites(k)
      PROVE  Inv'
    <2>1. /\ phase = "wait" /\ writes < MaxWrites /\ writes' = writes + 1
          /\ store' = [store EXCEPT ![k] = MaxArgs + writes + 1]
          /\ UNCHANGED <<cmd, args, tasks, phase, result, left>>
        BY <1>4 DEF OtherWrites
    <2>2. MaxArgs \in Nat /\ MaxWrites \in Nat /\ writes \in 0..MaxWrites /\ store \in [Keys -> Int]
        BY MultiAssumption DEF Inv, TypeOK
    <2>3. writes' \in 0..MaxWrites /\ MaxArgs + writes + 1 \in Int
        BY <2>1, <2>2
    <2>4. store' \in [Keys -> Int]
        BY <2>1, <2>2, <2>3
    <2> QED
        BY <2>1, <2>3, <2>4 DEF Inv, TypeOK
<1>5. CASE UNCHANGED vars
    BY <1>5 DEF vars, Inv, TypeOK, Taken, SetOk, GetAligned, Nth
<1> QED
    BY <1>1, <1>2, <1>3, <1>4, <1>5 DEF Next

\* The inductive invariant: the split of the call into tasks, and what the
\* tasks that have replied did.
THEOREM InvCorrect == Spec => []Inv
<1> QED
    BY InitHolds, NextHolds, PTL DEF Spec

\* The variables keep their Go types.
THEOREM TypeCorrect == Spec => []TypeOK
<1>1. Inv => TypeOK
    BY DEF Inv
<1> QED
    BY <1>1, InvCorrect, PTL

\* An MSET that returns OK has left in every key the value of the last pair
\* that names it.
THEOREM SetCorrect == Spec => []SetOk
<1>1. Inv => SetOk
    BY DEF Inv, TypeOK, SetOk
<1> QED
    BY <1>1, InvCorrect, PTL

\* An MGET that returns has at each position a value that the task of the key
\* read for it, and one value for a key that is asked for twice.
THEOREM GetCorrect == Spec => []GetAligned
<1>1. Inv => GetAligned
    BY DEF Inv, TypeOK, GetAligned
<1> QED
    BY <1>1, InvCorrect, PTL
=============================================================================
