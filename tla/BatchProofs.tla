----------------------------- MODULE BatchProofs ----------------------------
(***************************************************************************)
(* Proofs about batches, for any nodes, any number of commands and of      *)
(* updates of the table: Put scatters the commands over the nodes so that  *)
(* RunBatch gathers each reply at the place of its command, what one node  *)
(* loses is lost for its commands only, and no command is run twice.       *)
(***************************************************************************)
EXTENDS Batch, FiniteSetTheorems, SequenceTheorems, TLAPS

-----------------------------------------------------------------------------
(* The invariant *)

\* The positions up to j that were put for the nodeBatch i, if ix is the
\* index, and how many there are for the nodeBatch of position j.
Uses(ix, j, i) == {h \in 1..j : ix[h] = i}
Rank(ix, j) == Cardinality(Uses(ix, j, ix[j]))

\* There is one nodeBatch for a node.
OneEach(bs) ==
    \A i, m \in 1..Len(bs) : bs[i].node = bs[m].node => i = m

\* A nodeBatch holds as many commands as there are positions put for it ...
AllHeld(ix, bs) ==
    \A i \in 1..Len(bs) : Cardinality(Uses(ix, Len(ix), i)) = Len(bs[i].cmds)

\* ... the k-th command of a nodeBatch is the k-th position put for it ...
InOrder(ix, bs) ==
    \A i \in 1..Len(bs) : \A k \in 1..Len(bs[i].cmds) :
        /\ bs[i].cmds[k] \in 1..Len(ix)
        /\ ix[bs[i].cmds[k]] = i
        /\ Rank(ix, bs[i].cmds[k]) = k

\* ... and a position is found at its rank.
Found(ix, bs) ==
    \A j \in 1..Len(ix) :
        /\ Rank(ix, j) \in 1..Len(bs[ix[j]].cmds)
        /\ bs[ix[j]].cmds[Rank(ix, j)] = j

Fits(ix, bs) == OneEach(bs) /\ AllHeld(ix, bs) /\ InOrder(ix, bs) /\ Found(ix, bs)

Layout == Fits(index, batches)

\* The commands whose replies a goroutine has still to read have not been run.
Once ==
    /\ \A k \in 1..Cmd : ran[k] <= 1
    /\ \A i \in 1..Len(batches) : \A k \in 1..Len(batches[i].cmds) :
          batches[i].pc # "done" /\ k > batches[i].n => ran[batches[i].cmds[k]] = 0

\* The result is the one Collect computed.
Outcome ==
    IF \E j \in 1..Len(index) : reply[Consumed(j)] = "down"
    THEN [err |-> TRUE, replies |-> <<>>]
    ELSE [err |-> FALSE, replies |-> [j \in 1..Len(index) |-> Position(j)]]

Gathered == phase = "done" => result = Outcome

-----------------------------------------------------------------------------
(* Positions and ranks *)

\* The positions put for a nodeBatch are finitely many.
LEMMA UsesFinite ==
    ASSUME NEW ix, NEW j \in Nat, NEW i
    PROVE  IsFiniteSet(Uses(ix, j, i)) /\ Cardinality(Uses(ix, j, i)) \in Nat
<1>1. IsFiniteSet(1..j)
    BY FS_Interval
<1>2. Uses(ix, j, i) \in SUBSET (1..j)
    BY DEF Uses
<1> QED
    BY <1>1, <1>2, FS_Subset, FS_CardinalityType

\* In the invariant the command that RunBatch takes at a position is the one
\* that was put there.
LEMMA ConsumedIs == Layout => \A j \in 1..Len(index) : Consumed(j) = j
BY DEF Layout, Fits, Found, Consumed, Rank, Uses

-----------------------------------------------------------------------------
(* Types *)

LEMMA InitTyped == Init => TypeOK
<1> SUFFICES ASSUME Init
             PROVE  TypeOK
    OBVIOUS
<1>1. /\ batches = <<>> /\ index = <<>> /\ reply = <<>> /\ ran = <<>>
      /\ result = [err |-> FALSE, replies |-> <<>>]
    BY DEF Init
<1>2. /\ <<>> \in Seq(NodeBatches) /\ <<>> \in Seq(ReplyKinds) /\ <<>> \in Seq(Nat)
      /\ <<>> \in Seq(1..Len(batches))
      /\ <<>> \in Seq([cmd : Nat, kind : ReplyKinds])
      /\ Len(<<>>) = 0
    BY EmptySeq
<1>3. Cmd = 0
    BY <1>1, <1>2 DEF Cmd
<1> QED
    BY <1>1, <1>2, <1>3 DEF Init, TypeOK

\* The n-th command is filed in the nodeBatch i of its node, the only one,
\* which may be new.
Holds(bs, i) == IF i \in 1..Len(bs) THEN bs[i].cmds ELSE <<>>

Filed(ix, bs, ix2, bs2, i) ==
    /\ i \in 1..(Len(bs) + 1)
    /\ bs2 \in Seq(NodeBatches)
    /\ Len(bs2) = (IF i <= Len(bs) THEN Len(bs) ELSE Len(bs) + 1)
    /\ ix2 = Append(ix, i)
    /\ \A m \in 1..Len(bs2) : m # i => m \in 1..Len(bs) /\ bs2[m] = bs[m]
    /\ bs2[i].cmds = Append(Holds(bs, i), Len(ix) + 1)
    /\ i \in 1..Len(bs) =>
          bs2[i].node = bs[i].node /\ bs2[i].pc = bs[i].pc /\ bs2[i].n = bs[i].n
    /\ i \notin 1..Len(bs) => bs2[i].n = 0 /\ \A m \in 1..Len(bs) : bs[m].node # bs2[i].node

LEMMA PutShape ==
    ASSUME TypeOK, OneEach(batches), NEW s \in Slots, NEW slave \in BOOLEAN, Put(s, slave)
    PROVE  \E i : Filed(index, batches, index', batches', i)
<1> DEFINE same == {i \in 1..Len(batches) : batches[i].node = NodeFor(s, slave)}
<1>1. /\ batches \in Seq(NodeBatches) /\ Len(batches) \in Nat
      /\ Cmd \in Nat
      /\ \A i \in 1..Len(batches) : batches[i] \in NodeBatches
    BY DEF TypeOK, Cmd
<1>2. CASE same = {}
    <2> DEFINE b == NewBatch(s, slave)
               i == Len(batches) + 1
    <2>1. batches' = Append(batches, b) /\ index' = Append(index, i)
        BY <1>2 DEF Put
    <2>2. b \in NodeBatches
        <3>1. NodeFor(s, slave) \in Nodes /\ MasterFor(s, slave) \in Masters \cup {NoNode}
            BY DEF NodeFor, MasterFor, TypeOK, Nodes
        <3>2. <<Cmd + 1>> \in Seq(Nat)
            BY <1>1
        <3> QED
            BY <3>1, <3>2 DEF NewBatch, NodeBatches
    <2>3. b.cmds = <<Cmd + 1>> /\ b.node = NodeFor(s, slave) /\ b.n = 0
        BY DEF NewBatch
    <2> HIDE DEF b
    <2>4. /\ batches' \in Seq(NodeBatches) /\ Len(batches') = Len(batches) + 1
          /\ \A m \in 1..Len(batches) : batches'[m] = batches[m]
          /\ batches'[i] = b
        BY <1>1, <2>1, <2>2, AppendProperties
    <2>5. <<Cmd + 1>> = Append(<<>>, Cmd + 1)
        OBVIOUS
    <2>6. i \notin 1..Len(batches) /\ ~(i <= Len(batches)) /\ i \in 1..(Len(batches) + 1)
        BY <1>1
    <2>7. \A m \in 1..Len(batches') : m # i => m \in 1..Len(batches) /\ batches'[m] = batches[m]
        BY <1>1, <2>4
    <2>8. \A m \in 1..Len(batches) : batches[m].node # b.node
        BY <1>2, <2>3
    <2>9. Filed(index, batches, index', batches', i)
        BY <2>1, <2>3, <2>4, <2>5, <2>6, <2>7, <2>8 DEF Filed, Cmd, Holds
    <2> QED
        BY <2>9
<1>3. CASE same # {}
    <2>1. PICK e \in same : same = {e}
        BY <1>3 DEF OneEach
    <2> DEFINE i == CHOOSE i \in same : \A j \in same : i <= j
    <2>2. i = e
        BY <1>1, <2>1
    <2>3. /\ batches' = [batches EXCEPT ![i].cmds = Append(@, Cmd + 1)]
          /\ index' = Append(index, i)
        BY <1>3 DEF Put
    <2>4. i \in 1..Len(batches)
        BY <2>1, <2>2
    <2> HIDE DEF i
    <2> DEFINE b == [batches[i] EXCEPT !.cmds = Append(@, Cmd + 1)]
    <2>5. b \in NodeBatches
        <3>1. batches[i] \in NodeBatches
            BY <1>1, <2>4
        <3>2. Append(batches[i].cmds, Cmd + 1) \in Seq(Nat)
            BY <1>1, <3>1 DEF NodeBatches
        <3> QED
            BY <3>1, <3>2 DEF NodeBatches
    <2>6. batches' = [batches EXCEPT ![i] = b]
        BY <2>3
    <2>7. /\ b.cmds = Append(batches[i].cmds, Cmd + 1) /\ b.node = batches[i].node
          /\ b.pc = batches[i].pc /\ b.n = batches[i].n
        BY <1>1, <2>4 DEF NodeBatches
    <2> HIDE DEF b
    <2>8. /\ batches' \in Seq(NodeBatches) /\ Len(batches') = Len(batches)
          /\ \A m \in 1..Len(batches) : batches'[m] = IF m = i THEN b ELSE batches[m]
        BY <1>1, <2>4, <2>5, <2>6, ExceptSeq
    <2>9. Filed(index, batches, index', batches', i)
        BY <1>1, <2>3, <2>4, <2>7, <2>8 DEF Filed, Cmd, Holds
    <2> QED
        BY <2>9
<1> QED
    BY <1>2, <1>3

\* One position more, of nodeBatch i.
OneMore(ix, ix2, i) ==
    /\ Len(ix2) = Len(ix) + 1
    /\ ix2[Len(ix) + 1] = i
    /\ \A j \in 1..Len(ix) : ix2[j] = ix[j]
    /\ \A j \in 0..Len(ix) : \A m : Uses(ix2, j, m) = Uses(ix, j, m)
    /\ \A m : Uses(ix2, Len(ix) + 1, m) =
                 IF m = i THEN Uses(ix, Len(ix), m) \cup {Len(ix) + 1}
                          ELSE Uses(ix, Len(ix), m)

\* The positions after a command is filed.
LEMMA FiledUses ==
    ASSUME NEW bs \in Seq(NodeBatches), NEW ix \in Seq(1..Len(bs)),
           NEW bs2, NEW ix2, NEW i, Filed(ix, bs, ix2, bs2, i)
    PROVE  ix2 \in Seq(1..Len(bs2)) /\ OneMore(ix, ix2, i)
<1>1. /\ Len(ix) \in Nat /\ Len(bs) \in Nat /\ Len(bs2) \in Nat
      /\ Len(bs) <= Len(bs2) /\ i \in 1..Len(bs2)
    BY DEF Filed
<1>2. ix \in Seq(1..Len(bs2))
    <2>1. 1..Len(bs) \subseteq 1..Len(bs2)
        BY <1>1
    <2> QED
        BY <1>1, <2>1
<1>3. /\ ix2 \in Seq(1..Len(bs2)) /\ Len(ix2) = Len(ix) + 1
      /\ \A j \in 1..Len(ix) : ix2[j] = ix[j]
      /\ ix2[Len(ix) + 1] = i
    BY <1>1, <1>2, AppendProperties DEF Filed
<1>4. ASSUME NEW j \in 0..Len(ix), NEW m
      PROVE  Uses(ix2, j, m) = Uses(ix, j, m)
    <2>1. \A h \in 1..j : h \in 1..Len(ix)
        BY <1>1
    <2>2. \A h \in 1..j : ix2[h] = ix[h]
        BY <1>3, <2>1
    <2> QED
        BY <2>2 DEF Uses
<1>5. ASSUME NEW m
      PROVE  Uses(ix2, Len(ix) + 1, m) = IF m = i THEN Uses(ix, Len(ix), m) \cup {Len(ix) + 1}
                                                  ELSE Uses(ix, Len(ix), m)
    <2>1. \A h : h \in 1..(Len(ix) + 1) <=> h \in 1..Len(ix) \/ h = Len(ix) + 1
        BY <1>1
    <2>2. \A h \in 1..Len(ix) : ix2[h] = m <=> ix[h] = m
        BY <1>3
    <2>3. ix2[Len(ix) + 1] = m <=> m = i
        BY <1>3
    <2> QED
        BY <2>1, <2>2, <2>3 DEF Uses
<1>6. OneMore(ix, ix2, i)
    BY <1>3, <1>4, <1>5 DEF OneMore
<1> QED
    BY <1>3, <1>6

\* Filing a command keeps commands and positions in step.
LEMMA FiledFits ==
    ASSUME NEW bs \in Seq(NodeBatches), NEW ix \in Seq(1..Len(bs)),
           NEW bs2, NEW ix2, NEW i, Filed(ix, bs, ix2, bs2, i), Fits(ix, bs)
    PROVE  Fits(ix2, bs2)
<1> DEFINE n == Len(ix)
           c == Len(ix) + 1
           old == Holds(bs, i)
<1>1. /\ n \in Nat /\ c \in Nat /\ c > n
      /\ Len(bs) \in Nat /\ Len(bs2) \in Nat /\ Len(bs) <= Len(bs2)
      /\ i \in 1..Len(bs2)
      /\ \A m \in 1..Len(bs) : bs[m] \in NodeBatches
    BY DEF Filed
<1>2. /\ Len(ix2) = c /\ ix2[c] = i
      /\ \A j \in 1..n : ix2[j] = ix[j] /\ ix[j] \in 1..Len(bs)
      /\ \A j \in 0..n : \A m : Uses(ix2, j, m) = Uses(ix, j, m)
      /\ \A m : Uses(ix2, c, m) = IF m = i THEN Uses(ix, n, m) \cup {c} ELSE Uses(ix, n, m)
    <2>1. OneMore(ix, ix2, i)
        BY FiledUses
    <2>2. \A j \in 1..n : ix[j] \in 1..Len(bs)
        BY <1>1, ElementOfSeq
    <2> QED
        BY <2>1, <2>2 DEF OneMore
<1>3. \A m \in 1..Len(bs2) : m # i => m \in 1..Len(bs) /\ bs2[m] = bs[m]
    BY DEF Filed
<1>4. bs2[i].cmds = Append(old, c)
    BY DEF Filed
<1>5. old \in Seq(Nat) /\ Len(old) \in Nat
    BY <1>1 DEF Holds, NodeBatches
<1>6. /\ Len(bs2[i].cmds) = Len(old) + 1
      /\ \A k \in 1..Len(old) : bs2[i].cmds[k] = old[k]
      /\ bs2[i].cmds[Len(old) + 1] = c
    BY <1>1, <1>4, <1>5, AppendProperties
<1>7. Cardinality(Uses(ix, n, i)) = Len(old)
    <2>1. CASE i \in 1..Len(bs)
        BY <2>1 DEF Fits, AllHeld, Holds
    <2>2. CASE i \notin 1..Len(bs)
        <3>1. Uses(ix, n, i) = {}
            BY <1>2, <2>2 DEF Uses
        <3>2. Len(old) = 0
            BY <2>2 DEF Holds
        <3> QED
            BY <3>1, <3>2, FS_EmptySet
    <2> QED
        BY <2>1, <2>2
<1>8. IsFiniteSet(Uses(ix, n, i)) /\ c \notin Uses(ix, n, i)
    <2>1. c \notin 1..n
        BY <1>1
    <2>2. c \notin Uses(ix, n, i)
        BY <2>1 DEF Uses
    <2>3. IsFiniteSet(Uses(ix, n, i))
        BY <1>1, UsesFinite
    <2> QED
        BY <2>2, <2>3
<1>9. Cardinality(Uses(ix2, c, i)) = Len(old) + 1
    <2>1. Cardinality(Uses(ix, n, i) \cup {c}) = Cardinality(Uses(ix, n, i)) + 1
        BY <1>8, FS_AddElement
    <2> QED
        BY <1>2, <1>7, <2>1
<1>10. \A j : j \in 1..c <=> j \in 1..n \/ j = c
    BY <1>1
<1>11. \A j \in 1..n : j \in 0..n
    BY <1>1
<1> HIDE DEF n, c, old
<1>12. \A j \in 1..n : Rank(ix2, j) = Rank(ix, j)
    BY <1>2, <1>11 DEF Rank
<1>13. Rank(ix2, c) = Len(old) + 1
    BY <1>2, <1>9 DEF Rank
<1>14. OneEach(bs2)
    <2> SUFFICES ASSUME NEW m \in 1..Len(bs2), NEW e \in 1..Len(bs2),
                        bs2[m].node = bs2[e].node
                 PROVE  m = e
        BY DEF OneEach
    <2>1. CASE m # i /\ e # i
        BY <1>3, <2>1 DEF Fits, OneEach
    <2>2. ASSUME NEW x \in 1..Len(bs2), x # i
          PROVE  bs2[x].node # bs2[i].node
        <3>1. x \in 1..Len(bs) /\ bs2[x] = bs[x]
            BY <1>3, <2>2
        <3>2. CASE i \in 1..Len(bs)
            <4>1. bs2[i].node = bs[i].node
                BY <3>2 DEF Filed
            <4> QED
                BY <2>2, <3>1, <3>2, <4>1 DEF Fits, OneEach
        <3>3. CASE i \notin 1..Len(bs)
            BY <3>1, <3>3 DEF Filed
        <3> QED
            BY <3>2, <3>3
    <2> QED
        BY <1>1, <2>1, <2>2
<1>15. AllHeld(ix2, bs2)
    <2> SUFFICES ASSUME NEW m \in 1..Len(bs2)
                 PROVE  Cardinality(Uses(ix2, c, m)) = Len(bs2[m].cmds)
        BY <1>2 DEF AllHeld
    <2>1. CASE m = i
        BY <1>6, <1>9, <2>1
    <2>2. CASE m # i
        BY <1>2, <1>3, <2>2 DEF Fits, AllHeld, n
    <2> QED
        BY <2>1, <2>2
<1>16. InOrder(ix2, bs2)
    <2> SUFFICES ASSUME NEW m \in 1..Len(bs2), NEW k \in 1..Len(bs2[m].cmds)
                 PROVE  /\ bs2[m].cmds[k] \in 1..c
                        /\ ix2[bs2[m].cmds[k]] = m
                        /\ Rank(ix2, bs2[m].cmds[k]) = k
        BY <1>2 DEF InOrder
    <2>1. ASSUME m \in 1..Len(bs), k \in 1..Len(bs[m].cmds),
                 bs2[m].cmds[k] = bs[m].cmds[k]
          PROVE  /\ bs2[m].cmds[k] \in 1..c
                 /\ ix2[bs2[m].cmds[k]] = m
                 /\ Rank(ix2, bs2[m].cmds[k]) = k
        <3>1. /\ bs[m].cmds[k] \in 1..n
              /\ ix[bs[m].cmds[k]] = m
              /\ Rank(ix, bs[m].cmds[k]) = k
            BY <2>1 DEF Fits, InOrder, n
        <3> QED
            BY <1>2, <1>10, <1>12, <2>1, <3>1
    <2>2. CASE m # i
        BY <1>3, <2>1, <2>2
    <2>3. CASE m = i /\ k # Len(old) + 1
        <3>1. k \in 1..Len(old)
            BY <1>5, <1>6, <2>3
        <3>2. m \in 1..Len(bs) /\ old = bs[m].cmds
            BY <2>3, <3>1 DEF Holds, old
        <3> QED
            BY <1>6, <2>1, <2>3, <3>1, <3>2
    <2>4. CASE m = i /\ k = Len(old) + 1
        <3>1. bs2[m].cmds[k] = c
            BY <1>6, <2>4
        <3> QED
            BY <1>2, <1>10, <1>13, <2>4, <3>1
    <2> QED
        BY <2>2, <2>3, <2>4
<1>17. Found(ix2, bs2)
    <2> SUFFICES ASSUME NEW j \in 1..c
                 PROVE  /\ Rank(ix2, j) \in 1..Len(bs2[ix2[j]].cmds)
                        /\ bs2[ix2[j]].cmds[Rank(ix2, j)] = j
        BY <1>2 DEF Found
    <2>1. CASE j = c
        BY <1>2, <1>5, <1>6, <1>13, <2>1
    <2>2. CASE j \in 1..n
        <3>1. /\ Rank(ix2, j) = Rank(ix, j) /\ ix2[j] = ix[j]
              /\ ix[j] \in 1..Len(bs)
              /\ Rank(ix, j) \in 1..Len(bs[ix[j]].cmds)
              /\ bs[ix[j]].cmds[Rank(ix, j)] = j
            BY <1>2, <1>12, <2>2 DEF Fits, Found, n
        <3>2. CASE ix[j] # i
            <4>1. ix[j] \in 1..Len(bs2)
                BY <1>1, <3>1
            <4>2. bs2[ix[j]] = bs[ix[j]]
                BY <1>3, <3>2, <4>1
            <4> QED
                BY <3>1, <4>2
        <3>3. CASE ix[j] = i
            <4>1. old = bs[i].cmds
                BY <3>1, <3>3 DEF Holds, old
            <4>2. Rank(ix, j) \in 1..Len(old) /\ old[Rank(ix, j)] = j
                BY <3>1, <3>3, <4>1
            <4>3. Rank(ix, j) \in 1..(Len(old) + 1) /\ bs2[i].cmds[Rank(ix, j)] = j
                BY <1>5, <1>6, <4>2
            <4> QED
                BY <1>6, <3>1, <3>3, <4>3
        <3> QED
            BY <3>2, <3>3
    <2> QED
        BY <1>10, <2>1, <2>2
<1> QED
    BY <1>14, <1>15, <1>16, <1>17 DEF Fits

-----------------------------------------------------------------------------
(* Steps *)

\* The command that comes k-th in a nodeBatch is one of those put.
LEMMA CmdsKnown ==
    ASSUME TypeOK, Layout, NEW i \in 1..Len(batches), NEW k \in 1..Len(batches[i].cmds)
    PROVE  batches[i].cmds[k] \in 1..Cmd
BY DEF Layout, Fits, InOrder, Cmd

\* A goroutine changes its own nodeBatch only, never the commands of it.
Own(i, b) ==
    /\ i \in 1..Len(batches)
    /\ b \in NodeBatches
    /\ batches' = [batches EXCEPT ![i] = b]
    /\ b.node = batches[i].node /\ b.cmds = batches[i].cmds
    /\ UNCHANGED <<tableVars, index, phase, result>>

LEMMA OwnShape ==
    ASSUME TypeOK, NEW i, NEW b, Own(i, b)
    PROVE  /\ batches' \in Seq(NodeBatches) /\ Len(batches') = Len(batches)
           /\ \A m \in 1..Len(batches) : batches'[m] = IF m = i THEN b ELSE batches[m]
           /\ \A m \in 1..Len(batches) :
                 batches'[m].node = batches[m].node /\ batches'[m].cmds = batches[m].cmds
           /\ Layout => Layout'
<1>1. /\ batches \in Seq(NodeBatches) /\ b \in NodeBatches /\ i \in 1..Len(batches)
      /\ batches' = [batches EXCEPT ![i] = b]
      /\ index' = index /\ index \in Seq(1..Len(batches))
    BY DEF TypeOK, Own
<1>2. /\ batches' \in Seq(NodeBatches) /\ Len(batches') = Len(batches)
      /\ \A m \in 1..Len(batches) : batches'[m] = IF m = i THEN b ELSE batches[m]
    BY <1>1, ExceptSeq
<1>3. \A m \in 1..Len(batches) :
         batches'[m].node = batches[m].node /\ batches'[m].cmds = batches[m].cmds
    BY <1>2 DEF Own
<1>4. ASSUME Layout
      PROVE  Layout'
    <2>1. OneEach(batches')
        BY <1>2, <1>3, <1>4 DEF Layout, Fits, OneEach
    <2>2. AllHeld(index', batches')
        BY <1>1, <1>2, <1>3, <1>4 DEF Layout, Fits, AllHeld
    <2>3. InOrder(index', batches')
        <3>1. InOrder(index, batches)
            BY <1>4 DEF Layout, Fits
        <3>2. InOrder(index, batches')
            BY <1>2, <1>3, <3>1 DEF InOrder
        <3> QED
            BY <1>1, <3>2
    <2>4. Found(index', batches')
        <3>1. \A j \in 1..Len(index) : index[j] \in 1..Len(batches)
            BY <1>1, ElementOfSeq
        <3>2. \A j \in 1..Len(index) : batches'[index[j]].cmds = batches[index[j]].cmds
            BY <1>3, <3>1
        <3>3. Found(index, batches)
            BY <1>4 DEF Layout, Fits
        <3>4. Found(index, batches')
            BY <3>2, <3>3 DEF Found
        <3> QED
            BY <1>1, <3>4
    <2> QED
        BY <2>1, <2>2, <2>3, <2>4 DEF Layout, Fits
<1> QED
    BY <1>2, <1>3, <1>4

\* Every step of doBatch is of this kind.
LEMMA DoBatchShape ==
    ASSUME TypeOK, NEW i \in 1..Len(batches), DoBatch(i)
    PROVE  /\ phase = "run"
           /\ \E b : /\ Own(i, b)
                     /\ b.pc # "done" => b.n >= batches[i].n
<1>1. batches[i] \in NodeBatches /\ batches[i].n \in Nat
    <2>1. batches[i] \in NodeBatches
        BY ElementOfSeq DEF TypeOK
    <2> QED
        BY <2>1 DEF NodeBatches
<1>2. phase = "run"
    <2>1. \E p : At(i, p)
        <3>1. CASE GetConnOk(i) \/ GetConnFail(i) \/ FallbackFail(i) \/ SendOk(i)
            BY <3>1 DEF GetConnOk, GetConnFail, FallbackFail, SendOk
        <3>2. CASE PipeFail(i) \/ ReadOnlyOk(i) \/ Receive(i) \/ Finish(i)
            BY <3>2 DEF PipeFail, ReadOnlyOk, Receive, Finish
        <3> QED
            BY <3>1, <3>2 DEF DoBatch
    <2> QED
        BY <2>1 DEF At
<1>3. ASSUME NEW b, b \in NodeBatches, Step(i, b),
             b.node = batches[i].node, b.cmds = batches[i].cmds,
             b.pc # "done" => b.n >= batches[i].n
      PROVE  \E bb : Own(i, bb) /\ (bb.pc # "done" => bb.n >= batches[i].n)
    <2>1. Own(i, b)
        BY <1>3 DEF Own, Step
    <2> QED
        BY <1>3, <2>1
<1>4. ASSUME NEW p \in {"send", "ready", "recv"},
             Step(i, [batches[i] EXCEPT !.pc = p])
      PROVE  \E b : Own(i, b) /\ (b.pc # "done" => b.n >= batches[i].n)
    BY <1>1, <1>3, <1>4 DEF NodeBatches
<1>5. ASSUME NEW failed \in BOOLEAN, End(i, failed)
      PROVE  \E b : Own(i, b) /\ (b.pc # "done" => b.n >= batches[i].n)
    BY <1>1, <1>3, <1>5 DEF End, NodeBatches
<1>6. CASE GetConnOk(i) \/ SendOk(i) \/ ReadOnlyOk(i)
    BY <1>2, <1>4, <1>6 DEF GetConnOk, SendOk, ReadOnlyOk
<1>7. CASE GetConnFail(i)
    <2>1. CASE batches[i].node \in Slaves /\ batches[i].master # NoNode
        <3> DEFINE b == [batches[i] EXCEPT !.use = batches[i].master, !.pc = "fallback"]
        <3>1. Step(i, b)
            BY <1>7, <2>1 DEF GetConnFail
        <3>2. /\ b \in NodeBatches /\ b.node = batches[i].node /\ b.cmds = batches[i].cmds
              /\ b.n = batches[i].n
            <4>1. batches[i].master \in Nodes
                BY <1>1, <2>1 DEF NodeBatches, Nodes
            <4> QED
                BY <1>1, <4>1 DEF NodeBatches
        <3>3. b.n >= batches[i].n
            BY <1>1, <3>2
        <3> HIDE DEF b
        <3> QED
            BY <1>2, <1>3, <3>1, <3>2, <3>3
    <2>2. CASE ~(batches[i].node \in Slaves /\ batches[i].master # NoNode)
        BY <1>2, <1>5, <1>7, <2>2 DEF GetConnFail, Fail
    <2> QED
        BY <2>1, <2>2
<1>8. CASE FallbackFail(i) \/ PipeFail(i) \/ Finish(i)
    BY <1>2, <1>5, <1>8 DEF FallbackFail, PipeFail, Finish, Fail
<1>9. CASE Receive(i)
    <2> DEFINE b == [batches[i] EXCEPT !.n = @ + 1]
    <2>1. Step(i, b)
        BY <1>9 DEF Receive
    <2>2. /\ b \in NodeBatches /\ b.node = batches[i].node /\ b.cmds = batches[i].cmds
          /\ b.n >= batches[i].n
        BY <1>1 DEF NodeBatches
    <2> QED
        BY <1>2, <1>3, <2>1, <2>2
<1> QED
    BY <1>6, <1>7, <1>8, <1>9 DEF DoBatch

\* A Put keeps the types and the layout.
LEMMA PutKeeps ==
    ASSUME TypeOK, Layout, Once, NEW s \in Slots, NEW slave \in BOOLEAN, Put(s, slave)
    PROVE  TypeOK' /\ Layout' /\ Once'
<1>1. PICK i : Filed(index, batches, index', batches', i)
    BY PutShape DEF Layout, Fits
<1>2. /\ batches \in Seq(NodeBatches) /\ index \in Seq(1..Len(batches))
      /\ Len(batches) \in Nat /\ Cmd = Len(index) /\ Cmd \in Nat
      /\ reply \in Seq(ReplyKinds) /\ Len(reply) = Cmd
      /\ ran \in Seq(Nat) /\ Len(ran) = Cmd
    BY DEF TypeOK, Cmd
<1>3. /\ reply' = Append(reply, "nil") /\ ran' = Append(ran, 0)
      /\ UNCHANGED <<tableVars, phase, result>>
    BY DEF Put
<1>4. index' \in Seq(1..Len(batches')) /\ Len(index') = Cmd + 1
    <2>1. index' \in Seq(1..Len(batches')) /\ Len(index') = Len(index) + 1
        BY <1>1, <1>2, FiledUses DEF OneMore
    <2> QED
        BY <1>2, <2>1
<1>5. /\ ran' \in Seq(Nat) /\ Len(ran') = Cmd + 1
      /\ \A k \in 1..Cmd : ran'[k] = ran[k]
      /\ ran'[Cmd + 1] = 0
    <2>1. /\ Append(ran, 0) \in Seq(Nat) /\ Len(Append(ran, 0)) = Len(ran) + 1
          /\ \A k \in 1..Len(ran) : Append(ran, 0)[k] = ran[k]
          /\ Append(ran, 0)[Len(ran) + 1] = 0
        BY <1>2, AppendProperties
    <2> QED
        BY <1>2, <1>3, <2>1
<1>6. reply' \in Seq(ReplyKinds) /\ Len(reply') = Cmd + 1
    BY <1>2, <1>3, AppendProperties DEF ReplyKinds
<1>7. TypeOK'
    <2>1. batches' \in Seq(NodeBatches)
        BY <1>1 DEF Filed
    <2>2. Cmd' = Cmd + 1
        BY <1>4 DEF Cmd
    <2>3. /\ master' \in [Slots -> Masters]
          /\ replica' \in [Slots -> Slaves \cup {NoNode}]
          /\ updates' \in Nat
          /\ phase' \in {"put", "run", "done"}
          /\ result' \in [err : BOOLEAN, replies : Seq([cmd : Nat, kind : ReplyKinds])]
        BY <1>3 DEF TypeOK, tableVars
    <2> QED
        BY <1>4, <1>5, <1>6, <2>1, <2>2, <2>3 DEF TypeOK
<1>8. Layout'
    <2>1. Fits(index, batches)
        BY DEF Layout
    <2>2. Fits(index', batches')
        BY <1>1, <1>2, <2>1, FiledFits
    <2> QED
        BY <2>2 DEF Layout
<1>9. Once'
    <2>1. \A k \in 1..(Cmd + 1) : ran'[k] <= 1
        <3>1. \A k \in 1..(Cmd + 1) : k \in 1..Cmd \/ k = Cmd + 1
            BY <1>2
        <3>2. \A k \in 1..Cmd : ran[k] <= 1
            BY DEF Once
        <3> QED
            BY <1>5, <3>1, <3>2
    <2>2. ASSUME NEW m \in 1..Len(batches'), NEW k \in 1..Len(batches'[m].cmds),
                 batches'[m].pc # "done", k > batches'[m].n
          PROVE  ran'[batches'[m].cmds[k]] = 0
        <3>1. ASSUME m \in 1..Len(batches), k \in 1..Len(batches[m].cmds),
                     batches'[m].cmds[k] = batches[m].cmds[k],
                     batches'[m].pc = batches[m].pc, batches'[m].n = batches[m].n
              PROVE  ran'[batches'[m].cmds[k]] = 0
            <4>1. batches[m].cmds[k] \in 1..Cmd
                BY <3>1, CmdsKnown
            <4>2. ran[batches[m].cmds[k]] = 0
                BY <2>2, <3>1 DEF Once
            <4> QED
                BY <1>5, <3>1, <4>1, <4>2
        <3>2. CASE m # i
            <4>1. m \in 1..Len(batches) /\ batches'[m] = batches[m]
                BY <1>1, <3>2 DEF Filed
            <4> QED
                BY <3>1, <4>1
        <3> DEFINE old == Holds(batches, i)
        <3>3. old \in Seq(Nat) /\ Len(old) \in Nat
            <4>1. \A e \in 1..Len(batches) : batches[e] \in NodeBatches
                BY <1>2, ElementOfSeq
            <4>2. old \in Seq(Nat)
                BY <4>1 DEF Holds, NodeBatches
            <4> QED
                BY <4>2, LenProperties
        <3>4. /\ Len(batches'[i].cmds) = Len(old) + 1
              /\ \A h \in 1..Len(old) : batches'[i].cmds[h] = old[h]
              /\ batches'[i].cmds[Len(old) + 1] = Cmd + 1
            <4>1. batches'[i].cmds = Append(old, Cmd + 1)
                BY <1>1, <1>2 DEF Filed
            <4> QED
                BY <1>2, <3>3, <4>1, AppendProperties
        <3>5. CASE m = i /\ k = Len(old) + 1
            BY <1>5, <3>4, <3>5
        <3>6. CASE m = i /\ k # Len(old) + 1
            <4>1. k \in 1..Len(old)
                BY <3>3, <3>4, <3>6
            <4>2. i \in 1..Len(batches) /\ old = batches[i].cmds
                BY <3>3, <4>1 DEF Holds
            <4>3. batches'[i].pc = batches[i].pc /\ batches'[i].n = batches[i].n
                BY <1>1, <4>2 DEF Filed
            <4> QED
                BY <3>1, <3>4, <3>6, <4>1, <4>2, <4>3
        <3> QED
            BY <3>2, <3>5, <3>6
    <2>3. Cmd' = Cmd + 1
        BY <1>4 DEF Cmd
    <2> QED
        BY <2>1, <2>2, <2>3 DEF Once
<1> QED
    BY <1>7, <1>8, <1>9

\* A step of doBatch leaves the replies and the counts of runs what they are.
LEMMA DoBatchReplies ==
    ASSUME TypeOK, Layout, NEW i \in 1..Len(batches), DoBatch(i)
    PROVE  /\ reply' \in Seq(ReplyKinds) /\ Len(reply') = Cmd
           /\ ran' \in Seq(Nat) /\ Len(ran') = Cmd
<1>1. /\ reply \in Seq(ReplyKinds) /\ Len(reply) = Cmd
      /\ ran \in Seq(Nat) /\ Len(ran) = Cmd /\ DOMAIN ran = 1..Cmd
      /\ Cmd \in Nat
    BY DEF TypeOK, Cmd
<1>2. ASSUME NEW K, Run(K)
      PROVE  ran' \in Seq(Nat) /\ Len(ran') = Cmd
    <2>1. ran' = [k \in 1..Cmd |-> IF k \in K THEN ran[k] + 1 ELSE ran[k]]
        BY <1>1, <1>2 DEF Run
    <2>2. \A k \in 1..Cmd : ran[k] \in Nat
        BY <1>1, ElementOfSeq
    <2>3. ran' \in [1..Cmd -> Nat]
        BY <2>1, <2>2
    <2> QED
        BY <1>1, <2>3
<1>3. CASE Receive(i)
    <2> DEFINE k == batches[i].cmds[batches[i].n + 1]
    <2>1. /\ \E r \in ReplyKinds : reply' = [reply EXCEPT ![k] = r]
          /\ Run({k}) \/ UNCHANGED ran
        BY <1>3 DEF Receive
    <2>2. batches[i].n + 1 \in 1..Len(batches[i].cmds)
        <3>1. batches[i] \in NodeBatches
            BY ElementOfSeq DEF TypeOK
        <3>2. batches[i].n < Len(batches[i].cmds)
            BY <1>3 DEF Receive
        <3> QED
            BY <3>1, <3>2 DEF NodeBatches
    <2>3. k \in 1..Cmd
        BY <2>2, CmdsKnown
    <2> HIDE DEF k
    <2>4. reply' \in Seq(ReplyKinds) /\ Len(reply') = Cmd
        BY <1>1, <2>1, <2>3, ExceptSeq
    <2> QED
        BY <1>1, <1>2, <2>1, <2>4
<1>4. CASE PipeFail(i)
    <2>1. /\ \E K \in SUBSET Unread(i) : Run(K)
          /\ reply' = reply
        BY <1>4 DEF PipeFail
    <2> QED
        BY <1>1, <1>2, <2>1
<1>5. CASE ~(Receive(i) \/ PipeFail(i))
    <2>1. UNCHANGED <<reply, ran>>
        BY <1>5 DEF DoBatch, GetConnOk, GetConnFail, FallbackFail, SendOk, ReadOnlyOk, Finish
    <2> QED
        BY <1>1, <2>1
<1> QED
    BY <1>3, <1>4, <1>5

\* The servers run only commands whose replies the goroutine has not read, and
\* those that it will not read either, or reads next.
LEMMA DoBatchRuns ==
    ASSUME TypeOK, Layout, NEW i \in 1..Len(batches), DoBatch(i)
    PROVE  /\ batches[i].pc # "done"
           /\ \E K \in SUBSET Unread(i) :
                 /\ \A k \in 1..Cmd : ran'[k] = IF k \in K THEN ran[k] + 1 ELSE ran[k]
                 /\ batches'[i].pc # "done" =>
                       /\ batches'[i].n >= batches[i].n
                       /\ \A k \in 1..Len(batches[i].cmds) :
                             k > batches'[i].n => batches[i].cmds[k] \notin K
<1>1. DOMAIN ran = 1..Cmd /\ Cmd \in Nat /\ DOMAIN batches = 1..Len(batches)
    <2>1. DOMAIN batches = 1..Len(batches)
        BY LenProperties DEF TypeOK
    <2> QED
        BY <2>1 DEF TypeOK, Cmd
<1>2. PICK b : Own(i, b) /\ (b.pc # "done" => b.n >= batches[i].n)
    BY DoBatchShape
<1>3. batches'[i] = b
    BY <1>2, OwnShape
<1>4. batches[i].pc # "done"
    <2>1. \E p \in {"conn", "fallback", "send", "ready", "recv"} : At(i, p)
        <3>1. CASE GetConnOk(i) \/ GetConnFail(i) \/ FallbackFail(i) \/ SendOk(i)
            BY <3>1 DEF GetConnOk, GetConnFail, FallbackFail, SendOk
        <3>2. CASE PipeFail(i) \/ ReadOnlyOk(i) \/ Receive(i) \/ Finish(i)
            BY <3>2 DEF PipeFail, ReadOnlyOk, Receive, Finish
        <3> QED
            BY <3>1, <3>2 DEF DoBatch
    <2> QED
        BY <2>1 DEF At
<1>5. batches[i] \in NodeBatches
    BY ElementOfSeq DEF TypeOK
<1>6. CASE Receive(i)
    <2> DEFINE k == batches[i].cmds[batches[i].n + 1]
    <2>1. /\ batches[i].n < Len(batches[i].cmds)
          /\ Run({k}) \/ UNCHANGED ran
          /\ batches' = [batches EXCEPT ![i] = [batches[i] EXCEPT !.n = @ + 1]]
        BY <1>6 DEF Receive, Step
    <2>2. batches[i].n \in Nat /\ Len(batches[i].cmds) \in Nat
        BY <1>5 DEF NodeBatches
    <2>3. batches'[i].n = batches[i].n + 1
        <3>1. batches'[i] = [batches[i] EXCEPT !.n = @ + 1]
            BY <1>1, <2>1
        <3> QED
            BY <1>5, <3>1 DEF NodeBatches
    <2>4. batches[i].n + 1 \in 1..Len(batches[i].cmds)
        BY <2>1, <2>2
    <2>5. k \in Unread(i)
        BY <2>2, <2>4 DEF Unread
    <2>6. \A e \in 1..Len(batches[i].cmds) : e > batches[i].n + 1 => batches[i].cmds[e] # k
        <3>1. \A e \in 1..Len(batches[i].cmds) : Rank(index, batches[i].cmds[e]) = e
            BY DEF Layout, Fits, InOrder
        <3> QED
            BY <2>2, <2>4, <3>1
    <2> HIDE DEF k
    <2>7. CASE Run({k})
        <3>1. \A e \in 1..Cmd : ran'[e] = IF e \in {k} THEN ran[e] + 1 ELSE ran[e]
            BY <1>1, <2>7 DEF Run
        <3>2. {k} \in SUBSET Unread(i)
            BY <2>5
        <3>3. /\ batches'[i].n >= batches[i].n
              /\ \A e \in 1..Len(batches[i].cmds) :
                    e > batches'[i].n => batches[i].cmds[e] \notin {k}
            BY <2>2, <2>3, <2>6
        <3> QED
            BY <1>4, <3>1, <3>2, <3>3
    <2>8. CASE UNCHANGED ran
        <3>1. \A e \in 1..Cmd : ran'[e] = IF e \in {} THEN ran[e] + 1 ELSE ran[e]
            BY <2>8
        <3>2. batches'[i].n >= batches[i].n
            BY <2>2, <2>3
        <3>3. /\ {} \in SUBSET Unread(i)
              /\ \A e \in 1..Len(batches[i].cmds) : batches[i].cmds[e] \notin {}
            OBVIOUS
        <3> QED
            BY <1>4, <3>1, <3>2, <3>3
    <2> QED
        BY <2>1, <2>7, <2>8
<1>7. CASE PipeFail(i)
    <2>1. PICK K \in SUBSET Unread(i) : Run(K)
        BY <1>7 DEF PipeFail
    <2>2. \A e \in 1..Cmd : ran'[e] = IF e \in K THEN ran[e] + 1 ELSE ran[e]
        BY <1>1, <2>1 DEF Run
    <2>3. batches'[i].pc = "done"
        <3>1. batches' = [batches EXCEPT ![i] =
                            [batches[i] EXCEPT !.err = TRUE, !.pc = "done",
                                               !.use = batches[i].node, !.n = 0]]
            BY <1>7 DEF PipeFail, Fail, End, Step
        <3>2. batches'[i] = [batches[i] EXCEPT !.err = TRUE, !.pc = "done",
                                               !.use = batches[i].node, !.n = 0]
            BY <1>1, <3>1
        <3> QED
            BY <1>5, <3>2 DEF NodeBatches
    <2> QED
        BY <1>4, <2>2, <2>3
<1>8. CASE ~(Receive(i) \/ PipeFail(i))
    <2>1. UNCHANGED ran
        BY <1>8 DEF DoBatch, GetConnOk, GetConnFail, FallbackFail, SendOk, ReadOnlyOk, Finish
    <2>2. \A e \in 1..Cmd : ran'[e] = IF e \in {} THEN ran[e] + 1 ELSE ran[e]
        BY <2>1
    <2>3. /\ {} \in SUBSET Unread(i)
          /\ \A e \in 1..Len(batches[i].cmds) : batches[i].cmds[e] \notin {}
        OBVIOUS
    <2>4. batches'[i].pc # "done" => batches'[i].n >= batches[i].n
        BY <1>2, <1>3
    <2> QED
        BY <1>4, <2>2, <2>3, <2>4
<1> QED
    BY <1>6, <1>7, <1>8

\* A step of doBatch keeps the types, the layout and the counts.
LEMMA DoBatchKeeps ==
    ASSUME TypeOK, Layout, Once, NEW i \in 1..Len(batches), DoBatch(i)
    PROVE  TypeOK' /\ Layout' /\ Once'
<1>1. PICK b : Own(i, b)
    BY DoBatchShape
<1>2. /\ batches' \in Seq(NodeBatches) /\ Len(batches') = Len(batches)
      /\ \A m \in 1..Len(batches) : batches'[m] = IF m = i THEN b ELSE batches[m]
      /\ \A m \in 1..Len(batches) : batches'[m].cmds = batches[m].cmds
      /\ Layout'
    BY <1>1, OwnShape
<1>3. /\ reply' \in Seq(ReplyKinds) /\ Len(reply') = Cmd
      /\ ran' \in Seq(Nat) /\ Len(ran') = Cmd
    BY DoBatchReplies
<1>4. UNCHANGED <<tableVars, index, phase, result>> /\ Cmd' = Cmd
    BY <1>1 DEF Own, Cmd
<1>5. TypeOK'
    <2>1. /\ master' \in [Slots -> Masters]
          /\ replica' \in [Slots -> Slaves \cup {NoNode}]
          /\ updates' \in Nat
          /\ phase' \in {"put", "run", "done"}
          /\ result' \in [err : BOOLEAN, replies : Seq([cmd : Nat, kind : ReplyKinds])]
        BY <1>4 DEF TypeOK, tableVars
    <2>2. index' \in Seq(1..Len(batches'))
        BY <1>2, <1>4 DEF TypeOK
    <2> QED
        BY <1>2, <1>3, <1>4, <2>1, <2>2 DEF TypeOK
<1>6. Once'
    <2>1. PICK K \in SUBSET Unread(i) :
             /\ \A k \in 1..Cmd : ran'[k] = IF k \in K THEN ran[k] + 1 ELSE ran[k]
             /\ batches'[i].pc # "done" =>
                   /\ batches'[i].n >= batches[i].n
                   /\ \A k \in 1..Len(batches[i].cmds) :
                         k > batches'[i].n => batches[i].cmds[k] \notin K
        BY DoBatchRuns
    <2>2. batches[i].pc # "done"
        BY DoBatchRuns
    <2>3. /\ batches[i].n \in Nat /\ Len(batches[i].cmds) \in Nat
          /\ batches'[i].n \in Nat
        <3>1. batches[i] \in NodeBatches
            BY ElementOfSeq DEF TypeOK
        <3>2. batches'[i] \in NodeBatches
            BY <1>2, ElementOfSeq
        <3> QED
            BY <3>1, <3>2 DEF NodeBatches
    <2>4. \A c \in K : ran[c] = 0 /\ index[c] = i
        <3> SUFFICES ASSUME NEW c \in K
                     PROVE  ran[c] = 0 /\ index[c] = i
            OBVIOUS
        <3>1. PICK k \in (batches[i].n + 1)..Len(batches[i].cmds) : c = batches[i].cmds[k]
            BY DEF Unread
        <3>2. k \in 1..Len(batches[i].cmds) /\ k > batches[i].n
            BY <2>3, <3>1
        <3> QED
            BY <2>2, <3>1, <3>2 DEF Once, Layout, Fits, InOrder
    <2>5. \A k \in 1..Cmd : ran'[k] <= 1
        BY <2>1, <2>4 DEF Once
    <2>6. ASSUME NEW m \in 1..Len(batches), NEW k \in 1..Len(batches[m].cmds),
                 batches'[m].pc # "done", k > batches'[m].n
          PROVE  ran'[batches[m].cmds[k]] = 0
        <3>1. batches[m].cmds[k] \in 1..Cmd /\ index[batches[m].cmds[k]] = m
            BY CmdsKnown DEF Layout, Fits, InOrder
        <3>2. CASE m = i
            <4>0. batches'[i].n >= batches[i].n /\ k > batches'[i].n /\ k \in Nat
                BY <2>1, <2>6, <3>2
            <4>1. k > batches[i].n
                BY <2>3, <4>0
            <4>2. ran[batches[m].cmds[k]] = 0
                BY <2>2, <3>2, <4>1 DEF Once
            <4> QED
                BY <2>1, <2>6, <3>1, <3>2, <4>2
        <3>3. CASE m # i
            <4>1. batches[m].cmds[k] \notin K
                BY <2>4, <3>1, <3>3
            <4>2. batches'[m] = batches[m]
                BY <1>2, <3>3
            <4>3. ran[batches[m].cmds[k]] = 0
                BY <2>6, <4>2 DEF Once
            <4> QED
                BY <2>1, <3>1, <4>1, <4>3
        <3> QED
            BY <3>2, <3>3
    <2>7. \A m \in 1..Len(batches') : \A k \in 1..Len(batches'[m].cmds) :
             batches'[m].pc # "done" /\ k > batches'[m].n => ran'[batches'[m].cmds[k]] = 0
        BY <1>2, <2>6
    <2> QED
        BY <1>4, <2>5, <2>7 DEF Once
<1> QED
    BY <1>2, <1>5, <1>6

\* RunBatch collects the replies.
LEMMA OutcomeTyped ==
    ASSUME TypeOK, Layout
    PROVE  /\ Outcome \in [err : BOOLEAN, replies : Seq([cmd : Nat, kind : ReplyKinds])]
           /\ ~Outcome.err => /\ Len(Outcome.replies) = Cmd
                              /\ \A j \in 1..Cmd : Outcome.replies[j] = Position(j)
<1> DEFINE P == [cmd : Nat, kind : ReplyKinds]
           f == [j \in 1..Cmd |-> Position(j)]
<1>1. Cmd = Len(index) /\ Cmd \in Nat
    BY DEF TypeOK, Cmd
<1>2. \A j \in 1..Cmd : reply[j] \in ReplyKinds
    BY ElementOfSeq DEF TypeOK
<1>3. \A j \in 1..Cmd : Position(j) \in P
    <2>1. \A j \in 1..Cmd : Consumed(j) = j
        BY <1>1, ConsumedIs
    <2> QED
        BY <1>1, <1>2, <2>1 DEF Position, NilReply, ReplyKinds
<1>4. f \in Seq(P) /\ Len(f) = Cmd /\ \A j \in 1..Cmd : f[j] = Position(j)
    <2>1. f \in [1..Cmd -> P]
        BY <1>3
    <2> QED
        BY <1>1, <2>1
<1>5. <<>> \in Seq(P)
    BY EmptySeq
<1>6. Outcome = IF \E j \in 1..Cmd : reply[Consumed(j)] = "down"
                THEN [err |-> TRUE, replies |-> <<>>]
                ELSE [err |-> FALSE, replies |-> f]
    BY <1>1 DEF Outcome
<1> HIDE DEF P, f
<1> QED
    BY <1>4, <1>5, <1>6 DEF P

\* The inductive invariant.
Inv == TypeOK /\ Layout /\ Once /\ Gathered

LEMMA InitInv == Init => Inv
<1> SUFFICES ASSUME Init
             PROVE  Inv
    OBVIOUS
<1>1. TypeOK
    BY InitTyped
<1>2. Len(index) = 0 /\ Len(batches) = 0 /\ Cmd = 0
    BY DEF Init, Cmd
<1>3. Layout
    BY <1>2 DEF Layout, Fits, OneEach, AllHeld, InOrder, Found
<1>4. Once /\ Gathered
    BY <1>2 DEF Once, Gathered, Init
<1> QED
    BY <1>1, <1>3, <1>4 DEF Inv

LEMMA NextInv == Inv /\ [Next]_vars => Inv'
<1> SUFFICES ASSUME TypeOK, Layout, Once, Gathered, [Next]_vars
             PROVE  Inv'
    BY DEF Inv
<1>1. ASSUME NEW s \in Slots, NEW slave \in BOOLEAN, Put(s, slave)
      PROVE  Inv'
    <2>1. Gathered'
        BY <1>1 DEF Put, Gathered
    <2> QED
        BY <1>1, <2>1, PutKeeps DEF Inv
<1>2. ASSUME NEW i \in 1..Len(batches), DoBatch(i)
      PROVE  Inv'
    <2>1. phase = "run"
        BY <1>2, DoBatchShape
    <2>2. phase' = phase
        BY <1>2, DoBatchShape DEF Own
    <2>3. Gathered'
        BY <2>1, <2>2 DEF Gathered
    <2> QED
        BY <1>2, <2>3, DoBatchKeeps DEF Inv
<1>3. ASSUME UNCHANGED <<batches, index, reply, ran>>
      PROVE  /\ Layout' /\ Once' /\ Cmd' = Cmd
             /\ Outcome' = Outcome
    BY <1>3 DEF Layout, Once, Cmd, Outcome, Consumed, Position
<1>4. ASSUME NEW s \in Slots, NEW m \in Masters, NEW r \in Slaves \cup {NoNode}, Retable(s, m, r)
      PROVE  Inv'
    <2>1. UNCHANGED <<batches, index, phase, reply, ran, result>> /\ phase = "put"
        BY <1>4 DEF Retable
    <2>2. TypeOK'
        BY <1>3, <1>4, <2>1 DEF TypeOK, Retable
    <2>3. Gathered'
        BY <2>1 DEF Gathered
    <2> QED
        BY <1>3, <2>1, <2>2, <2>3 DEF Inv
<1>5. CASE RunBatch
    <2>1. UNCHANGED <<tableVars, batches, index, reply, ran, result>> /\ phase' = "run"
        BY <1>5 DEF RunBatch
    <2>2. TypeOK'
        BY <1>3, <2>1 DEF TypeOK, tableVars
    <2>3. Gathered'
        BY <2>1 DEF Gathered
    <2> QED
        BY <1>3, <2>1, <2>2, <2>3 DEF Inv
<1>6. CASE Collect
    <2>1. UNCHANGED <<tableVars, batches, index, reply, ran>> /\ phase' = "done"
        BY <1>6 DEF Collect
    <2>2. result' = Outcome
        BY <1>6 DEF Collect, Outcome
    <2>3. TypeOK'
        BY <1>3, <2>1, <2>2, OutcomeTyped DEF TypeOK, tableVars
    <2>4. Gathered'
        BY <1>3, <2>1, <2>2 DEF Gathered
    <2> QED
        BY <1>3, <2>1, <2>3, <2>4 DEF Inv
<1>7. CASE UNCHANGED vars
    <2>1. UNCHANGED <<tableVars, batches, index, phase, reply, ran, result>>
        BY <1>7 DEF vars
    <2>2. TypeOK'
        BY <1>3, <2>1 DEF TypeOK, tableVars
    <2>3. Gathered'
        BY <1>3, <2>1 DEF Gathered
    <2> QED
        BY <1>3, <2>1, <2>2, <2>3 DEF Inv
<1> QED
    BY <1>1, <1>2, <1>4, <1>5, <1>6, <1>7 DEF Next

LEMMA AlwaysInv == Spec => []Inv
<1>1. Init => Inv
    BY InitInv
<1>2. Inv /\ [Next]_vars => Inv'
    BY NextInv
<1> QED
    BY <1>1, <1>2, PTL DEF Spec

-----------------------------------------------------------------------------
(* What follows *)

\* Put, doBatch and RunBatch keep the types of their variables: in particular
\* no index of batch.index, batch.batches or nodeBatch.cmds is out of range.
THEOREM TypeCorrect == Spec => []TypeOK
<1>1. Inv => TypeOK
    BY DEF Inv
<1> QED
    BY <1>1, AlwaysInv, PTL

\* RunBatch returns one reply for each command, and at the place of a command
\* its own reply or nil: taking the first command left in the nodeBatch of
\* each position undoes what Put did, whatever the nodes were.
THEOREM RepliesCorrect == Spec => []RepliesAligned
<1>1. Inv => RepliesAligned
    <2> SUFFICES ASSUME Inv, phase = "done", ~result.err
                 PROVE  /\ Len(result.replies) = Cmd
                        /\ \A j \in 1..Cmd : result.replies[j].cmd \in {0, j}
        BY DEF RepliesAligned
    <2>1. /\ Len(result.replies) = Cmd
          /\ \A j \in 1..Cmd : result.replies[j] = Position(j)
        BY OutcomeTyped DEF Inv, Gathered
    <2>2. \A j \in 1..Cmd : Consumed(j) = j
        BY ConsumedIs DEF Inv, Cmd
    <2>3. \A j \in 1..Cmd : Position(j).cmd \in {0, j}
        BY <2>2 DEF Position, NilReply
    <2> QED
        BY <2>1, <2>3
<1> QED
    BY <1>1, AlwaysInv, PTL

\* A command of a node that did not fail gets its reply back, if it has one:
\* neither the failure of another node nor the reply nil that a failed
\* redirection leaves takes anything from it.
THEOREM FailureCorrect == Spec => []FailureContained
<1>1. Inv => FailureContained
    <2> SUFFICES ASSUME Inv, phase = "done", ~result.err,
                        NEW i \in 1..Len(batches), ~batches[i].err,
                        NEW k \in 1..Len(batches[i].cmds),
                        reply[batches[i].cmds[k]] # "nil"
                 PROVE  result.replies[batches[i].cmds[k]] =
                            [cmd |-> batches[i].cmds[k], kind |-> reply[batches[i].cmds[k]]]
        BY DEF FailureContained
    <2> DEFINE c == batches[i].cmds[k]
    <2>1. c \in 1..Cmd /\ index[c] = i
        BY DEF Inv, Layout, Fits, InOrder, Cmd
    <2>2. Consumed(c) = c
        BY <2>1, ConsumedIs DEF Inv, Cmd
    <2>3. result.replies[c] = Position(c)
        BY <2>1, OutcomeTyped DEF Inv, Gathered
    <2> QED
        BY <2>1, <2>2, <2>3 DEF Position
<1> QED
    BY <1>1, AlwaysInv, PTL

\* No command of a batch is run twice by the servers: a replica is given up
\* for its master only before anything is sent.
THEOREM RunAtMostOnce == Spec => []AtMostOnce
<1>1. Inv => AtMostOnce
    BY DEF Inv, Once, AtMostOnce, TypeOK
<1> QED
    BY <1>1, AlwaysInv, PTL

=============================================================================
