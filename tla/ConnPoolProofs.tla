--------------------------- MODULE ConnPoolProofs ---------------------------
(***************************************************************************)
(* Proofs about the connection pool, for any number of clients and         *)
(* connections, any keepAlive and aliveTime and any bounds.                *)
(*                                                                         *)
(* The invariants come in layers, each proved from the ones before it:     *)
(*   TypeInv   types, and who has a connection at which point of a call    *)
(*   OwnerInv  one owner for a connection, whose socket is open            *)
(*   FlightInv what the connections carry                                  *)
(*   CallInv   what a call has written and what it returns                 *)
(* The draining of a closed node and the ownership of open sockets follow  *)
(* from TypeInv, the freshness of what getConn hands out from PoolOrdered. *)
(***************************************************************************)
EXTENDS ConnPool, SequenceTheorems, TLAPS

-----------------------------------------------------------------------------
(* Lemmas about the operators *)

\* A pipeline has at least one command.
LEMMA PipelineLenType ==
    ASSUME NEW k \in Kinds \cup {"do"}
    PROVE  PipelineLen(k) \in Nat \ {0}
BY PoolAssumption DEF PipelineLen

\* The pool that getConn leaves when it takes the connection at position n.
LEMMA Prefix ==
    ASSUME NEW S, NEW s \in Seq(S), NEW n \in 1..Len(s)
    PROVE  /\ SubSeq(s, 1, n - 1) \in Seq(S)
           /\ Len(SubSeq(s, 1, n - 1)) = n - 1
           /\ \A i \in 1..(n - 1) : SubSeq(s, 1, n - 1)[i] = s[i]
<1>1. Len(s) \in Nat /\ n \in Int /\ n - 1 \in Int
  BY LenProperties
<1>2. \A i \in 1..(n - 1) : s[i] \in S
  BY <1>1, ElementOfSeq
<1> QED
  BY <1>1, <1>2, SubSeqProperties

\* The pool after releaseConn has pushed a connection to the Front.
LEMMA PushFront ==
    ASSUME NEW S, NEW s \in Seq(S), NEW e \in S
    PROVE  /\ <<e>> \o s \in Seq(S)
           /\ Len(<<e>> \o s) = Len(s) + 1
           /\ (<<e>> \o s)[1] = e
           /\ \A i \in 2..(Len(s) + 1) : (<<e>> \o s)[i] = s[i - 1]
<1>1. <<e>> \in Seq(S) /\ Len(<<e>>) = 1 /\ <<e>>[1] = e
  OBVIOUS
<1>2. Len(s) \in Nat
  BY LenProperties
<1> QED
  BY <1>1, <1>2, ConcatProperties

\* The commands of a pipeline are requests.
LEMMA PipelineType ==
    ASSUME NEW c \in Clients, NEW n \in Nat, NEW k \in Nat
    PROVE  [i \in 1..k |-> Request(c, n, i)] \in Seq(Requests)
<1>1. \A i \in 1..k : Request(c, n, i) \in Requests
  BY DEF Request, Requests
<1> QED
  BY <1>1, IsASeq

-----------------------------------------------------------------------------
(* Types *)

TypeInv == TypeOK /\ HeldOK

LEMMA TypeInit == Init => TypeInv
<1> SUFFICES ASSUME Init PROVE TypeInv
  OBVIOUS
<1> USE DEF Init
<1>1. TypeOK
  BY PoolAssumption, EmptySeq DEF TypeOK, SockStates, PcStates, Results, Requests
<1>2. HeldOK
  BY DEF HeldOK
<1> QED
  BY <1>1, <1>2 DEF TypeInv

\* The counters and flags of a call that begins.
LEMMA StartCallType ==
    ASSUME TypeOK, NEW c \in Clients, NEW k \in Kinds, StartCall(c, k)
    PROVE  /\ call' \in [Clients -> Nat]
           /\ kind' \in [Clients -> Kinds \cup {"do"}]
           /\ got' \in [Clients -> Seq(Requests)]
           /\ touched' \in [Clients -> BOOLEAN]
<1>1. <<>> \in Seq(Requests)
  BY EmptySeq
<1>2. call[c] \in Nat /\ call[c] + 1 \in Nat
  BY DEF TypeOK
<1> QED
  BY <1>1, <1>2 DEF TypeOK, StartCall

\* Every action preserves the types.
LEMMA TypeStep == TypeInv /\ [Next]_vars => TypeInv'
<1> SUFFICES ASSUME TypeInv, [Next]_vars PROVE TypeInv'
  OBVIOUS
<1> USE PoolAssumption DEF TypeInv, TypeOK, HeldOK, SockStates, PcStates, Results
<1>1. ASSUME NEW c \in Clients, NEW k \in Kinds, GetConnClosed(c, k) PROVE TypeInv'
  BY <1>1 DEF GetConnClosed, StartCall, NoConnResult, connVars
<1>2. ASSUME NEW c \in Clients, NEW k \in Kinds, GetConnDial(c, k) PROVE TypeInv'
  BY <1>2, EmptySeq DEF GetConnDial, StartCall, DropPurged
<1>3. ASSUME NEW c \in Clients, NEW k \in Kinds, NEW n \in 1..Len(pool),
             GetConnPooled(c, k, n)
      PROVE  TypeInv'
  <2>1. pool[n] \in Conns
    BY ElementOfSeq
  <2>2. pool' \in Seq(Conns)
    BY <1>3, Prefix DEF GetConnPooled
  <2>3. sock' \in [Conns -> SockStates]
    BY <1>3 DEF GetConnPooled, DropPurged
  <2>4. /\ held' \in [Clients -> Conns \cup {NoConn}]
        /\ pc' \in [Clients -> PcStates]
        /\ HeldOK'
    BY <1>3, <2>1 DEF GetConnPooled, StartCall
  <2>5. /\ got' \in [Clients -> Seq(Requests)]
        /\ call' \in [Clients -> Nat]
        /\ kind' \in [Clients -> Kinds \cup {"do"}]
        /\ touched' \in [Clients -> BOOLEAN]
        /\ result' \in [Clients -> Results]
    <3>1. StartCall(c, k) /\ result' = [result EXCEPT ![c] = "none"]
      BY <1>3 DEF GetConnPooled
    <3> QED
      BY <3>1, StartCallType
  <2>6. UNCHANGED <<closed, stamp, pending, wire, inbox, now>>
    BY <1>3 DEF GetConnPooled
  <2> QED
    BY <2>2, <2>3, <2>4, <2>5, <2>6
<1>4. ASSUME NEW c \in Clients, NEW x \in Conns, DialOk(c, x) PROVE TypeInv'
  BY <1>4 DEF DialOk
<1>5. ASSUME NEW c \in Clients, DialFail(c) PROVE TypeInv'
  BY <1>5 DEF DialFail, NoConnResult, connVars
<1>6. ASSUME NEW c \in Clients, SendOk(c) PROVE TypeInv'
  <2>1. PipelineLen(kind[c]) \in Nat
    BY PipelineLenType
  <2>2. [i \in 1..PipelineLen(kind[c]) |-> Request(c, call[c], i)] \in Seq(Requests)
    BY <2>1, PipelineType
  <2>3. pending' \in [Conns -> Nat]
    BY <1>6, <2>1 DEF SendOk
  <2>4. wire' \in [Conns -> Seq(Requests)]
    BY <1>6, <2>2 DEF SendOk
  <2> QED
    BY <1>6, <2>3, <2>4 DEF SendOk
<1>7. ASSUME NEW c \in Clients, ShutAndFail(c), touched' \in [Clients -> BOOLEAN]
      PROVE  TypeInv'
  BY <1>7, EmptySeq DEF ShutAndFail, Shut
<1>8. ASSUME NEW x \in Conns, ServerReply(x) PROVE TypeInv'
  <2>1. Head(wire[x]) \in Requests /\ Tail(wire[x]) \in Seq(Requests)
    BY <1>8, HeadTailProperties DEF ServerReply
  <2>2. Append(inbox[x], Head(wire[x])) \in Seq(Requests)
    BY <2>1, AppendProperties
  <2> QED
    BY <1>8, <2>1, <2>2 DEF ServerReply, clientVars
<1>9. ASSUME NEW c \in Clients, ReceiveOk(c) PROVE TypeInv'
  <2>1. held[c] \in Conns
    BY <1>9 DEF ReceiveOk
  <2>2. Head(inbox[held[c]]) \in Requests /\ Tail(inbox[held[c]]) \in Seq(Requests)
    BY <1>9, <2>1, HeadTailProperties DEF ReceiveOk
  <2>3. Append(got[c], Head(inbox[held[c]])) \in Seq(Requests)
    BY <2>2, AppendProperties
  <2> QED
    BY <1>9, <2>1, <2>2, <2>3 DEF ReceiveOk
<1>10. ASSUME NEW c \in Clients, ReleaseShut(c) PROVE TypeInv'
  BY <1>10, EmptySeq DEF ReleaseShut, Shut
<1>11. ASSUME NEW c \in Clients, ReleasePooled(c) PROVE TypeInv'
  <2>1. held[c] \in Conns
    BY <1>11 DEF ReleasePooled
  <2>2. pool' \in Seq(Conns)
    BY <1>11, <2>1, PushFront DEF ReleasePooled
  <2> QED
    BY <1>11, <2>1, <2>2 DEF ReleasePooled
<1>12. ASSUME Shutdown PROVE TypeInv'
  BY <1>12, EmptySeq DEF Shutdown, Shut, clientVars
<1>13. ASSUME Tick PROVE TypeInv'
  BY <1>13 DEF Tick, connVars, clientVars
<1>14. ASSUME NEW x \in Conns, Finalize(x) PROVE TypeInv'
  BY <1>14, EmptySeq DEF Finalize, Shut, clientVars
<1>15. ASSUME UNCHANGED vars PROVE TypeInv'
  BY <1>15 DEF vars, connVars, clientVars
<1>16. ASSUME NEW c \in Clients, SendErr(c) \/ ReceiveErr(c) \/ GuardRejected(c)
       PROVE  TypeInv'
  <2>1. ShutAndFail(c) /\ touched' \in [Clients -> BOOLEAN]
    BY <1>16 DEF SendErr, ReceiveErr, GuardRejected
  <2> QED
    BY <1>7, <2>1
<1> QED
  BY <1>1, <1>2, <1>3, <1>4, <1>5, <1>6, <1>8, <1>9, <1>10, <1>11, <1>12, <1>13,
     <1>14, <1>15, <1>16
  DEF Next, GetConn, Proceed

\* The node, its connections and its callers keep their Go types, and a
\* caller has a connection exactly between getConn and releaseConn or
\* shutdown.
THEOREM TypeCorrect == Spec => [](TypeOK /\ HeldOK)
<1>1. Spec => []TypeInv
  BY TypeInit, TypeStep, PTL DEF Spec
<1> QED
  BY <1>1, PTL DEF TypeInv

-----------------------------------------------------------------------------
(* Ownership *)

OwnerInv == SingleOwner /\ OwnedOpen

LEMMA OwnerInit == Init => OwnerInv
BY DEF Init, OwnerInv, SingleOwner, OwnedOpen, Pooled

\* A caller gives its connection up: it is closed and nobody has it.
LEMMA OwnerGiveUp ==
    ASSUME TypeInv, OwnerInv, NEW c \in Clients,
           sock' = [x \in Conns |-> IF x \in {held[c]} THEN "closed" ELSE sock[x]],
           held' = [held EXCEPT ![c] = NoConn],
           pc[c] \in {"send", "recv", "release"},
           pool' = pool
    PROVE  OwnerInv'
<1>1. /\ held[c] \in Conns /\ held[c] # NoConn
      /\ held \in [Clients -> Conns \cup {NoConn}]
      /\ \A i \in 1..Len(pool) : pool[i] \in Conns
  BY ElementOfSeq DEF TypeInv, TypeOK, HeldOK
<1>2. \A d \in Clients : held'[d] = IF d = c THEN NoConn ELSE held[d]
  BY <1>1
<1>3. \A i \in 1..Len(pool) : pool[i] # held[c]
  BY <1>1 DEF OwnerInv, SingleOwner, Pooled
<1>4. SingleOwner'
  BY <1>2 DEF OwnerInv, SingleOwner, Pooled
<1>5. OwnedOpen'
  <2>1. \A i \in 1..Len(pool) : sock'[pool[i]] = "open"
    BY <1>1, <1>3 DEF OwnerInv, OwnedOpen, Pooled
  <2>2. \A d \in Clients : held'[d] # NoConn => sock'[held'[d]] = "open"
    BY <1>1, <1>2 DEF OwnerInv, OwnedOpen, SingleOwner
  <2> QED
    BY <2>1, <2>2 DEF OwnedOpen, Pooled
<1> QED
  BY <1>4, <1>5 DEF OwnerInv

\* Every action preserves ownership.
LEMMA OwnerStep == TypeInv /\ OwnerInv /\ [Next]_vars => OwnerInv'
<1> SUFFICES ASSUME TypeInv, OwnerInv, [Next]_vars PROVE OwnerInv'
  OBVIOUS
<1>0. /\ \A i \in 1..Len(pool) : pool[i] \in Conns
      /\ Len(pool) \in Nat
      /\ held \in [Clients -> Conns \cup {NoConn}]
      /\ sock \in [Conns -> SockStates]
      /\ NoConn \notin Conns
  BY ElementOfSeq, LenProperties, PoolAssumption DEF TypeInv, TypeOK
<1>1. ASSUME UNCHANGED <<pool, held, sock>> PROVE OwnerInv'
  BY <1>1 DEF OwnerInv, SingleOwner, OwnedOpen, Pooled
<1>2. ASSUME NEW c \in Clients, NEW k \in Kinds, GetConnDial(c, k) PROVE OwnerInv'
  <2>1. pool' = <<>> /\ held' = held
    BY <1>2 DEF GetConnDial
  <2>2. \A d \in Clients : held[d] # NoConn => sock'[held[d]] = "open"
    BY <1>2, <1>0 DEF GetConnDial, DropPurged, OwnerInv, OwnedOpen, SingleOwner, Pooled
  <2> QED
    BY <2>1, <2>2 DEF OwnerInv, SingleOwner, OwnedOpen, Pooled
<1>3. ASSUME NEW c \in Clients, NEW k \in Kinds, NEW n \in 1..Len(pool),
             GetConnPooled(c, k, n)
      PROVE  OwnerInv'
  <2>1. /\ Len(pool') = n - 1
        /\ \A i \in 1..(n - 1) : pool'[i] = pool[i]
    BY <1>3, Prefix DEF GetConnPooled, TypeInv, TypeOK
  <2>2. /\ held' = [held EXCEPT ![c] = pool[n]]
        /\ held[c] = NoConn
        /\ sock' = [x \in Conns |->
                      IF \E i \in (n + 1)..Len(pool) : pool[i] = x
                      THEN "dropped" ELSE sock[x]]
    BY <1>3 DEF GetConnPooled, DropPurged, StartCall, TypeInv, HeldOK
  <2>3. \A d \in Clients : held'[d] = IF d = c THEN pool[n] ELSE held[d]
    BY <2>2, <1>0
  <2>4. \A i, j \in 1..Len(pool) : i # j => pool[i] # pool[j]
    BY DEF OwnerInv, SingleOwner
  <2>5. \A d \in Clients, i \in 1..Len(pool) : held[d] # NoConn => held[d] # pool[i]
    BY DEF OwnerInv, SingleOwner, Pooled
  <2>6. \A i \in 1..n : sock'[pool[i]] = "open"
    <3> SUFFICES ASSUME NEW i \in 1..n PROVE sock'[pool[i]] = "open"
      OBVIOUS
    <3>1. i \in 1..Len(pool) /\ pool[i] \in Conns /\ sock[pool[i]] = "open"
      BY <1>0 DEF OwnerInv, OwnedOpen, Pooled
    <3>2. ~ \E j \in (n + 1)..Len(pool) : pool[j] = pool[i]
      BY <3>1, <2>4, <1>0
    <3> QED
      BY <3>1, <3>2, <2>2
  <2>7. \A d \in Clients : held[d] # NoConn => sock'[held[d]] = "open"
    <3> SUFFICES ASSUME NEW d \in Clients, held[d] # NoConn PROVE sock'[held[d]] = "open"
      OBVIOUS
    <3>1. held[d] \in Conns /\ sock[held[d]] = "open"
      BY <1>0 DEF OwnerInv, OwnedOpen
    <3>2. ~ \E j \in (n + 1)..Len(pool) : pool[j] = held[d]
      BY <2>5, <1>0
    <3> QED
      BY <3>1, <3>2, <2>2
  <2>8. n \in 1..Len(pool) /\ \A i \in 1..(n - 1) : i \in 1..Len(pool) /\ i # n
    BY <1>0
  <2>9. OwnedOpen'
    BY <2>1, <2>3, <2>6, <2>7, <2>8, <1>0 DEF OwnedOpen, Pooled
  <2>10. SingleOwner'
    <3>1. \A i, j \in 1..Len(pool') : i # j => pool'[i] # pool'[j]
      BY <2>1, <2>4, <2>8
    <3>2. \A d \in Clients : held'[d] # NoConn => held'[d] \notin Pooled'
      BY <2>1, <2>3, <2>4, <2>5, <2>8 DEF Pooled
    <3>3. \A d, e \in Clients : d # e /\ held'[d] # NoConn => held'[d] # held'[e]
      <4>1. \A d, e \in Clients : d # e /\ held[d] # NoConn => held[d] # held[e]
        BY DEF OwnerInv, SingleOwner
      <4> QED
        BY <4>1, <2>3, <2>5, <2>8, <1>0
    <3> QED
      BY <3>1, <3>2, <3>3 DEF SingleOwner
  <2> QED
    BY <2>9, <2>10 DEF OwnerInv
<1>4. ASSUME NEW c \in Clients, NEW x \in Conns, DialOk(c, x) PROVE OwnerInv'
  <2>1. /\ held' = [held EXCEPT ![c] = x] /\ sock' = [sock EXCEPT ![x] = "open"]
        /\ pool' = pool /\ sock[x] = "closed"
    BY <1>4 DEF DialOk
  <2>2. \A i \in 1..Len(pool) : pool[i] # x
    BY <2>1, <1>0 DEF OwnerInv, OwnedOpen, Pooled
  <2>3. \A d \in Clients : held[d] # x
    BY <2>1, <1>0 DEF OwnerInv, OwnedOpen
  <2> QED
    BY <2>1, <2>2, <2>3, <1>0 DEF OwnerInv, OwnedOpen, SingleOwner, Pooled
<1>5. ASSUME NEW c \in Clients, ShutAndFail(c), pc[c] \in {"send", "recv"} PROVE OwnerInv'
  BY <1>5, OwnerGiveUp DEF ShutAndFail, Shut
<1>6. ASSUME NEW c \in Clients, ReleaseShut(c) PROVE OwnerInv'
  BY <1>6, OwnerGiveUp DEF ReleaseShut, Shut
<1>7. ASSUME NEW c \in Clients, ReleasePooled(c) PROVE OwnerInv'
  <2>1. /\ held[c] \in Conns /\ held[c] # NoConn /\ pool' = <<held[c]>> \o pool
        /\ held' = [held EXCEPT ![c] = NoConn] /\ sock' = sock
    BY <1>7 DEF ReleasePooled, TypeInv, TypeOK, HeldOK
  <2>2. /\ Len(pool') = Len(pool) + 1 /\ pool'[1] = held[c]
        /\ \A i \in 2..(Len(pool) + 1) : pool'[i] = pool[i - 1]
    BY <2>1, PushFront DEF TypeInv, TypeOK
  <2>3. \A d \in Clients : held'[d] = IF d = c THEN NoConn ELSE held[d]
    BY <2>1, <1>0
  <2>4. \A i \in 1..Len(pool') : i # 1 => /\ i - 1 \in 1..Len(pool)
                                          /\ pool'[i] = pool[i - 1]
    BY <2>2, <1>0
  <2>5. \A i \in 1..Len(pool) : pool[i] # held[c]
    BY <2>1 DEF OwnerInv, SingleOwner, Pooled
  <2>6. OwnedOpen'
    BY <2>1, <2>2, <2>3, <2>4 DEF OwnerInv, OwnedOpen, Pooled
  <2>7. \A i, j \in 1..Len(pool') : i # j => pool'[i] # pool'[j]
    <3> SUFFICES ASSUME NEW i \in 1..Len(pool'), NEW j \in 1..Len(pool'), i # j
                 PROVE  pool'[i] # pool'[j]
      OBVIOUS
    <3>1. CASE i = 1
      BY <3>1, <2>2, <2>4, <2>5
    <3>2. CASE j = 1
      BY <3>2, <2>2, <2>4, <2>5
    <3>3. CASE i # 1 /\ j # 1
      <4>1. i - 1 # j - 1
        BY <2>2, <1>0
      <4> QED
        BY <4>1, <3>3, <2>4 DEF OwnerInv, SingleOwner
    <3> QED
      BY <3>1, <3>2, <3>3
  <2>8. \A d \in Clients : held'[d] # NoConn => held'[d] \notin Pooled'
    <3> SUFFICES ASSUME NEW d \in Clients, held'[d] # NoConn, NEW i \in 1..Len(pool')
                 PROVE  pool'[i] # held'[d]
      BY DEF Pooled
    <3>1. d # c /\ held'[d] = held[d]
      BY <2>3
    <3>2. CASE i = 1
      BY <3>1, <3>2, <2>1, <2>2 DEF OwnerInv, SingleOwner
    <3>3. CASE i # 1
      BY <3>1, <3>3, <2>4 DEF OwnerInv, SingleOwner, Pooled
    <3> QED
      BY <3>2, <3>3
  <2>9. \A d, e \in Clients : d # e /\ held'[d] # NoConn => held'[d] # held'[e]
    BY <2>3 DEF OwnerInv, SingleOwner
  <2> QED
    BY <2>6, <2>7, <2>8, <2>9 DEF OwnerInv, SingleOwner
<1>8. ASSUME Shutdown PROVE OwnerInv'
  <2>1. pool' = <<>> /\ held' = held
    BY <1>8 DEF Shutdown, clientVars
  <2>2. \A d \in Clients : held[d] # NoConn => sock'[held[d]] = "open"
    BY <1>8, <1>0 DEF Shutdown, Shut, OwnerInv, OwnedOpen, SingleOwner, Pooled
  <2> QED
    BY <2>1, <2>2 DEF OwnerInv, SingleOwner, OwnedOpen, Pooled
<1>9. ASSUME NEW x \in Conns, Finalize(x) PROVE OwnerInv'
  <2>1. /\ pool' = pool /\ held' = held /\ sock[x] = "dropped"
        /\ sock' = [y \in Conns |-> IF y \in {x} THEN "closed" ELSE sock[y]]
    BY <1>9 DEF Finalize, Shut, clientVars
  <2> QED
    BY <2>1, <1>0 DEF OwnerInv, SingleOwner, OwnedOpen, Pooled
<1>10. ASSUME NEW c \in Clients, NEW k \in Kinds, GetConnClosed(c, k) PROVE OwnerInv'
  BY <1>1, <1>10 DEF GetConnClosed, connVars
<1>11. ASSUME NEW c \in Clients, DialFail(c) \/ SendOk(c) \/ ReceiveOk(c) PROVE OwnerInv'
  BY <1>1, <1>11 DEF DialFail, SendOk, ReceiveOk, connVars
<1>12. ASSUME NEW c \in Clients, SendErr(c) \/ ReceiveErr(c) \/ GuardRejected(c)
       PROVE  OwnerInv'
  BY <1>5, <1>12 DEF SendErr, ReceiveErr, GuardRejected
<1>13. ASSUME \/ Tick \/ UNCHANGED vars \/ \E x \in Conns : ServerReply(x) PROVE OwnerInv'
  BY <1>1, <1>13 DEF Tick, ServerReply, vars, connVars, clientVars
<1> QED
  BY <1>2, <1>3, <1>4, <1>6, <1>7, <1>8, <1>9, <1>10, <1>11, <1>12, <1>13
  DEF Next, GetConn, Proceed

\* A redisConn has one owner: it is never twice in the list, in the list and
\* in use, or in use by two goroutines.
THEOREM OwnerCorrect == Spec => []SingleOwner
<1>1. Spec => []TypeInv
  BY TypeInit, TypeStep, PTL DEF Spec
<1>2. Spec => []OwnerInv
  BY <1>1, OwnerInit, OwnerStep, PTL DEF Spec
<1> QED
  BY <1>2, PTL DEF OwnerInv

-----------------------------------------------------------------------------
(* What the connections carry *)

FlightInv == UnheldQuiet /\ InFlight /\ RepliesMatch

LEMMA FlightInit == Init => FlightInv
BY DEF Init, FlightInv, UnheldQuiet, InFlight, Flight, RepliesMatch

\* A step that leaves a caller and its connection alone.
LEMMA FlightFrame ==
    ASSUME NEW c \in Clients, TypeInv, Flight(c),
           \A i \in 1..Len(got[c]) : got[c][i] = Request(c, call[c], i),
           pc'[c] = pc[c], held'[c] = held[c], kind'[c] = kind[c],
           call'[c] = call[c], got'[c] = got[c],
           held[c] # NoConn => /\ pending'[held[c]] = pending[held[c]]
                               /\ wire'[held[c]] = wire[held[c]]
                               /\ inbox'[held[c]] = inbox[held[c]]
    PROVE  /\ Flight(c)'
           /\ \A i \in 1..Len(got'[c]) : got'[c][i] = Request(c, call'[c], i)
<1>1. pc[c] \in {"send", "recv", "release"} => held[c] # NoConn
  BY DEF TypeInv, HeldOK
<1>2. CASE pc[c] = "recv"
  <2> DEFINE x == held[c]
             n == PipelineLen(kind[c])
  <2>1. /\ Len(got[c]) < n
        /\ pending[x] = n - Len(got[c])
        /\ Len(inbox[x]) + Len(wire[x]) = n - Len(got[c])
        /\ \A i \in 1..Len(inbox[x]) : inbox[x][i] = Request(c, call[c], Len(got[c]) + i)
        /\ \A i \in 1..Len(wire[x]) :
              wire[x][i] = Request(c, call[c], Len(got[c]) + Len(inbox[x]) + i)
    BY <1>2 DEF Flight
  <2>2. /\ held'[c] = x /\ PipelineLen(kind'[c]) = n /\ got'[c] = got[c] /\ call'[c] = call[c]
        /\ pending'[x] = pending[x] /\ wire'[x] = wire[x] /\ inbox'[x] = inbox[x]
    BY <1>1, <1>2
  <2> HIDE DEF x, n
  <2>3. /\ Len(got'[c]) < n
        /\ pending'[x] = n - Len(got'[c])
        /\ Len(inbox'[x]) + Len(wire'[x]) = n - Len(got'[c])
        /\ \A i \in 1..Len(inbox'[x]) : inbox'[x][i] = Request(c, call'[c], Len(got'[c]) + i)
        /\ \A i \in 1..Len(wire'[x]) :
              wire'[x][i] = Request(c, call'[c], Len(got'[c]) + Len(inbox'[x]) + i)
    BY <2>1, <2>2
  <2> QED
    BY <1>2, <2>2, <2>3 DEF Flight
<1>3. CASE pc[c] \in {"send", "release"}
  BY <1>1, <1>3 DEF Flight
<1>4. CASE pc[c] \notin {"send", "recv", "release"}
  BY <1>4 DEF Flight
<1> QED
  BY <1>2, <1>3, <1>4

\* A caller outside a call, or one that dials, carries nothing.
LEMMA FlightIdle ==
    ASSUME NEW c \in Clients, pc'[c] \in {"idle", "dial"}, pc'[c] = "dial" => got'[c] = <<>>
    PROVE  Flight(c)'
BY DEF Flight

\* The invariant from its parts.
LEMMA FlightParts ==
    ASSUME UnheldQuiet',
           \A c \in Clients : /\ Flight(c)'
                              /\ \A i \in 1..Len(got'[c]) : got'[c][i] = Request(c, call'[c], i)
    PROVE  FlightInv'
BY DEF FlightInv, InFlight, RepliesMatch

\* send and flush put the whole pipeline on a silent connection.
LEMMA FlightSend ==
    ASSUME TypeInv, OwnerInv, FlightInv, NEW c \in Clients, SendOk(c)
    PROVE  FlightInv'
<1> DEFINE x == held[c]
           n == PipelineLen(kind[c])
<1>1. /\ x \in Conns /\ x # NoConn /\ n \in Nat \ {0}
      /\ pending[x] = 0 /\ wire[x] = <<>> /\ inbox[x] = <<>> /\ got[c] = <<>>
  BY PipelineLenType DEF SendOk, TypeInv, TypeOK, HeldOK, FlightInv, InFlight, Flight
<1>2. /\ pending' = [pending EXCEPT ![x] = @ + n]
      /\ wire' = [wire EXCEPT ![x] = [i \in 1..n |-> Request(c, call[c], i)]]
      /\ pc' = [pc EXCEPT ![c] = "recv"]
      /\ inbox' = inbox /\ held' = held /\ kind' = kind /\ call' = call /\ got' = got
  BY DEF SendOk
<1>3. ASSUME NEW d \in Clients, d # c
      PROVE  /\ Flight(d)'
             /\ \A i \in 1..Len(got'[d]) : got'[d][i] = Request(d, call'[d], i)
  <2>1. held[d] # x
    BY <1>1, <1>3 DEF OwnerInv, SingleOwner
  <2>2. held[d] # NoConn => held[d] \in Conns
    BY DEF TypeInv, TypeOK
  <2>3. /\ pc'[d] = pc[d]
        /\ held[d] # NoConn => /\ pending'[held[d]] = pending[held[d]]
                               /\ wire'[held[d]] = wire[held[d]]
    BY <1>2, <1>3, <2>1, <2>2 DEF TypeInv, TypeOK
  <2> QED
    BY <1>2, <2>3, FlightFrame DEF FlightInv, InFlight, RepliesMatch
<1>4. Flight(c)' /\ \A i \in 1..Len(got'[c]) : got'[c][i] = Request(c, call'[c], i)
  <2>1. /\ pending'[x] = n /\ pc'[c] = "recv" /\ inbox'[x] = <<>>
        /\ wire'[x] = [i \in 1..n |-> Request(c, call[c], i)]
    BY <1>1, <1>2 DEF TypeInv, TypeOK
  <2>2. Len(wire'[x]) = n /\ \A i \in 1..n : wire'[x][i] = Request(c, call[c], i)
    BY <1>1, <2>1
  <2>3. held'[c] = x /\ PipelineLen(kind'[c]) = n /\ got'[c] = <<>> /\ call'[c] = call[c]
    BY <1>1, <1>2
  <2> HIDE DEF x, n
  <2>4. /\ Len(got'[c]) = 0 /\ Len(inbox'[x]) = 0
        /\ \A i \in 1..n : 0 + 0 + i = i
    BY <1>1, <2>1, <2>3
  <2>5. /\ Len(got'[c]) < n
        /\ pending'[x] = n - Len(got'[c])
        /\ Len(inbox'[x]) + Len(wire'[x]) = n - Len(got'[c])
        /\ \A i \in 1..Len(wire'[x]) :
              wire'[x][i] = Request(c, call'[c], Len(got'[c]) + Len(inbox'[x]) + i)
    BY <1>1, <2>1, <2>2, <2>3, <2>4
  <2>6. /\ \A i \in 1..Len(inbox'[x]) :
              inbox'[x][i] = Request(c, call'[c], Len(got'[c]) + i)
        /\ \A i \in 1..Len(got'[c]) : got'[c][i] = Request(c, call'[c], i)
    BY <2>4
  <2>7. Flight(c)'
    BY <2>1, <2>3, <2>5, <2>6 DEF Flight
  <2> QED
    BY <2>6, <2>7
<1>5. UnheldQuiet'
  BY <1>1, <1>2 DEF FlightInv, UnheldQuiet, TypeInv, TypeOK
<1> QED
  BY <1>3, <1>4, <1>5, FlightParts

\* The server moves the first unanswered command to the end of the replies.
LEMMA FlightReply ==
    ASSUME TypeInv, OwnerInv, FlightInv, NEW x \in Conns, ServerReply(x)
    PROVE  FlightInv'
<1>1. /\ wire[x] # <<>>
      /\ wire' = [wire EXCEPT ![x] = Tail(@)]
      /\ inbox' = [inbox EXCEPT ![x] = Append(@, Head(wire[x]))]
      /\ pending' = pending /\ pc' = pc /\ held' = held /\ kind' = kind /\ call' = call
      /\ got' = got
  BY DEF ServerReply, clientVars
<1>2. /\ wire[x] \in Seq(Requests) /\ inbox[x] \in Seq(Requests)
      /\ wire'[x] = Tail(wire[x]) /\ inbox'[x] = Append(inbox[x], Head(wire[x]))
      /\ \A y \in Conns : y # x => wire'[y] = wire[y] /\ inbox'[y] = inbox[y]
  BY <1>1 DEF TypeInv, TypeOK
<1>3. PICK c \in Clients : held[c] = x
  BY <1>1 DEF FlightInv, UnheldQuiet
<1>4. pc[c] = "recv"
  <2>1. x # NoConn
    BY PoolAssumption
  <2> QED
    BY <1>1, <1>3, <2>1 DEF TypeInv, HeldOK, FlightInv, InFlight, Flight
<1>5. ASSUME NEW d \in Clients, d # c
      PROVE  /\ Flight(d)'
             /\ \A i \in 1..Len(got'[d]) : got'[d][i] = Request(d, call'[d], i)
  <2>1. held[d] # NoConn => held[d] \in Conns /\ held[d] # x
    BY <1>3, <1>5 DEF OwnerInv, SingleOwner, TypeInv, TypeOK
  <2>2. held[d] # NoConn => /\ pending'[held[d]] = pending[held[d]]
                            /\ wire'[held[d]] = wire[held[d]]
                            /\ inbox'[held[d]] = inbox[held[d]]
    BY <1>1, <1>2, <2>1
  <2>3. Flight(d) /\ \A i \in 1..Len(got[d]) : got[d][i] = Request(d, call[d], i)
    BY DEF FlightInv, InFlight, RepliesMatch
  <2>4. /\ pc'[d] = pc[d] /\ held'[d] = held[d] /\ kind'[d] = kind[d]
        /\ call'[d] = call[d] /\ got'[d] = got[d]
    BY <1>1
  <2> QED
    BY <2>2, <2>3, <2>4, FlightFrame
<1>6. Flight(c)' /\ \A i \in 1..Len(got'[c]) : got'[c][i] = Request(c, call'[c], i)
  <2> DEFINE n == PipelineLen(kind[c])
             w == wire[x]
             b == inbox[x]
             g == Len(got[c])
  <2>1. /\ g < n /\ pending[x] = n - g /\ Len(b) + Len(w) = n - g
        /\ \A i \in 1..Len(b) : b[i] = Request(c, call[c], g + i)
        /\ \A i \in 1..Len(w) : w[i] = Request(c, call[c], g + Len(b) + i)
    BY <1>3, <1>4 DEF FlightInv, InFlight, Flight
  <2>2. /\ Len(w) \in Nat \ {0} /\ Len(b) \in Nat /\ g \in Nat /\ n \in Nat
    BY <1>1, <1>2, EmptySeq, LenProperties, PipelineLenType DEF TypeInv, TypeOK
  <2>3. /\ Head(w) = w[1] /\ Head(w) \in Requests
        /\ Len(wire'[x]) = Len(w) - 1
        /\ \A i \in 1..(Len(w) - 1) : wire'[x][i] = w[i + 1]
    <3>1. Head(w) = w[1]
      BY <1>1, <1>2
    <3>2. /\ Head(w) \in Requests /\ Len(Tail(w)) = Len(w) - 1
          /\ \A i \in 1..Len(Tail(w)) : Tail(w)[i] = w[i + 1]
      BY <1>1, <1>2, HeadTailProperties
    <3> QED
      BY <1>2, <3>1, <3>2
  <2>4. /\ Len(inbox'[x]) = Len(b) + 1
        /\ \A i \in 1..Len(b) : inbox'[x][i] = b[i]
        /\ inbox'[x][Len(b) + 1] = w[1]
    BY <1>2, <2>3, AppendProperties
  <2> HIDE DEF n, w, b, g
  <2>5. \A i \in 1..Len(inbox'[x]) : inbox'[x][i] = Request(c, call[c], g + i)
    <3> SUFFICES ASSUME NEW i \in 1..(Len(b) + 1)
                 PROVE  inbox'[x][i] = Request(c, call[c], g + i)
      BY <2>4
    <3>1. CASE i \in 1..Len(b)
      BY <3>1, <2>1, <2>4
    <3>2. CASE i = Len(b) + 1
      <4>1. 1 \in 1..Len(w) /\ g + Len(b) + 1 = g + i
        BY <3>2, <2>2
      <4>2. inbox'[x][i] = w[1]
        BY <3>2, <2>4
      <4> QED
        BY <4>1, <4>2, <2>1
    <3> QED
      BY <3>1, <3>2, <2>2
  <2>6. \A i \in 1..Len(wire'[x]) : wire'[x][i] = Request(c, call[c], g + Len(inbox'[x]) + i)
    <3> SUFFICES ASSUME NEW i \in 1..(Len(w) - 1)
                 PROVE  wire'[x][i] = Request(c, call[c], g + (Len(b) + 1) + i)
      BY <2>3, <2>4
    <3>1. i + 1 \in 1..Len(w) /\ g + Len(b) + (i + 1) = g + (Len(b) + 1) + i
      BY <2>2
    <3> QED
      BY <3>1, <2>1, <2>3
  <2>7. Len(inbox'[x]) + Len(wire'[x]) = n - g
    BY <2>1, <2>2, <2>3, <2>4
  <2>8. /\ held'[c] = x /\ pc'[c] = "recv" /\ pending'[x] = pending[x] /\ call'[c] = call[c]
        /\ PipelineLen(kind'[c]) = n /\ Len(got'[c]) = g
    BY <1>1, <1>3, <1>4 DEF n, g
  <2>9. Flight(c)'
    <3>1. /\ Len(got'[c]) < PipelineLen(kind'[c])
          /\ pending'[x] = PipelineLen(kind'[c]) - Len(got'[c])
          /\ Len(inbox'[x]) + Len(wire'[x]) = PipelineLen(kind'[c]) - Len(got'[c])
      BY <2>1, <2>7, <2>8
    <3>2. /\ \A i \in 1..Len(inbox'[x]) :
                inbox'[x][i] = Request(c, call'[c], Len(got'[c]) + i)
          /\ \A i \in 1..Len(wire'[x]) :
                wire'[x][i] = Request(c, call'[c], Len(got'[c]) + Len(inbox'[x]) + i)
      BY <2>5, <2>6, <2>8
    <3> QED
      BY <2>8, <3>1, <3>2 DEF Flight
  <2> QED
    BY <2>9, <1>1 DEF FlightInv, RepliesMatch
<1>7. UnheldQuiet'
  BY <1>1, <1>2, <1>3 DEF FlightInv, UnheldQuiet
<1> QED
  BY <1>5, <1>6, <1>7, FlightParts

\* receive moves the first reply from the connection to its reader.
LEMMA FlightReceive ==
    ASSUME TypeInv, OwnerInv, FlightInv, NEW c \in Clients, ReceiveOk(c)
    PROVE  FlightInv'
<1> DEFINE x == held[c]
           n == PipelineLen(kind[c])
           w == wire[x]
           b == inbox[x]
           g == Len(got[c])
<1>1. /\ x \in Conns /\ x # NoConn /\ pc[c] = "recv" /\ b # <<>>
      /\ b \in Seq(Requests) /\ w \in Seq(Requests) /\ got[c] \in Seq(Requests)
  BY DEF ReceiveOk, TypeInv, TypeOK, HeldOK
<1>2. /\ pending' = [pending EXCEPT ![x] = @ - 1]
      /\ inbox' = [inbox EXCEPT ![x] = Tail(@)]
      /\ got' = [got EXCEPT ![c] = Append(@, Head(b))]
      /\ pc' = [pc EXCEPT ![c] = IF g + 1 = n THEN "release" ELSE "recv"]
      /\ wire' = wire /\ held' = held /\ kind' = kind /\ call' = call
  BY DEF ReceiveOk
<1>3. /\ g < n /\ pending[x] = n - g /\ Len(b) + Len(w) = n - g
      /\ \A i \in 1..Len(b) : b[i] = Request(c, call[c], g + i)
      /\ \A i \in 1..Len(w) : w[i] = Request(c, call[c], g + Len(b) + i)
      /\ \A i \in 1..g : got[c][i] = Request(c, call[c], i)
  BY <1>1 DEF FlightInv, InFlight, Flight, RepliesMatch
<1>4. Len(b) \in Nat \ {0} /\ Len(w) \in Nat /\ g \in Nat /\ n \in Nat
  BY <1>1, EmptySeq, LenProperties, PipelineLenType DEF TypeInv, TypeOK
<1>5. Head(b) = Request(c, call[c], g + 1)
  <2>1. Head(b) = b[1] /\ 1 \in 1..Len(b)
    BY <1>1, <1>4
  <2> QED
    BY <2>1, <1>3
<1>6. /\ pending'[x] = pending[x] - 1 /\ inbox'[x] = Tail(b) /\ wire'[x] = w
      /\ got'[c] = Append(got[c], Head(b))
      /\ pc'[c] = IF g + 1 = n THEN "release" ELSE "recv"
  BY <1>1, <1>2 DEF TypeInv, TypeOK
<1>7. /\ Len(inbox'[x]) = Len(b) - 1 /\ inbox'[x] \in Seq(Requests)
      /\ \A i \in 1..(Len(b) - 1) : inbox'[x][i] = b[i + 1]
  <2>1. /\ Len(Tail(b)) = Len(b) - 1 /\ Tail(b) \in Seq(Requests)
        /\ \A i \in 1..Len(Tail(b)) : Tail(b)[i] = b[i + 1]
    BY <1>1, HeadTailProperties
  <2> QED
    BY <2>1, <1>6
<1>8. /\ Len(got'[c]) = g + 1
      /\ \A i \in 1..g : got'[c][i] = got[c][i]
      /\ got'[c][g + 1] = Head(b)
  <2>1. Head(b) \in Requests
    BY <1>1, HeadTailProperties
  <2> QED
    BY <2>1, <1>1, <1>6, AppendProperties
<1>9. ASSUME NEW d \in Clients, d # c
      PROVE  /\ Flight(d)'
             /\ \A i \in 1..Len(got'[d]) : got'[d][i] = Request(d, call'[d], i)
  <2>1. held[d] # NoConn => held[d] \in Conns /\ held[d] # x
    BY <1>1, <1>9 DEF OwnerInv, SingleOwner, TypeInv, TypeOK
  <2>2. held[d] # NoConn => /\ pending'[held[d]] = pending[held[d]]
                            /\ wire'[held[d]] = wire[held[d]]
                            /\ inbox'[held[d]] = inbox[held[d]]
    BY <1>2, <2>1 DEF TypeInv, TypeOK
  <2>3. Flight(d) /\ \A i \in 1..Len(got[d]) : got[d][i] = Request(d, call[d], i)
    BY DEF FlightInv, InFlight, RepliesMatch
  <2>4. /\ pc'[d] = pc[d] /\ held'[d] = held[d] /\ kind'[d] = kind[d]
        /\ call'[d] = call[d] /\ got'[d] = got[d]
    BY <1>2, <1>9 DEF TypeInv, TypeOK
  <2> QED
    BY <2>2, <2>3, <2>4, FlightFrame
<1>10. held'[c] = x /\ PipelineLen(kind'[c]) = n /\ call'[c] = call[c]
  BY <1>2
<1> HIDE DEF x, n, w, b, g
<1>11. \A i \in 1..Len(got'[c]) : got'[c][i] = Request(c, call'[c], i)
  <2> SUFFICES ASSUME NEW i \in 1..(g + 1) PROVE got'[c][i] = Request(c, call[c], i)
    BY <1>8, <1>10
  <2>1. CASE i \in 1..g
    BY <2>1, <1>3, <1>8
  <2>2. CASE i = g + 1
    BY <2>2, <1>5, <1>8
  <2> QED
    BY <2>1, <2>2, <1>4
<1>12. Flight(c)'
  <2>1. CASE g + 1 = n
    <3>1. /\ pc'[c] = "release" /\ pending'[x] = 0
          /\ Len(inbox'[x]) = 0 /\ Len(w) = 0
      BY <2>1, <1>3, <1>4, <1>6, <1>7
    <3>2. inbox'[x] = <<>> /\ wire'[x] = <<>>
      BY <3>1, <1>1, <1>6, <1>7, EmptySeq
    <3> QED
      BY <3>1, <3>2, <1>10 DEF Flight
  <2>2. CASE g + 1 # n
    <3>1. /\ pc'[c] = "recv" /\ g + 1 < n /\ pending'[x] = n - (g + 1)
          /\ Len(inbox'[x]) + Len(wire'[x]) = n - (g + 1)
      BY <2>2, <1>3, <1>4, <1>6, <1>7
    <3>2. \A i \in 1..Len(inbox'[x]) : inbox'[x][i] = Request(c, call[c], (g + 1) + i)
      <4> SUFFICES ASSUME NEW i \in 1..(Len(b) - 1)
                   PROVE  inbox'[x][i] = Request(c, call[c], (g + 1) + i)
        BY <1>7
      <4>1. i + 1 \in 1..Len(b) /\ g + (i + 1) = (g + 1) + i
        BY <1>4
      <4> QED
        BY <4>1, <1>3, <1>7
    <3>3. \A i \in 1..Len(wire'[x]) :
             wire'[x][i] = Request(c, call[c], (g + 1) + Len(inbox'[x]) + i)
      <4> SUFFICES ASSUME NEW i \in 1..Len(w)
                   PROVE  w[i] = Request(c, call[c], (g + 1) + (Len(b) - 1) + i)
        BY <1>6, <1>7
      <4>1. g + Len(b) + i = (g + 1) + (Len(b) - 1) + i
        BY <1>4
      <4> QED
        BY <4>1, <1>3
    <3>4. /\ Len(got'[c]) < PipelineLen(kind'[c])
          /\ pending'[x] = PipelineLen(kind'[c]) - Len(got'[c])
          /\ Len(inbox'[x]) + Len(wire'[x]) = PipelineLen(kind'[c]) - Len(got'[c])
      BY <3>1, <1>8, <1>10
    <3>5. /\ \A i \in 1..Len(inbox'[x]) :
                inbox'[x][i] = Request(c, call'[c], Len(got'[c]) + i)
          /\ \A i \in 1..Len(wire'[x]) :
                wire'[x][i] = Request(c, call'[c], Len(got'[c]) + Len(inbox'[x]) + i)
      BY <3>2, <3>3, <1>8, <1>10
    <3> QED
      BY <3>1, <3>4, <3>5, <1>10 DEF Flight
  <2> QED
    BY <2>1, <2>2
<1>13. UnheldQuiet'
  BY <1>1, <1>2 DEF FlightInv, UnheldQuiet, TypeInv, TypeOK, x
<1> QED
  BY <1>9, <1>11, <1>12, <1>13, FlightParts

\* A caller ends its call and leaves a silent connection behind.
LEMMA FlightEnd ==
    ASSUME TypeInv, OwnerInv, FlightInv, NEW c \in Clients,
           held[c] \in Conns,
           held' = [held EXCEPT ![c] = NoConn], pc' = [pc EXCEPT ![c] = "idle"],
           kind' = kind, call' = call, got' = got,
           pending'[held[c]] = 0, wire'[held[c]] = <<>>, inbox'[held[c]] = <<>>,
           \A y \in Conns : y # held[c] => /\ pending'[y] = pending[y]
                                           /\ wire'[y] = wire[y]
                                           /\ inbox'[y] = inbox[y]
    PROVE  FlightInv'
<1>1. \A d \in Clients : /\ held'[d] = IF d = c THEN NoConn ELSE held[d]
                         /\ pc'[d] = IF d = c THEN "idle" ELSE pc[d]
  BY DEF TypeInv, TypeOK
<1>2. ASSUME NEW d \in Clients, d # c
      PROVE  /\ Flight(d)'
             /\ \A i \in 1..Len(got'[d]) : got'[d][i] = Request(d, call'[d], i)
  <2>1. held[d] # NoConn => held[d] \in Conns /\ held[d] # held[c]
    BY <1>2 DEF OwnerInv, SingleOwner, TypeInv, TypeOK
  <2>2. held[d] # NoConn => /\ pending'[held[d]] = pending[held[d]]
                            /\ wire'[held[d]] = wire[held[d]]
                            /\ inbox'[held[d]] = inbox[held[d]]
    BY <2>1
  <2>3. Flight(d) /\ \A i \in 1..Len(got[d]) : got[d][i] = Request(d, call[d], i)
    BY DEF FlightInv, InFlight, RepliesMatch
  <2>4. /\ pc'[d] = pc[d] /\ held'[d] = held[d] /\ kind'[d] = kind[d]
        /\ call'[d] = call[d] /\ got'[d] = got[d]
    BY <1>1, <1>2
  <2> QED
    BY <2>2, <2>3, <2>4, FlightFrame
<1>3. Flight(c)' /\ \A i \in 1..Len(got'[c]) : got'[c][i] = Request(c, call'[c], i)
  <2>1. pc'[c] = "idle"
    BY <1>1
  <2>2. Flight(c)'
    BY <2>1, FlightIdle
  <2> QED
    BY <2>2 DEF FlightInv, RepliesMatch
<1>4. UnheldQuiet'
  <2> SUFFICES ASSUME NEW y \in Conns, \A d \in Clients : held'[d] # y
               PROVE  pending'[y] = 0 /\ wire'[y] = <<>> /\ inbox'[y] = <<>>
    BY DEF UnheldQuiet
  <2>1. CASE y = held[c]
    BY <2>1
  <2>2. CASE y # held[c]
    <3>1. \A d \in Clients : held[d] # y
      BY <2>2, <1>1
    <3> QED
      BY <2>2, <3>1 DEF FlightInv, UnheldQuiet
  <2> QED
    BY <2>1, <2>2
<1> QED
  BY <1>2, <1>3, <1>4, FlightParts

\* A caller that has no connection begins a call, or obtains a connection
\* that nobody had.
LEMMA FlightBegin ==
    ASSUME TypeInv, OwnerInv, FlightInv, NEW c \in Clients,
           NEW h \in Conns \cup {NoConn},
           held[c] = NoConn, h # NoConn => \A d \in Clients : held[d] # h,
           \A d \in Clients : /\ held'[d] = IF d = c THEN h ELSE held[d]
                              /\ d # c => /\ pc'[d] = pc[d] /\ kind'[d] = kind[d]
                                          /\ call'[d] = call[d] /\ got'[d] = got[d],
           pc'[c] \in {"idle", "dial"} \/ (pc'[c] = "send" /\ h # NoConn),
           got'[c] = <<>>,
           pending' = pending, wire' = wire, inbox' = inbox
    PROVE  FlightInv'
<1>1. ASSUME NEW d \in Clients, d # c
      PROVE  /\ Flight(d)'
             /\ \A i \in 1..Len(got'[d]) : got'[d][i] = Request(d, call'[d], i)
  <2>1. Flight(d) /\ \A i \in 1..Len(got[d]) : got[d][i] = Request(d, call[d], i)
    BY DEF FlightInv, InFlight, RepliesMatch
  <2>2. /\ pc'[d] = pc[d] /\ held'[d] = held[d] /\ kind'[d] = kind[d]
        /\ call'[d] = call[d] /\ got'[d] = got[d]
    BY <1>1
  <2> QED
    BY <2>1, <2>2, FlightFrame
<1>2. \A i \in 1..Len(got'[c]) : got'[c][i] = Request(c, call'[c], i)
  OBVIOUS
<1>3. Flight(c)'
  <2>1. CASE pc'[c] \in {"idle", "dial"}
    BY <2>1, FlightIdle
  <2>2. CASE pc'[c] = "send" /\ h # NoConn
    <3>1. pending[h] = 0 /\ wire[h] = <<>> /\ inbox[h] = <<>>
      BY <2>2 DEF FlightInv, UnheldQuiet
    <3> QED
      BY <2>2, <3>1 DEF Flight
  <2> QED
    BY <2>1, <2>2
<1>4. UnheldQuiet'
  <2> SUFFICES ASSUME NEW y \in Conns, \A d \in Clients : held'[d] # y
               PROVE  pending[y] = 0 /\ wire[y] = <<>> /\ inbox[y] = <<>>
    BY DEF UnheldQuiet
  <2>1. \A d \in Clients : held[d] # y
    BY PoolAssumption
  <2> QED
    BY <2>1 DEF FlightInv, UnheldQuiet
<1> QED
  BY <1>1, <1>2, <1>3, <1>4, FlightParts

\* Connections that nobody has are closed.
LEMMA FlightShut ==
    ASSUME TypeInv, FlightInv, NEW X \in SUBSET Conns, Shut(X), UNCHANGED clientVars,
           \A d \in Clients : held[d] \notin X
    PROVE  FlightInv'
<1>1. \A y \in Conns :
         /\ pending'[y] = IF y \in X THEN 0 ELSE pending[y]
         /\ wire'[y] = IF y \in X THEN <<>> ELSE wire[y]
         /\ inbox'[y] = IF y \in X THEN <<>> ELSE inbox[y]
  BY DEF Shut
<1>2. ASSUME NEW d \in Clients
      PROVE  /\ Flight(d)'
             /\ \A i \in 1..Len(got'[d]) : got'[d][i] = Request(d, call'[d], i)
  <2>1. held[d] # NoConn => held[d] \in Conns
    BY DEF TypeInv, TypeOK
  <2>2. held[d] # NoConn => /\ pending'[held[d]] = pending[held[d]]
                            /\ wire'[held[d]] = wire[held[d]]
                            /\ inbox'[held[d]] = inbox[held[d]]
    BY <1>1, <2>1
  <2>3. Flight(d) /\ \A i \in 1..Len(got[d]) : got[d][i] = Request(d, call[d], i)
    BY DEF FlightInv, InFlight, RepliesMatch
  <2>4. /\ pc'[d] = pc[d] /\ held'[d] = held[d] /\ kind'[d] = kind[d]
        /\ call'[d] = call[d] /\ got'[d] = got[d]
    BY DEF clientVars
  <2> QED
    BY <2>2, <2>3, <2>4, FlightFrame
<1>3. UnheldQuiet'
  BY <1>1 DEF FlightInv, UnheldQuiet, clientVars
<1> QED
  BY <1>2, <1>3, FlightParts

\* Every action preserves what the connections carry.
LEMMA FlightStep == TypeInv /\ OwnerInv /\ FlightInv /\ [Next]_vars => FlightInv'
<1> SUFFICES ASSUME TypeInv, OwnerInv, FlightInv, [Next]_vars PROVE FlightInv'
  OBVIOUS
<1>0. /\ \A i \in 1..Len(pool) : pool[i] \in Conns
      /\ \A c \in Clients, i \in 1..Len(pool) : held[c] # pool[i]
      /\ NoConn \notin Conns
  <2>1. \A i \in 1..Len(pool) : pool[i] \in Conns
    BY ElementOfSeq DEF TypeInv, TypeOK
  <2> QED
    BY <2>1, PoolAssumption DEF OwnerInv, SingleOwner, Pooled
<1>1. ASSUME NEW c \in Clients, NEW k \in Kinds, StartCall(c, k)
      PROVE  /\ held[c] = NoConn /\ got'[c] = <<>>
             /\ \A d \in Clients : d # c => /\ kind'[d] = kind[d] /\ call'[d] = call[d]
                                            /\ got'[d] = got[d]
  BY <1>1 DEF StartCall, TypeInv, TypeOK, HeldOK
<1>2. ASSUME NEW c \in Clients, NEW k \in Kinds, GetConnClosed(c, k) PROVE FlightInv'
  <2>1. /\ StartCall(c, k) /\ held' = held /\ pc' = pc /\ pc[c] = "idle"
        /\ pending' = pending /\ wire' = wire /\ inbox' = inbox
    BY <1>2 DEF GetConnClosed, StartCall, connVars
  <2> QED
    BY <1>1, <2>1, FlightBegin
<1>3. ASSUME NEW c \in Clients, NEW k \in Kinds, GetConnDial(c, k) PROVE FlightInv'
  <2>1. /\ StartCall(c, k) /\ held' = held /\ pc' = [pc EXCEPT ![c] = "dial"]
        /\ pending' = pending /\ wire' = wire /\ inbox' = inbox
    BY <1>3 DEF GetConnDial
  <2>2. \A d \in Clients : pc'[d] = IF d = c THEN "dial" ELSE pc[d]
    BY <2>1 DEF TypeInv, TypeOK
  <2> QED
    BY <1>1, <2>1, <2>2, FlightBegin
<1>4. ASSUME NEW c \in Clients, NEW k \in Kinds, NEW n \in 1..Len(pool),
             GetConnPooled(c, k, n)
      PROVE  FlightInv'
  <2>1. /\ StartCall(c, k) /\ held' = [held EXCEPT ![c] = pool[n]]
        /\ pc' = [pc EXCEPT ![c] = "send"]
        /\ pending' = pending /\ wire' = wire /\ inbox' = inbox
    BY <1>4 DEF GetConnPooled
  <2>2. \A d \in Clients : /\ pc'[d] = IF d = c THEN "send" ELSE pc[d]
                           /\ held'[d] = IF d = c THEN pool[n] ELSE held[d]
    BY <2>1 DEF TypeInv, TypeOK
  <2>3. pool[n] \in Conns /\ pool[n] # NoConn /\ \A d \in Clients : held[d] # pool[n]
    BY <1>0
  <2> QED
    BY <1>1, <2>1, <2>2, <2>3, FlightBegin
<1>5. ASSUME NEW c \in Clients, NEW x \in Conns, DialOk(c, x) PROVE FlightInv'
  <2>1. /\ held' = [held EXCEPT ![c] = x] /\ pc' = [pc EXCEPT ![c] = "send"]
        /\ pc[c] = "dial" /\ sock[x] = "closed"
        /\ pending' = pending /\ wire' = wire /\ inbox' = inbox
        /\ kind' = kind /\ call' = call /\ got' = got
    BY <1>5 DEF DialOk
  <2>2. \A d \in Clients : /\ pc'[d] = IF d = c THEN "send" ELSE pc[d]
                           /\ held'[d] = IF d = c THEN x ELSE held[d]
    BY <2>1 DEF TypeInv, TypeOK
  <2>3. x # NoConn /\ \A d \in Clients : held[d] # x
    BY <1>0, <2>1 DEF OwnerInv, OwnedOpen
  <2>4. held[c] = NoConn /\ got[c] = <<>>
    BY <2>1 DEF TypeInv, HeldOK, FlightInv, InFlight, Flight
  <2> QED
    BY <2>1, <2>2, <2>3, <2>4, FlightBegin
<1>6. ASSUME NEW c \in Clients, DialFail(c) PROVE FlightInv'
  <2>1. /\ held' = held /\ pc' = [pc EXCEPT ![c] = "idle"] /\ pc[c] = "dial"
        /\ pending' = pending /\ wire' = wire /\ inbox' = inbox
        /\ kind' = kind /\ call' = call /\ got' = got
    BY <1>6 DEF DialFail, connVars
  <2>2. \A d \in Clients : pc'[d] = IF d = c THEN "idle" ELSE pc[d]
    BY <2>1 DEF TypeInv, TypeOK
  <2>3. ASSUME NEW d \in Clients
        PROVE  /\ Flight(d)'
               /\ \A i \in 1..Len(got'[d]) : got'[d][i] = Request(d, call'[d], i)
    <3>1. Flight(d) /\ \A i \in 1..Len(got[d]) : got[d][i] = Request(d, call[d], i)
      BY DEF FlightInv, InFlight, RepliesMatch
    <3>2. CASE d = c
      <4>1. Flight(d)'
        BY <2>2, <3>2, FlightIdle
      <4> QED
        BY <2>1, <3>1, <4>1
    <3>3. CASE d # c
      BY <2>1, <2>2, <3>1, <3>3, FlightFrame
    <3> QED
      BY <3>2, <3>3
  <2>4. UnheldQuiet'
    BY <2>1 DEF FlightInv, UnheldQuiet
  <2> QED
    BY <2>3, <2>4, FlightParts
<1>7. ASSUME NEW c \in Clients, held[c] \in Conns, Shut({held[c]}),
             held' = [held EXCEPT ![c] = NoConn], pc' = [pc EXCEPT ![c] = "idle"],
             kind' = kind, call' = call, got' = got
      PROVE  FlightInv'
  <2>1. /\ pending'[held[c]] = 0 /\ wire'[held[c]] = <<>> /\ inbox'[held[c]] = <<>>
        /\ \A y \in Conns : y # held[c] => /\ pending'[y] = pending[y]
                                           /\ wire'[y] = wire[y]
                                           /\ inbox'[y] = inbox[y]
    BY <1>7 DEF Shut
  <2> QED
    BY <1>7, <2>1, FlightEnd
<1>8. ASSUME NEW c \in Clients, SendErr(c) \/ ReceiveErr(c) \/ GuardRejected(c)
      PROVE  FlightInv'
  <2>1. ShutAndFail(c) /\ held[c] \in Conns
    BY <1>8 DEF SendErr, ReceiveErr, GuardRejected, TypeInv, TypeOK, HeldOK
  <2> QED
    BY <1>7, <2>1 DEF ShutAndFail
<1>9. ASSUME NEW c \in Clients, ReleaseShut(c) PROVE FlightInv'
  <2>1. held[c] \in Conns
    BY <1>9 DEF ReleaseShut, TypeInv, TypeOK, HeldOK
  <2> QED
    BY <1>7, <1>9, <2>1 DEF ReleaseShut
<1>10. ASSUME NEW c \in Clients, ReleasePooled(c) PROVE FlightInv'
  <2>1. /\ held[c] \in Conns
        /\ held' = [held EXCEPT ![c] = NoConn] /\ pc' = [pc EXCEPT ![c] = "idle"]
        /\ pending' = pending /\ wire' = wire /\ inbox' = inbox
        /\ kind' = kind /\ call' = call /\ got' = got
    BY <1>10 DEF ReleasePooled, TypeInv, TypeOK, HeldOK
  <2>2. pending[held[c]] = 0 /\ wire[held[c]] = <<>> /\ inbox[held[c]] = <<>>
    BY <1>10 DEF ReleasePooled, FlightInv, InFlight, Flight
  <2> QED
    BY <2>1, <2>2, FlightEnd
<1>11. ASSUME Shutdown PROVE FlightInv'
  <2>1. /\ Shut({pool[i] : i \in 1..Len(pool)}) /\ UNCHANGED clientVars
        /\ {pool[i] : i \in 1..Len(pool)} \in SUBSET Conns
        /\ \A d \in Clients : held[d] \notin {pool[i] : i \in 1..Len(pool)}
    BY <1>0, <1>11 DEF Shutdown
  <2> QED
    BY <2>1, FlightShut
<1>12. ASSUME NEW x \in Conns, Finalize(x) PROVE FlightInv'
  <2>1. /\ Shut({x}) /\ UNCHANGED clientVars
        /\ \A d \in Clients : held[d] \notin {x}
    BY <1>0, <1>12 DEF Finalize, OwnerInv, OwnedOpen
  <2> QED
    BY <2>1, FlightShut
<1>13. ASSUME Tick \/ UNCHANGED vars PROVE FlightInv'
  <2>1. UNCHANGED <<pending, wire, inbox, pc, held, kind, call, got>>
    BY <1>13 DEF Tick, vars, connVars, clientVars
  <2>2. ASSUME NEW d \in Clients
        PROVE  /\ Flight(d)'
               /\ \A i \in 1..Len(got'[d]) : got'[d][i] = Request(d, call'[d], i)
    <3>1. Flight(d) /\ \A i \in 1..Len(got[d]) : got[d][i] = Request(d, call[d], i)
      BY DEF FlightInv, InFlight, RepliesMatch
    <3> QED
      BY <2>1, <3>1, FlightFrame
  <2>3. UnheldQuiet'
    BY <2>1 DEF FlightInv, UnheldQuiet
  <2> QED
    BY <2>2, <2>3, FlightParts
<1> QED
  BY <1>2, <1>3, <1>4, <1>5, <1>6, <1>8, <1>9, <1>10, <1>11, <1>12, <1>13,
     FlightSend, FlightReply, FlightReceive
  DEF Next, GetConn, Proceed

\* A caller reads the answers to its own commands, in order, and no other:
\* a late reply never reaches a later command.
THEOREM RepliesCorrect == Spec => []RepliesMatch
<1>1. Spec => []TypeInv
  BY TypeInit, TypeStep, PTL DEF Spec
<1>2. Spec => []OwnerInv
  BY <1>1, OwnerInit, OwnerStep, PTL DEF Spec
<1>3. Spec => []FlightInv
  BY <1>1, <1>2, FlightInit, FlightStep, PTL DEF Spec
<1> QED
  BY <1>3, PTL DEF FlightInv

\* A connection in the list is open, owes no reply and has none under way.
THEOREM QuietCorrect == Spec => []PooledQuiet
<1>1. Spec => []TypeInv
  BY TypeInit, TypeStep, PTL DEF Spec
<1>2. Spec => []OwnerInv
  BY <1>1, OwnerInit, OwnerStep, PTL DEF Spec
<1>3. Spec => []FlightInv
  BY <1>1, <1>2, FlightInit, FlightStep, PTL DEF Spec
<1>4. TypeInv /\ OwnerInv /\ FlightInv => PooledQuiet
  <2> SUFFICES ASSUME TypeInv, OwnerInv, FlightInv, NEW x \in Pooled
               PROVE  sock[x] = "open" /\ pending[x] = 0 /\ wire[x] = <<>> /\ inbox[x] = <<>>
    BY DEF PooledQuiet
  <2>1. x \in Conns
    BY ElementOfSeq DEF Pooled, TypeInv, TypeOK
  <2>2. \A c \in Clients : held[c] # x
    BY <2>1, PoolAssumption DEF OwnerInv, SingleOwner
  <2> QED
    BY <2>1, <2>2 DEF OwnerInv, OwnedOpen, FlightInv, UnheldQuiet
<1> QED
  BY <1>1, <1>2, <1>3, <1>4, PTL

-----------------------------------------------------------------------------
(* Results *)

CallInv == CallFresh /\ EconnUnsent

LEMMA CallInit == Init => CallInv
BY DEF Init, CallInv, CallFresh, EconnUnsent

\* A step of one caller, which alone changes pc, touched and result.
LEMMA CallOne ==
    ASSUME CallInv, NEW c \in Clients,
           \A d \in Clients : d # c => /\ pc'[d] = pc[d] /\ touched'[d] = touched[d]
                                       /\ result'[d] = result[d],
           pc'[c] \in {"dial", "send"} => ~touched'[c],
           pc'[c] # "idle" => result'[c] = "none",
           result'[c] = "econn" => ~touched'[c]
    PROVE  CallInv'
BY DEF CallInv, CallFresh, EconnUnsent

\* Every action preserves what a call has written and returned.
LEMMA CallStep == TypeInv /\ CallInv /\ [Next]_vars => CallInv'
<1> SUFFICES ASSUME TypeInv, CallInv, [Next]_vars PROVE CallInv'
  OBVIOUS
<1>0. /\ pc \in [Clients -> PcStates] /\ touched \in [Clients -> BOOLEAN]
      /\ result \in [Clients -> Results]
  BY DEF TypeInv, TypeOK
<1>1. ASSUME UNCHANGED <<pc, touched, result>> PROVE CallInv'
  BY <1>1 DEF CallInv, CallFresh, EconnUnsent
<1>2. ASSUME NEW c \in Clients, NEW k \in Kinds, GetConnClosed(c, k) PROVE CallInv'
  <2>1. pc' = pc /\ pc[c] = "idle" /\ touched' = [touched EXCEPT ![c] = FALSE]
        /\ result' = [result EXCEPT ![c] = NoConnResult(k)]
    BY <1>2 DEF GetConnClosed, StartCall
  <2> QED
    BY <1>0, <2>1, CallOne
<1>3. ASSUME NEW c \in Clients, NEW k \in Kinds,
             GetConnDial(c, k) \/ \E n \in 1..Len(pool) : GetConnPooled(c, k, n)
      PROVE  CallInv'
  <2>1. /\ touched' = [touched EXCEPT ![c] = FALSE]
        /\ result' = [result EXCEPT ![c] = "none"]
        /\ pc' = [pc EXCEPT ![c] = "dial"] \/ pc' = [pc EXCEPT ![c] = "send"]
    BY <1>3 DEF GetConnDial, GetConnPooled, StartCall
  <2> QED
    BY <1>0, <2>1, CallOne
<1>4. ASSUME NEW c \in Clients, NEW x \in Conns, DialOk(c, x) PROVE CallInv'
  <2>1. /\ pc[c] = "dial" /\ pc' = [pc EXCEPT ![c] = "send"]
        /\ touched' = touched /\ result' = result
    BY <1>4 DEF DialOk
  <2> QED
    BY <1>0, <2>1, CallOne DEF CallInv, CallFresh
<1>5. ASSUME NEW c \in Clients, DialFail(c) PROVE CallInv'
  <2>1. /\ pc[c] = "dial" /\ pc' = [pc EXCEPT ![c] = "idle"] /\ touched' = touched
        /\ result' = [result EXCEPT ![c] = NoConnResult(kind[c])]
    BY <1>5 DEF DialFail
  <2> QED
    BY <1>0, <2>1, CallOne DEF CallInv, CallFresh
<1>6. ASSUME NEW c \in Clients, SendOk(c) PROVE CallInv'
  <2>1. /\ pc[c] = "send" /\ pc' = [pc EXCEPT ![c] = "recv"] /\ result' = result
        /\ touched' = [touched EXCEPT ![c] = TRUE]
    BY <1>6 DEF SendOk
  <2> QED
    BY <1>0, <2>1, CallOne DEF CallInv, CallFresh
<1>7. ASSUME NEW c \in Clients, SendErr(c) \/ ReceiveErr(c) \/ GuardRejected(c)
      PROVE  CallInv'
  <2>1. /\ pc' = [pc EXCEPT ![c] = "idle"] /\ result' = [result EXCEPT ![c] = "err"]
        /\ touched' = touched \/ touched' = [touched EXCEPT ![c] = TRUE]
    BY <1>7 DEF SendErr, ReceiveErr, GuardRejected, ShutAndFail
  <2> QED
    BY <1>0, <2>1, CallOne
<1>8. ASSUME NEW c \in Clients, ReceiveOk(c) PROVE CallInv'
  <2>1. /\ pc[c] = "recv" /\ touched' = touched /\ result' = result
        /\ pc' = [pc EXCEPT ![c] = "release"] \/ pc' = [pc EXCEPT ![c] = "recv"]
    BY <1>8 DEF ReceiveOk
  <2> QED
    BY <1>0, <2>1, CallOne DEF CallInv, CallFresh
<1>9. ASSUME NEW c \in Clients, ReleaseShut(c) \/ ReleasePooled(c) PROVE CallInv'
  <2>1. /\ pc' = [pc EXCEPT ![c] = "idle"] /\ result' = [result EXCEPT ![c] = "ok"]
        /\ touched' = touched
    BY <1>9 DEF ReleaseShut, ReleasePooled
  <2> QED
    BY <1>0, <2>1, CallOne
<1>10. ASSUME \/ Shutdown \/ Tick \/ UNCHANGED vars
              \/ \E x \in Conns : ServerReply(x) \/ Finalize(x)
       PROVE  CallInv'
  BY <1>1, <1>10 DEF Shutdown, Tick, ServerReply, Finalize, vars, clientVars
<1> QED
  BY <1>2, <1>3, <1>4, <1>5, <1>6, <1>7, <1>8, <1>9, <1>10 DEF Next, GetConn, Proceed

\* An ECONNTIMEOUT answer means that the call wrote to no socket, so
\* handleConnTimeout may send the command to another node.
THEOREM EconnCorrect == Spec => []EconnUnsent
<1>1. Spec => []TypeInv
  BY TypeInit, TypeStep, PTL DEF Spec
<1>2. Spec => []CallInv
  BY <1>1, CallInit, CallStep, PTL DEF Spec
<1> QED
  BY <1>2, PTL DEF CallInv

-----------------------------------------------------------------------------
(* Shutdown *)

LEMMA DrainStep == TypeInv /\ ClosedDrained /\ [Next]_vars => ClosedDrained'
<1> SUFFICES ASSUME TypeInv, ClosedDrained, [Next]_vars PROVE ClosedDrained'
  OBVIOUS
<1>1. ASSUME UNCHANGED <<pool, closed>> PROVE ClosedDrained'
  BY <1>1 DEF ClosedDrained
<1>2. ASSUME NEW c \in Clients, NEW k \in Kinds,
             GetConnDial(c, k) \/ \E n \in 1..Len(pool) : GetConnPooled(c, k, n)
      PROVE  ClosedDrained'
  BY <1>2 DEF GetConnDial, GetConnPooled, ClosedDrained
<1>3. ASSUME NEW c \in Clients, ReleasePooled(c) PROVE ClosedDrained'
  BY <1>3 DEF ReleasePooled, ClosedDrained
<1>4. ASSUME Shutdown PROVE ClosedDrained'
  BY <1>4 DEF Shutdown, ClosedDrained
<1>5. ASSUME NEW c \in Clients, NEW k \in Kinds, GetConnClosed(c, k) PROVE ClosedDrained'
  BY <1>1, <1>5 DEF GetConnClosed
<1>6. ASSUME NEW c \in Clients,
             \/ \E x \in Conns : DialOk(c, x)
             \/ DialFail(c) \/ SendOk(c) \/ SendErr(c) \/ ReceiveOk(c) \/ ReceiveErr(c)
             \/ GuardRejected(c) \/ ReleaseShut(c)
      PROVE  ClosedDrained'
  BY <1>1, <1>6 DEF DialOk, DialFail, SendOk, SendErr, ReceiveOk, ReceiveErr,
                    GuardRejected, ReleaseShut, ShutAndFail
<1>7. ASSUME Tick \/ UNCHANGED vars \/ \E x \in Conns : ServerReply(x) \/ Finalize(x)
      PROVE  ClosedDrained'
  BY <1>1, <1>7 DEF Tick, ServerReply, Finalize, vars
<1> QED
  BY <1>2, <1>3, <1>4, <1>5, <1>6, <1>7 DEF Next, GetConn, Proceed

\* A node that has been shut down never keeps an idle connection again.
THEOREM DrainCorrect == Spec => []ClosedDrained
<1>1. Spec => []TypeInv
  BY TypeInit, TypeStep, PTL DEF Spec
<1>2. Init => ClosedDrained
  BY DEF Init, ClosedDrained
<1> QED
  BY <1>1, <1>2, DrainStep, PTL DEF Spec
-----------------------------------------------------------------------------
(* Sockets *)

\* A caller gives its connection up: the socket it was using is closed.
LEMMA SocketsGiveUp ==
    ASSUME TypeInv, SocketsOwned, NEW c \in Clients,
           sock' = [x \in Conns |-> IF x \in {held[c]} THEN "closed" ELSE sock[x]],
           held' = [held EXCEPT ![c] = NoConn],
           pool' = pool
    PROVE  SocketsOwned'
<1> SUFFICES ASSUME NEW x \in Conns, sock'[x] = "open"
             PROVE  x \in Pooled' \/ \E d \in Clients : held'[d] = x
  BY DEF SocketsOwned
<1>1. x # held[c] /\ sock[x] = "open"
  OBVIOUS
<1>2. held \in [Clients -> Conns \cup {NoConn}]
  BY DEF TypeInv, TypeOK
<1>3. CASE x \in Pooled
  BY <1>3 DEF Pooled
<1>4. ASSUME NEW d \in Clients, held[d] = x PROVE \E e \in Clients : held'[e] = x
  BY <1>1, <1>2, <1>4
<1> QED
  BY <1>1, <1>3, <1>4 DEF SocketsOwned

\* Every action closes, pools, hands over or drops the sockets it touches.
LEMMA SocketsStep == TypeInv /\ SocketsOwned /\ [Next]_vars => SocketsOwned'
<1> SUFFICES ASSUME TypeInv, SocketsOwned, [Next]_vars PROVE SocketsOwned'
  OBVIOUS
<1>0. /\ Len(pool) \in Nat
      /\ held \in [Clients -> Conns \cup {NoConn}]
      /\ sock \in [Conns -> SockStates]
      /\ NoConn \notin Conns
  BY LenProperties, PoolAssumption DEF TypeInv, TypeOK
<1>1. ASSUME UNCHANGED <<pool, held, sock>> PROVE SocketsOwned'
  BY <1>1 DEF SocketsOwned, Pooled
<1>2. ASSUME NEW c \in Clients, NEW k \in Kinds, GetConnDial(c, k) PROVE SocketsOwned'
  <2>1. /\ held' = held
        /\ \A x \in Conns : sock'[x] = "open" => sock[x] = "open" /\ x \notin Pooled
    BY <1>2, <1>0 DEF GetConnDial, DropPurged, Pooled
  <2> QED
    BY <2>1 DEF SocketsOwned
<1>3. ASSUME NEW c \in Clients, NEW k \in Kinds, NEW n \in 1..Len(pool),
             GetConnPooled(c, k, n)
      PROVE  SocketsOwned'
  <2>1. /\ Len(pool') = n - 1
        /\ \A i \in 1..(n - 1) : pool'[i] = pool[i]
    BY <1>3, Prefix DEF GetConnPooled, TypeInv, TypeOK
  <2>2. /\ \A d \in Clients : held'[d] = IF d = c THEN pool[n] ELSE held[d]
        /\ held[c] = NoConn
    BY <1>3, <1>0 DEF GetConnPooled, StartCall, TypeInv, HeldOK
  <2>3. \A x \in Conns : sock'[x] = "open" =>
            sock[x] = "open" /\ \A i \in (n + 1)..Len(pool) : pool[i] # x
    BY <1>3 DEF GetConnPooled, DropPurged
  <2> SUFFICES ASSUME NEW x \in Conns, sock'[x] = "open"
               PROVE  x \in Pooled' \/ \E d \in Clients : held'[d] = x
    BY DEF SocketsOwned
  <2>4. ASSUME NEW i \in 1..Len(pool), pool[i] = x
        PROVE  x \in Pooled' \/ \E d \in Clients : held'[d] = x
    <3>1. i <= n
      BY <2>3, <2>4, <1>0
    <3>2. CASE i = n
      BY <3>2, <2>2, <2>4
    <3>3. CASE i # n
      <4>1. i \in 1..(n - 1)
        BY <3>1, <3>3, <1>0
      <4> QED
        BY <4>1, <2>1, <2>4 DEF Pooled
    <3> QED
      BY <3>2, <3>3
  <2>5. ASSUME NEW d \in Clients, held[d] = x PROVE \E e \in Clients : held'[e] = x
    BY <2>2, <2>5, <1>0
  <2> QED
    BY <2>3, <2>4, <2>5 DEF SocketsOwned, Pooled
<1>4. ASSUME NEW c \in Clients, NEW x \in Conns, DialOk(c, x) PROVE SocketsOwned'
  <2>1. /\ held' = [held EXCEPT ![c] = x] /\ sock' = [sock EXCEPT ![x] = "open"]
        /\ pool' = pool /\ held[c] = NoConn
    BY <1>4 DEF DialOk, TypeInv, HeldOK
  <2> QED
    BY <2>1, <1>0 DEF SocketsOwned, Pooled
<1>5. ASSUME NEW c \in Clients, ShutAndFail(c) PROVE SocketsOwned'
  BY <1>5, SocketsGiveUp DEF ShutAndFail, Shut
<1>6. ASSUME NEW c \in Clients, ReleaseShut(c) PROVE SocketsOwned'
  BY <1>6, SocketsGiveUp DEF ReleaseShut, Shut
<1>7. ASSUME NEW c \in Clients, ReleasePooled(c) PROVE SocketsOwned'
  <2>1. /\ held[c] \in Conns /\ pool' = <<held[c]>> \o pool
        /\ held' = [held EXCEPT ![c] = NoConn] /\ sock' = sock
    BY <1>7, <1>0 DEF ReleasePooled, TypeInv, HeldOK
  <2>2. /\ Len(pool') = Len(pool) + 1 /\ pool'[1] = held[c]
        /\ \A i \in 2..(Len(pool) + 1) : pool'[i] = pool[i - 1]
    BY <2>1, PushFront DEF TypeInv, TypeOK
  <2>3. ASSUME NEW i \in 1..Len(pool) PROVE pool[i] \in Pooled'
    <3>1. i + 1 \in 2..(Len(pool) + 1) /\ i + 1 \in 1..Len(pool') /\ (i + 1) - 1 = i
      BY <2>2, <1>0
    <3> QED
      BY <3>1, <2>2 DEF Pooled
  <2>4. held[c] \in Pooled'
    BY <2>2, <1>0 DEF Pooled
  <2>5. \A d \in Clients : d # c => held'[d] = held[d]
    BY <2>1, <1>0
  <2> QED
    BY <2>1, <2>3, <2>4, <2>5 DEF SocketsOwned, Pooled
<1>8. ASSUME Shutdown PROVE SocketsOwned'
  <2>1. /\ held' = held
        /\ \A x \in Conns : sock'[x] = "open" => sock[x] = "open" /\ x \notin Pooled
    BY <1>8, <1>0 DEF Shutdown, Shut, Pooled, clientVars
  <2> QED
    BY <2>1 DEF SocketsOwned
<1>9. ASSUME NEW x \in Conns, Finalize(x) PROVE SocketsOwned'
  BY <1>9, <1>0 DEF Finalize, Shut, clientVars, SocketsOwned, Pooled
<1>10. ASSUME NEW c \in Clients, NEW k \in Kinds, GetConnClosed(c, k) PROVE SocketsOwned'
  BY <1>1, <1>10 DEF GetConnClosed, connVars
<1>11. ASSUME NEW c \in Clients, DialFail(c) \/ SendOk(c) \/ ReceiveOk(c) PROVE SocketsOwned'
  BY <1>1, <1>11 DEF DialFail, SendOk, ReceiveOk, connVars
<1>12. ASSUME NEW c \in Clients, SendErr(c) \/ ReceiveErr(c) \/ GuardRejected(c)
       PROVE  SocketsOwned'
  BY <1>5, <1>12 DEF SendErr, ReceiveErr, GuardRejected
<1>13. ASSUME \/ Tick \/ UNCHANGED vars \/ \E x \in Conns : ServerReply(x)
       PROVE  SocketsOwned'
  BY <1>1, <1>13 DEF Tick, ServerReply, vars, connVars, clientVars
<1> QED
  BY <1>2, <1>3, <1>4, <1>6, <1>7, <1>8, <1>9, <1>10, <1>11, <1>12, <1>13
  DEF Next, GetConn, Proceed

\* No path of a call, of the expiry loop or of shutdown forgets a socket: an
\* open one is in the list or in the hands of a goroutine.
THEOREM SocketsCorrect == Spec => []SocketsOwned
<1>1. Spec => []TypeInv
  BY TypeInit, TypeStep, PTL DEF Spec
<1>2. Init => SocketsOwned
  BY DEF Init, SocketsOwned
<1> QED
  BY <1>1, <1>2, SocketsStep, PTL DEF Spec
-----------------------------------------------------------------------------
(* Expiry *)

\* A step that leaves the list and the release times in it alone.
LEMMA OrderFrame ==
    ASSUME TypeInv, PoolOrdered, pool' = pool, now' \in Nat, now' >= now,
           \A i \in 1..Len(pool) : stamp'[pool[i]] = stamp[pool[i]]
    PROVE  PoolOrdered'
<1>1. /\ now \in Nat /\ stamp \in [Conns -> Nat] /\ Len(pool) \in Nat
      /\ \A i \in 1..Len(pool) : pool[i] \in Conns
  BY ElementOfSeq, LenProperties DEF TypeInv, TypeOK
<1>2. \A i \in 1..Len(pool) : stamp[pool[i]] \in Nat /\ stamp[pool[i]] <= now
  BY <1>1 DEF PoolOrdered
<1>3. \A i \in 1..Len(pool) : stamp'[pool[i]] <= now'
  BY <1>1, <1>2
<1> QED
  BY <1>3 DEF PoolOrdered

\* An empty list is ordered.
LEMMA OrderEmpty == ASSUME pool' = <<>> PROVE PoolOrdered'
BY DEF PoolOrdered

\* A caller's connection is not in the list: closing it changes no order.
LEMMA OrderGiveUp ==
    ASSUME TypeInv, OwnerInv, PoolOrdered, NEW c \in Clients,
           pc[c] \in {"send", "recv", "release"},
           stamp' = [x \in Conns |-> IF x \in {held[c]} THEN 0 ELSE stamp[x]],
           pool' = pool, now' = now
    PROVE  PoolOrdered'
<1>1. held[c] # NoConn
  BY DEF TypeInv, HeldOK
<1>2. /\ \A i \in 1..Len(pool) : pool[i] \in Conns
      /\ \A i \in 1..Len(pool) : pool[i] # held[c]
  <2>1. \A i \in 1..Len(pool) : pool[i] \in Conns
    BY ElementOfSeq DEF TypeInv, TypeOK
  <2>2. \A i \in 1..Len(pool) : pool[i] # held[c]
    BY <1>1 DEF OwnerInv, SingleOwner, Pooled
  <2> QED
    BY <2>1, <2>2
<1>3. now \in Nat
  BY DEF TypeInv, TypeOK
<1> QED
  BY <1>2, <1>3, OrderFrame

\* Every action keeps the list ordered: releaseConn adds at the Front, with
\* the present time, and getConn takes from the Back.
LEMMA OrderStep == TypeInv /\ OwnerInv /\ PoolOrdered /\ [Next]_vars => PoolOrdered'
<1> SUFFICES ASSUME TypeInv, OwnerInv, PoolOrdered, [Next]_vars PROVE PoolOrdered'
  OBVIOUS
<1>0. /\ \A i \in 1..Len(pool) : pool[i] \in Conns /\ stamp[pool[i]] \in Nat
      /\ Len(pool) \in Nat
      /\ stamp \in [Conns -> Nat]
      /\ now \in Nat
      /\ NoConn \notin Conns
  BY ElementOfSeq, LenProperties, PoolAssumption DEF TypeInv, TypeOK
<1>1. ASSUME UNCHANGED <<pool, stamp, now>> PROVE PoolOrdered'
  BY <1>1 DEF PoolOrdered
<1>2. ASSUME NEW c \in Clients, NEW k \in Kinds, GetConnDial(c, k) PROVE PoolOrdered'
  BY <1>2, OrderEmpty DEF GetConnDial
<1>3. ASSUME NEW c \in Clients, NEW k \in Kinds, NEW n \in 1..Len(pool),
             GetConnPooled(c, k, n)
      PROVE  PoolOrdered'
  <2>1. /\ Len(pool') = n - 1
        /\ \A i \in 1..(n - 1) : pool'[i] = pool[i]
    BY <1>3, Prefix DEF GetConnPooled, TypeInv, TypeOK
  <2>2. stamp' = stamp /\ now' = now
    BY <1>3 DEF GetConnPooled
  <2>3. pool # <<>>
    BY <1>0
  <2>4. \A i \in 1..(n - 1) : i \in 1..Len(pool)
    BY <1>0
  <2> QED
    BY <2>1, <2>2, <2>3, <2>4 DEF PoolOrdered
<1>4. ASSUME NEW c \in Clients, ReleasePooled(c) PROVE PoolOrdered'
  <2>1. /\ held[c] \in Conns /\ held[c] # NoConn /\ pool' = <<held[c]>> \o pool
        /\ stamp' = [stamp EXCEPT ![held[c]] = now] /\ now' = now /\ AliveTime > 0
    BY <1>4 DEF ReleasePooled, Pooling, TypeInv, TypeOK, HeldOK
  <2>2. /\ Len(pool') = Len(pool) + 1 /\ pool'[1] = held[c]
        /\ \A i \in 2..(Len(pool) + 1) : pool'[i] = pool[i - 1]
    BY <2>1, PushFront DEF TypeInv, TypeOK
  <2>3. \A i \in 1..Len(pool) : pool[i] # held[c]
    BY <2>1 DEF OwnerInv, SingleOwner, Pooled
  <2>4. \A i \in 1..Len(pool') : i # 1 =>
            /\ i - 1 \in 1..Len(pool)
            /\ stamp'[pool'[i]] = stamp[pool[i - 1]]
    <3>1. TAKE i \in 1..Len(pool')
    <3>2. HAVE i # 1
    <3>3. Len(pool) \in Nat /\ i \in Int /\ 1 <= i /\ i <= Len(pool')
      BY <1>0
    <3>4. i - 1 \in 1..Len(pool) /\ i \in 2..(Len(pool) + 1)
      BY <3>2, <3>3, <2>2
    <3>5. pool'[i] = pool[i - 1] /\ pool[i - 1] # held[c]
      BY <3>4, <2>2, <2>3
    <3>6. stamp'[pool[i - 1]] = stamp[pool[i - 1]]
      BY <3>4, <3>5, <2>1, <1>0
    <3> QED
      BY <3>4, <3>5, <3>6
  <2>5. stamp'[pool'[1]] = now
    BY <2>1, <2>2, <1>0
  <2>6. \A i \in 1..Len(pool') : stamp'[pool'[i]] <= now
    <3>1. TAKE i \in 1..Len(pool')
    <3>2. CASE i = 1
      BY <3>2, <2>5, <1>0
    <3>3. CASE i # 1
      <4>1. i - 1 \in 1..Len(pool) /\ stamp'[pool'[i]] = stamp[pool[i - 1]]
        BY <3>3, <2>4
      <4>2. stamp[pool[i - 1]] <= now
        BY <4>1 DEF PoolOrdered
      <4> QED
        BY <4>1, <4>2
    <3> QED
      BY <3>2, <3>3
  <2>7. ASSUME NEW i \in 1..Len(pool'), NEW j \in 1..Len(pool'), i <= j
        PROVE  stamp'[pool'[i]] >= stamp'[pool'[j]]
    <3>1. CASE i = 1
      <4>1. stamp'[pool'[j]] \in Nat /\ stamp'[pool'[j]] <= now
        BY <2>4, <2>5, <2>6, <1>0
      <4> QED
        BY <3>1, <4>1, <2>5, <1>0
    <3>2. CASE i # 1
      <4>1. j # 1 /\ i - 1 <= j - 1
        BY <3>2, <2>7, <2>2, <1>0
      <4> QED
        BY <3>2, <4>1, <2>4 DEF PoolOrdered
    <3> QED
      BY <3>1, <3>2
  <2> QED
    BY <2>1, <2>6, <2>7 DEF PoolOrdered
<1>5. ASSUME NEW c \in Clients, ShutAndFail(c), pc[c] \in {"send", "recv"} PROVE PoolOrdered'
  BY <1>5, OrderGiveUp DEF ShutAndFail, Shut
<1>6. ASSUME NEW c \in Clients, ReleaseShut(c) PROVE PoolOrdered'
  BY <1>6, OrderGiveUp DEF ReleaseShut, Shut
<1>7. ASSUME Shutdown PROVE PoolOrdered'
  BY <1>7, OrderEmpty DEF Shutdown
<1>8. ASSUME NEW x \in Conns, Finalize(x) PROVE PoolOrdered'
  <2>1. /\ pool' = pool /\ now' = now /\ sock[x] = "dropped"
        /\ stamp' = [y \in Conns |-> IF y \in {x} THEN 0 ELSE stamp[y]]
    BY <1>8 DEF Finalize, Shut
  <2>2. \A i \in 1..Len(pool) : pool[i] # x
    BY <2>1 DEF OwnerInv, OwnedOpen, Pooled
  <2> QED
    BY <2>1, <2>2, <1>0, OrderFrame
<1>9. ASSUME NEW c \in Clients, NEW k \in Kinds, GetConnClosed(c, k) PROVE PoolOrdered'
  BY <1>1, <1>9 DEF GetConnClosed, connVars
<1>10. ASSUME NEW c \in Clients,
              \/ \E x \in Conns : DialOk(c, x)
              \/ DialFail(c) \/ SendOk(c) \/ ReceiveOk(c)
       PROVE  PoolOrdered'
  BY <1>1, <1>10 DEF DialOk, DialFail, SendOk, ReceiveOk, connVars
<1>11. ASSUME NEW c \in Clients, SendErr(c) \/ ReceiveErr(c) \/ GuardRejected(c)
       PROVE  PoolOrdered'
  BY <1>5, <1>11 DEF SendErr, ReceiveErr, GuardRejected
<1>12. ASSUME Tick PROVE PoolOrdered'
  BY <1>12, <1>0, OrderFrame DEF Tick, connVars
<1>13. ASSUME UNCHANGED vars \/ \E x \in Conns : ServerReply(x) PROVE PoolOrdered'
  BY <1>1, <1>13 DEF ServerReply, vars, connVars
<1> QED
  BY <1>2, <1>3, <1>4, <1>6, <1>7, <1>8, <1>9, <1>10, <1>11, <1>12, <1>13
  DEF Next, GetConn, Proceed

\* In an ordered list the expiry loop, which stops at the first fresh
\* connection, leaves only fresh ones.
LEMMA FreshStep == TypeInv /\ PoolOrdered /\ [Next]_vars => GetConnFresh \/ UNCHANGED vars
<1> SUFFICES ASSUME TypeInv, PoolOrdered, Next, NEW c \in Clients,
                    pc[c] = "idle", pc'[c] \in {"send", "dial"}
             PROVE  /\ held'[c] # NoConn => Fresh(held'[c])
                    /\ \A i \in 1..Len(pool') : Fresh(pool'[i])
  BY DEF GetConnFresh
<1>0. /\ \A i \in 1..Len(pool) : pool[i] \in Conns /\ stamp[pool[i]] \in Nat
      /\ Len(pool) \in Nat /\ now \in Nat /\ AliveTime \in Int
      /\ pc \in [Clients -> PcStates] /\ held \in [Clients -> Conns \cup {NoConn}]
      /\ held[c] = NoConn
  BY ElementOfSeq, LenProperties, PoolAssumption DEF TypeInv, TypeOK, HeldOK
<1>1. \/ \E k \in Kinds : GetConnDial(c, k)
      \/ \E k \in Kinds : \E n \in 1..Len(pool) : GetConnPooled(c, k, n)
  <2>1. ASSUME NEW d \in Clients, Proceed(d) PROVE FALSE
    <3>1. pc[d] # "idle" /\ \E p : pc' = [pc EXCEPT ![d] = p]
      BY <2>1 DEF Proceed, DialOk, DialFail, SendOk, SendErr, ReceiveOk, ReceiveErr,
                  GuardRejected, ShutAndFail, ReleaseShut, ReleasePooled
    <3> QED
      BY <3>1, <1>0
  <2>2. ASSUME NEW d \in Clients, NEW k \in Kinds,
               \/ GetConnClosed(d, k)
               \/ d # c /\ GetConnDial(d, k)
               \/ d # c /\ \E n \in 1..Len(pool) : GetConnPooled(d, k, n)
        PROVE  FALSE
    BY <2>2, <1>0 DEF GetConnClosed, GetConnDial, GetConnPooled
  <2>3. ASSUME \/ Shutdown \/ Tick \/ \E x \in Conns : ServerReply(x) \/ Finalize(x)
        PROVE  FALSE
    BY <2>3 DEF Shutdown, Tick, ServerReply, Finalize, clientVars
  <2> QED
    BY <2>1, <2>2, <2>3 DEF Next, GetConn
<1>2. ASSUME NEW k \in Kinds, GetConnDial(c, k)
      PROVE  held'[c] = NoConn /\ pool' = <<>>
  BY <1>2, <1>0 DEF GetConnDial
<1>3. ASSUME NEW k \in Kinds, NEW n \in 1..Len(pool), GetConnPooled(c, k, n)
      PROVE  Fresh(held'[c]) /\ \A i \in 1..Len(pool') : Fresh(pool'[i])
  <2>1. /\ Len(pool') = n - 1
        /\ \A i \in 1..(n - 1) : pool'[i] = pool[i]
    BY <1>3, Prefix DEF GetConnPooled, TypeInv, TypeOK
  <2>2. pool # <<>> /\ AliveTime > 0
    BY <1>0 DEF PoolOrdered
  <2>3. held'[c] = pool[n] /\ Fresh(pool[n])
    BY <1>3, <1>0, <2>2 DEF GetConnPooled, LeftByPurge
  <2>4. ASSUME NEW i \in 1..(n - 1) PROVE Fresh(pool[i])
    <3>1. i \in 1..Len(pool) /\ i <= n
      BY <1>0
    <3>2. stamp[pool[i]] >= stamp[pool[n]]
      BY <3>1 DEF PoolOrdered
    <3> QED
      BY <3>1, <3>2, <2>3, <1>0 DEF Fresh
  <2> QED
    BY <2>1, <2>3, <2>4
<1> QED
  BY <1>1, <1>2, <1>3

\* getConn never hands out, nor leaves in the list, a connection that has been
\* idle for aliveTime.
THEOREM FreshCorrect == Spec => NoStaleConn
<1>1. Spec => []TypeInv
  BY TypeInit, TypeStep, PTL DEF Spec
<1>2. Spec => []OwnerInv
  BY <1>1, OwnerInit, OwnerStep, PTL DEF Spec
<1>3. Init => PoolOrdered
  BY DEF Init, PoolOrdered
<1>4. Spec => []PoolOrdered
  BY <1>1, <1>2, <1>3, OrderStep, PTL DEF Spec
<1>5. TypeInv /\ PoolOrdered /\ [Next]_vars => [GetConnFresh]_vars
  BY FreshStep
<1>6. Spec => [][GetConnFresh]_vars
  BY <1>1, <1>4, <1>5, PTL DEF Spec
<1> QED
  BY <1>6 DEF NoStaleConn
=============================================================================
