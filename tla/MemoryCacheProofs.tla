-------------------------- MODULE MemoryCacheProofs -------------------------
(***************************************************************************)
(* Proofs about MemoryCache: the types, the limit, the reports of the      *)
(* eviction callback, and that the cache implements the map TTLMap.        *)
(*                                                                         *)
(* Seven shapes cover the steps of the cache (StepShapes); the invariants  *)
(* are shown shape by shape, the refinement operation by operation.        *)
(***************************************************************************)
EXTENDS MemoryCache, FiniteSetTheorems, TLAPS

Statuses == {"none", "ok", "added", "replaced", "full", "exists", "missing", "type"}

Places == {"idle", "store", "add", "report", "clean", "signal", "panic"}

\* The client gets an answer.
Answers(c) ==
    \E st \in Statuses, v \in Vals : ret' = [ret EXCEPT ![c] = [st |-> st, val |-> v]]

\* One section under the lock that touches items only: what is in the map
\* afterwards was there before, under the same identity, or is new.
Rewrites(c) ==
    /\ Answers(c)
    /\ writes' \in {writes, writes + 1}
    /\ items' \in [Keys -> Items \cup {NoItem}]
    /\ \A k \in Keys : items'[k] # NoItem =>
          \/ items[k] # NoItem /\ items'[k].id = items[k].id
          \/ writes' = writes + 1 /\ items'[k].id = writes
    /\ "load" \notin Ops => \A k \in Keys : items'[k] # NoItem => items[k] # NoItem
    /\ UNCHANGED <<handler, lastClean, pc, arg, cleanNow, evicted, removed, reported, now>>

\* Set or Add finds the cache full.
Refused(c) ==
    /\ Answers(c)
    /\ pc[c] = "idle"
    /\ \/ pc' = [pc EXCEPT ![c] = "panic"]
       \/ pc[Janitor] = "idle" /\ pc' = [pc EXCEPT ![Janitor] = "signal"]
       \/ pc' = pc
    /\ UNCHANGED <<items, handler, lastClean, arg, cleanNow, evicted, writes,
                   removed, reported, now>>

\* Set or Add has passed the test of the limit and holds s.
Admitted(c, s, next) ==
    /\ ~IsReachMaxItemsCount
    /\ pc[c] = "idle" /\ next \in {"store", "add"}
    /\ s \in Stores /\ s.item.id = writes
    /\ pc' = [pc EXCEPT ![c] = next]
    /\ arg' = [arg EXCEPT ![c] = s]
    /\ writes' = writes + 1
    /\ UNCHANGED <<items, handler, lastClean, cleanNow, evicted, ret,
                   removed, reported, now>>

\* The end of Set and Add: the item is stored or dropped.
Stored(c) ==
    /\ Answers(c)
    /\ pc[c] \in {"store", "add"}
    /\ pc' = [pc EXCEPT ![c] = "idle"]
    /\ arg' = [arg EXCEPT ![c] = NoItem]
    /\ \/ items' = items
       \/ \E it \in Items : /\ it.id = arg[c].item.id
                            /\ items' = [items EXCEPT ![arg[c].key] = it]
    /\ UNCHANGED <<handler, lastClean, cleanNow, evicted, writes, removed, reported, now>>

\* Keys are deleted under the lock.
Deletes(p, K) ==
    /\ pc[p] \in {"idle", "clean"}
    /\ DeleteKeys(p, K)
    /\ (p \in Clients /\ Answers(p)) \/ ret' = ret
    /\ lastClean' \in {lastClean, cleanNow[p]}
    /\ cleanNow' \in {cleanNow, [cleanNow EXCEPT ![p] = 0]}
    /\ UNCHANGED <<handler, arg, writes, reported, now>>

\* Steps that no item, report or answer depends on.
Quiet ==
    /\ handler' \in {"nil", "f"}
    /\ now' \in {now, now + 1}
    /\ \/ pc' = pc /\ cleanNow' = cleanNow
       \/ \E p \in Procs :
            /\ pc[p] \in {"idle", "signal"}
            /\ \/ pc' = [pc EXCEPT ![p] = "idle"] /\ cleanNow' = cleanNow
               \/ /\ pc' = [pc EXCEPT ![p] = "clean"]
                  /\ cleanNow' = [cleanNow EXCEPT ![p] = now]
    /\ UNCHANGED <<items, lastClean, arg, evicted, ret, writes, removed, reported>>

-----------------------------------------------------------------------------
(* What the operators yield *)

LEMMA NoValTyped == NoVal \in Vals
BY CacheAssumption DEF NoVal, Vals

LEMMA StoredTyped == StoredVals \subseteq Vals
BY CacheAssumption DEF StoredVals, Vals

LEMMA WrapTyped ==
    ASSUME NEW v \in Vals, NEW n \in Int
    PROVE  [v EXCEPT !.n = Wrap(v.t, v.n + n)] \in Vals
<1>. DEFINE x == v.n + n
<1>1. v.n \in Int /\ v.t \in {"uint", "int", "float", "string"}
    BY CacheAssumption DEF Vals
<1>2. x \in Int
    BY <1>1
<1>3. x % (2 * Half) \in 0..(2 * Half - 1)
    BY <1>2, CacheAssumption
<1>4. (x + Half) % (2 * Half) \in 0..(2 * Half - 1)
    BY <1>2, CacheAssumption
<1>. HIDE DEF x
<1>5. CASE v.t = "uint"
    <2>1. Wrap(v.t, x) \in 0..(2 * Half - 1)
        BY <1>5, <1>3 DEF Wrap
    <2>2. [v EXCEPT !.n = Wrap(v.t, x)] = [t |-> "uint", n |-> Wrap(v.t, x)]
        BY <1>5 DEF Vals
    <2>. QED  BY <2>1, <2>2 DEF Vals, x
<1>6. CASE v.t = "int"
    <2>1. Wrap(v.t, x) \in (-Half)..(Half - 1)
        BY <1>6, <1>4, CacheAssumption DEF Wrap
    <2>2. [v EXCEPT !.n = Wrap(v.t, x)] = [t |-> "int", n |-> Wrap(v.t, x)]
        BY <1>6 DEF Vals
    <2>. QED  BY <2>1, <2>2 DEF Vals, x
<1>7. CASE v.t \in {"float", "string"}
    <2>1. Wrap(v.t, x) \in Int
        BY <1>7, <1>2 DEF Wrap
    <2>2. [v EXCEPT !.n = Wrap(v.t, x)] = [t |-> v.t, n |-> Wrap(v.t, x)]
        BY <1>7 DEF Vals
    <2>. QED  BY <1>7, <2>1, <2>2 DEF Vals, x
<1>. QED  BY <1>1, <1>5, <1>6, <1>7

LEMMA ItemTyped ==
    ASSUME now \in Nat, writes \in Nat, NEW v \in Vals, NEW d \in Int
    PROVE  Item(v, d) \in Items /\ Item(v, d).id = writes /\ Expiration(d) \in Nat
BY CacheAssumption DEF Item, Items, Expiration, Duration

LEMMA ItemsExist == \A it \in Items \cup Stores : it # NoItem
BY CacheAssumption

-----------------------------------------------------------------------------
(* The shapes cover the steps *)

\* A goroutine holds an item to store exactly between the test of Set or Add
\* and the store; the janitor never does. Clock readings are of the past, and
\* the handler was called finitely often.
Placed ==
    /\ \A c \in Clients : pc[c] \in {"store", "add"} <=> arg[c] # NoItem
    /\ pc[Janitor] \notin {"store", "add"}
    /\ \A p \in Procs : cleanNow[p] <= now
    /\ IsFiniteSet(reported)

Typed == TypeOK /\ Placed

LEMMA SimpleAnswers ==
    ASSUME NEW c, NEW o, NEW new, NEW st \in Statuses, NEW v \in Vals,
           Simple(c, o, new, st, v)
    PROVE  Answers(c)
BY DEF Simple, Answers, Answer

LEMMA ReplaceShape ==
    ASSUME TypeOK, NEW c \in Clients, NEW k \in Keys, NEW v \in Vals, NEW d \in Int,
           Replace(c, k, v, d)
    PROVE  Rewrites(c)
<1>1. Item(v, d) \in Items /\ Item(v, d).id = writes
    BY ItemTyped DEF TypeOK
<1>2. PICK new : /\ Simple(c, "replace", new, "replaced", NoVal) \/ Simple(c, "replace", new, "missing", NoVal)
                 /\ new = items \/ (Live(k) /\ new = [items EXCEPT ![k] = Item(v, d)])
    BY DEF Replace
<1>3. Answers(c)
    BY <1>2, SimpleAnswers, NoValTyped DEF Statuses
<1>4. writes' = writes + 1
    BY DEF Replace, Write
<1>5. items' = new
    BY <1>2 DEF Simple
<1>6. items \in [Keys -> Items \cup {NoItem}]
    BY DEF TypeOK
<1>7. UNCHANGED <<handler, lastClean, pc, arg, cleanNow, evicted, removed, reported, now>>
    BY <1>2 DEF Simple
<1>8. CASE new = items
    BY <1>3, <1>4, <1>5, <1>6, <1>7, <1>8 DEF Rewrites
<1>9. CASE Live(k) /\ new = [items EXCEPT ![k] = Item(v, d)]
    BY <1>1, <1>3, <1>4, <1>5, <1>6, <1>7, <1>9 DEF Rewrites, Live
<1>. QED  BY <1>2, <1>8, <1>9

LEMMA GetShape ==
    ASSUME TypeOK, NEW c \in Clients, NEW k \in Keys, Get(c, k)
    PROVE  Rewrites(c)
<1>1. CASE Live(k)
    <2>1. Simple(c, "get", items, "ok", items[k].val) /\ items[k].val \in Vals
        BY <1>1 DEF Get, Live, TypeOK, Items
    <2>2. Answers(c)
        BY <2>1, SimpleAnswers DEF Statuses
    <2>. QED  BY <2>1, <2>2 DEF Rewrites, Simple, TypeOK, Get
<1>2. CASE ~Live(k)
    <2>1. Simple(c, "get", items, "missing", NoVal)
        BY <1>2 DEF Get
    <2>2. Answers(c)
        BY <2>1, SimpleAnswers, NoValTyped DEF Statuses
    <2>. QED  BY <2>1, <2>2 DEF Rewrites, Simple, TypeOK, Get
<1>. QED  BY <1>1, <1>2

LEMMA FlushShape ==
    ASSUME TypeOK, NEW c \in Clients, Flush(c)
    PROVE  Rewrites(c)
<1>1. Answers(c)
    BY SimpleAnswers, NoValTyped DEF Statuses, Flush
<1>. QED  BY <1>1 DEF Rewrites, Simple, TypeOK, Flush

LEMMA LoadShape ==
    ASSUME TypeOK, NEW c \in Clients, NEW K \in SUBSET Keys, NEW v \in Vals,
           NEW e \in {0, 1}, Load(c, K, v, e)
    PROVE  Rewrites(c)
<1>. DEFINE it == [val |-> v, exp |-> e, id |-> writes]
            new == [k \in Keys |-> IF k \in K /\ ~Live(k) THEN it ELSE items[k]]
<1>1. Simple(c, "load", new, "ok", NoVal) /\ writes' = writes + 1
    BY DEF Load, Write
<1>2. Answers(c)
    BY <1>1, SimpleAnswers, NoValTyped DEF Statuses
<1>3. it \in Items /\ it.id = writes
    BY DEF Items, TypeOK
<1>4. "load" \in Ops /\ items' = new
    BY <1>1 DEF Simple, Begin
<1>. HIDE DEF it
<1>5. items' \in [Keys -> Items \cup {NoItem}]
    BY <1>3, <1>4 DEF TypeOK
<1>. QED  BY <1>1, <1>2, <1>3, <1>4, <1>5 DEF Rewrites, Simple

LEMMA ModifyShape ==
    ASSUME TypeOK, NEW c \in Clients, NEW o, NEW k \in Keys, NEW T, NEW n \in Int,
           Modify(c, o, k, T, n)
    PROVE  Rewrites(c)
<1>. DEFINE old == items[k].val
            new == [old EXCEPT !.n = Wrap(old.t, old.n + n)]
            map == [items EXCEPT ![k].val = new]
<1>1. writes' = writes + 1
    BY DEF Modify, Write
<1>2. CASE ~Live(k) \/ old.t \notin T
    <2>1. Simple(c, o, items, "missing", NoVal) \/ Simple(c, o, items, "type", NoVal)
        BY <1>2 DEF Modify
    <2>2. Answers(c)
        BY <2>1, SimpleAnswers, NoValTyped DEF Statuses
    <2>. QED  BY <1>1, <2>1, <2>2 DEF Rewrites, Simple, TypeOK
<1>3. CASE Live(k) /\ old.t \in T
    <2>1. Simple(c, o, map, "ok", new)
        BY <1>3 DEF Modify
    <2>2. items[k] \in Items /\ old \in Vals
        BY <1>3 DEF Live, TypeOK, Items
    <2>3. new \in Vals
        BY <2>2, WrapTyped
    <2>4. Answers(c)
        BY <2>1, <2>3, SimpleAnswers DEF Statuses
    <2>. HIDE DEF new
    <2>5. [items[k] EXCEPT !.val = new] \in Items /\ [items[k] EXCEPT !.val = new].id = items[k].id
        BY <2>2, <2>3 DEF Items
    <2>6. items' = [items EXCEPT ![k] = [items[k] EXCEPT !.val = new]]
        BY <2>1 DEF Simple
    <2>. QED  BY <1>1, <1>3, <2>1, <2>2, <2>4, <2>5, <2>6 DEF Rewrites, Simple, TypeOK, Live
<1>. QED  BY <1>2, <1>3

LEMMA CheckShape ==
    ASSUME TypeOK, NEW c \in Clients, NEW k \in Keys, NEW v \in Vals, NEW d \in Int,
           NEW next \in {"store", "add"}, pc[c] = "idle", Check(c, k, v, d, next)
    PROVE  \/ Refused(c)
           \/ \E s \in Stores : Admitted(c, s, next)
<1>1. CASE IsReachMaxItemsCount
    <2>1. ShoudClean(c) /\ Answer(c, "full", NoVal)
        BY <1>1 DEF Check
    <2>2. Answers(c)
        BY <2>1, NoValTyped DEF Answers, Answer, Statuses
    <2>. QED  BY <1>1, <2>1, <2>2 DEF Check, ShoudClean, Refused
<1>2. CASE ~IsReachMaxItemsCount
    <2>. DEFINE s == [key |-> k, ttl |-> d, item |-> Item(v, d)]
    <2>1. s \in Stores /\ s.item.id = writes
        BY ItemTyped DEF TypeOK, Stores
    <2>2. /\ pc' = [pc EXCEPT ![c] = next]
          /\ arg' = [arg EXCEPT ![c] = s]
          /\ writes' = writes + 1
          /\ UNCHANGED <<items, handler, lastClean, cleanNow, evicted, ret, removed, reported, now>>
        BY <1>2 DEF Check, Write
    <2>. HIDE DEF s
    <2>. QED  BY <1>2, <2>1, <2>2 DEF Admitted
<1>. QED  BY <1>1, <1>2

LEMMA StoreShape ==
    ASSUME Typed, NEW c \in Clients, SetStore(c) \/ AddStore(c)
    PROVE  Stored(c)
<1>1. pc[c] \in {"store", "add"} /\ arg[c] \in Stores
    BY DEF SetStore, AddStore, Typed, TypeOK, Placed
<1>2. Answers(c)
    BY NoValTyped DEF SetStore, AddStore, Answers, Answer, Statuses
<1>3. CASE SetStore(c)
    <2>1. arg[c].item \in Items /\ items' = [items EXCEPT ![arg[c].key] = arg[c].item]
        BY <1>1, <1>3 DEF SetStore, Stores
    <2>. QED  BY <1>1, <1>2, <1>3, <2>1 DEF SetStore, Stored
<1>4. CASE AddStore(c)
    <2>. DEFINE it == [arg[c].item EXCEPT !.exp = Expiration(arg[c].ttl)]
    <2>1. arg[c].item \in Items /\ arg[c].ttl \in Int
        BY <1>1 DEF Stores
    <2>2. Expiration(arg[c].ttl) \in Nat
        BY <2>1, CacheAssumption DEF Expiration, Duration, Typed, TypeOK
    <2>3. it \in Items /\ it.id = arg[c].item.id
        BY <2>1, <2>2 DEF Items
    <2>4. items' = items \/ items' = [items EXCEPT ![arg[c].key] = it]
        BY <1>4 DEF AddStore
    <2>. HIDE DEF it
    <2>. QED  BY <1>1, <1>2, <1>4, <2>3, <2>4 DEF AddStore, Stored
<1>. QED  BY <1>3, <1>4

LEMMA DeleteShape ==
    ASSUME NEW c \in Clients, NEW k \in Keys, Delete(c, k)
    PROVE  Deletes(c, {k})
<1>1. Answers(c)
    BY NoValTyped DEF Delete, Answers, Answer, Statuses
<1>. QED  BY <1>1 DEF Delete, Begin, Deletes

LEMMA DeleteExpiredShape ==
    ASSUME NEW p \in Procs, DeleteExpired(p)
    PROVE  \E K \in SUBSET Keys : Deletes(p, K)
<1>. DEFINE K == {k \in Present : ExpiredAt(items[k], cleanNow[p])}
<1>1. K \in SUBSET Keys
    BY DEF Present
<1>2. DeleteKeys(p, K)
    BY DEF DeleteExpired
<1>. HIDE DEF K
<1>3. Deletes(p, K)
    BY <1>2 DEF DeleteExpired, Deletes
<1>. QED  BY <1>1, <1>3

LEMMA CleanShape ==
    ASSUME Typed, NEW p \in Procs, NEW from \in {"idle", "signal"}, CleanBegin(p, from)
    PROVE  Quiet
BY DEF CleanBegin, Quiet, Typed, TypeOK

Step ==
    \/ \E c \in Clients : Rewrites(c)
    \/ \E c \in Clients : Refused(c)
    \/ \E c \in Clients, s \in Stores, next \in {"store", "add"} : Admitted(c, s, next)
    \/ \E c \in Clients : Stored(c)
    \/ \E p \in Procs, K \in SUBSET Keys : Deletes(p, K)
    \/ \E p \in Procs : Report(p)
    \/ Quiet

LEMMA CallShapes ==
    ASSUME Typed, NEW c \in Clients, Call(c)
    PROVE  Step
<1>. TypeOK /\ TTLs \subseteq Int /\ Procs = Clients \cup {Janitor}
    BY CacheAssumption DEF Typed, Procs
<1>1. CASE \E k \in Keys, v \in StoredVals, d \in TTLs :
              SetCheck(c, k, v, d) \/ AddCheck(c, k, v, d) \/ Replace(c, k, v, d)
    <2>1. PICK k \in Keys, v \in StoredVals, d \in TTLs :
              SetCheck(c, k, v, d) \/ AddCheck(c, k, v, d) \/ Replace(c, k, v, d)
        BY <1>1
    <2>2. v \in Vals /\ d \in Int
        BY StoredTyped
    <2>3. CASE SetCheck(c, k, v, d)
        <3>1. pc[c] = "idle" /\ Check(c, k, v, d, "store")
            BY <2>3 DEF SetCheck, Begin
        <3>2. Refused(c) \/ \E s \in Stores : Admitted(c, s, "store")
            BY <2>2, <3>1, CheckShape
        <3>. QED  BY <3>2 DEF Step
    <2>4. CASE AddCheck(c, k, v, d)
        <3>1. pc[c] = "idle" /\ Check(c, k, v, d, "add")
            BY <2>4 DEF AddCheck, Begin
        <3>2. Refused(c) \/ \E s \in Stores : Admitted(c, s, "add")
            BY <2>2, <3>1, CheckShape
        <3>. QED  BY <3>2 DEF Step
    <2>5. CASE Replace(c, k, v, d)
        BY <2>2, <2>5, ReplaceShape DEF Step
    <2>. QED  BY <2>1, <2>3, <2>4, <2>5
<1>2. CASE \E k \in Keys : Get(c, k)
    BY <1>2, GetShape DEF Step
<1>3. CASE \E k \in Keys : Delete(c, k)
    BY <1>3, DeleteShape DEF Step
<1>4. CASE \E k \in Keys :
             \/ Increment(c, k, 1) \/ IncrementFloat(c, k, 1)
             \/ IncrementSigned(c, k, 1) \/ IncrementUnsigned(c, k, 1)
             \/ Decrement(c, k, 1) \/ DecrementFloat(c, k, 1)
             \/ DecrementSigned(c, k, 1) \/ DecrementUnsigned(c, k, 1)
    <2>1. PICK k \in Keys, o \in {"incr", "decr"}, n \in {1, -1},
               T \in SUBSET {"int", "uint", "float"} : Modify(c, o, k, T, n)
        BY <1>4 DEF Increment, IncrementFloat, IncrementSigned, IncrementUnsigned,
                    Decrement, DecrementFloat, DecrementSigned, DecrementUnsigned
    <2>2. Rewrites(c)
        BY <2>1, ModifyShape
    <2>. QED  BY <2>2 DEF Step
<1>5. CASE Flush(c)
    BY <1>5, FlushShape DEF Step
<1>6. CASE \E K \in SUBSET Keys, v \in StoredVals, e \in {0, 1} : Load(c, K, v, e)
    BY <1>6, LoadShape, StoredTyped DEF Step
<1>7. CASE CleanBegin(c, "idle")
    BY <1>7, CleanShape DEF Step
<1>8. CASE \E h \in Handlers : OnEvicted(c, h)
    BY <1>8, CacheAssumption DEF OnEvicted, Quiet, Step
<1>. QED
    BY <1>1, <1>2, <1>3, <1>4, <1>5, <1>6, <1>7, <1>8 DEF Call

\* Every step of the cache has one of the seven shapes.
LEMMA StepShapes ==
    ASSUME Typed, [Next]_vars
    PROVE  Step
<1>. Procs = Clients \cup {Janitor}
    BY DEF Procs
<1>1. CASE \E c \in Clients : Call(c)
    BY <1>1, CallShapes
<1>2. CASE \E p \in Procs : Proceed(p)
    <2>1. PICK p \in Procs : Proceed(p)
        BY <1>2
    <2>2. CASE Report(p)
        BY <2>2 DEF Step
    <2>3. CASE DeleteExpired(p)
        BY <2>3, DeleteExpiredShape DEF Step
    <2>4. CASE p \in Clients /\ (SetStore(p) \/ AddStore(p))
        BY <2>4, StoreShape DEF Step
    <2>. QED  BY <2>1, <2>2, <2>3, <2>4 DEF Proceed
<1>3. CASE JanitorTick
    BY <1>3, CleanShape DEF JanitorTick, Step
<1>4. CASE JanitorSignal
    <2>1. CASE lastClean + 1 < now
        BY <1>4, <2>1, CleanShape DEF JanitorSignal, Step
    <2>2. CASE ~(lastClean + 1 < now)
        BY <1>4, <2>2 DEF JanitorSignal, Step, Quiet, Typed, TypeOK
    <2>. QED  BY <2>1, <2>2
<1>5. CASE Tick
    BY <1>5 DEF Tick, Quiet, Step, Typed, TypeOK
<1>6. CASE UNCHANGED vars
    BY <1>6 DEF vars, Quiet, Step, Typed, TypeOK
<1>. QED
    BY <1>1, <1>2, <1>3, <1>4, <1>5, <1>6 DEF Next

-----------------------------------------------------------------------------
(* Types *)

LEMMA AnswersTyped ==
    ASSUME TypeOK, NEW c \in Clients, Answers(c)
    PROVE  ret' \in [Clients -> [st : Statuses, val : Vals]]
BY DEF Answers, TypeOK, Statuses

LEMMA DeletesTyped ==
    ASSUME TypeOK, NEW p \in Procs, NEW K \in SUBSET Keys, DeleteKeys(p, K)
    PROVE  /\ items' \in [Keys -> Items \cup {NoItem}]
           /\ evicted' \in [Procs -> SUBSET (Keys \X Nat)]
           /\ removed' \subseteq Keys \X Nat
           /\ \E s \in {"idle", "report"} : pc' = [pc EXCEPT ![p] = s]
<1>. DEFINE gone == IF handler = "nil" THEN {} ELSE {<<k, items[k].id>> : k \in K \cap Present}
<1>1. gone \subseteq Keys \X Nat
    BY DEF Present, TypeOK, Items
<1>2. /\ items' = [k \in Keys |-> IF k \in K THEN NoItem ELSE items[k]]
      /\ evicted' = [evicted EXCEPT ![p] = gone]
      /\ removed' = removed \cup gone
      /\ pc' = [pc EXCEPT ![p] = IF gone = {} THEN "idle" ELSE "report"]
    BY DEF DeleteKeys
<1>. HIDE DEF gone
<1>. QED  BY <1>1, <1>2 DEF TypeOK

LEMMA ReportTyped ==
    ASSUME TypeOK, IsFiniteSet(reported), NEW p \in Procs, Report(p)
    PROVE  /\ evicted' \in [Procs -> SUBSET (Keys \X Nat)]
           /\ reported' \subseteq [id : Keys \X Nat, n : Nat]
           /\ IsFiniteSet(reported')
           /\ \E s \in {"idle", "report", "panic"} : pc' = [pc EXCEPT ![p] = s]
<1>1. CASE handler = "nil"
    BY <1>1 DEF Report, TypeOK
<1>2. CASE handler # "nil"
    <2>1. PICK i \in evicted[p] :
              /\ reported' = reported \cup
                   {[id |-> i, n |-> Cardinality({r \in reported : r.id = i})]}
              /\ evicted' = [evicted EXCEPT ![p] = @ \ {i}]
              /\ pc' = [pc EXCEPT ![p] = IF evicted[p] = {i} THEN "idle" ELSE "report"]
        BY <1>2 DEF Report
    <2>. DEFINE n == Cardinality({r \in reported : r.id = i})
    <2>2. n \in Nat
        <3>1. {r \in reported : r.id = i} \in SUBSET reported
            OBVIOUS
        <3>2. IsFiniteSet({r \in reported : r.id = i})
            BY <3>1, FS_Subset
        <3>. QED  BY <3>2, FS_CardinalityType
    <2>3. i \in Keys \X Nat
        BY DEF TypeOK
    <2>4. reported' = reported \cup {[id |-> i, n |-> n]}
        BY <2>1
    <2>. HIDE DEF n
    <2>5. IsFiniteSet(reported')
        BY <2>4, FS_AddElement
    <2>6. reported' \subseteq [id : Keys \X Nat, n : Nat]
        BY <2>2, <2>3, <2>4 DEF TypeOK
    <2>7. evicted' \in [Procs -> SUBSET (Keys \X Nat)]
        BY <2>1 DEF TypeOK
    <2>. QED  BY <2>1, <2>5, <2>6, <2>7
<1>. QED  BY <1>1, <1>2

LEMMA TypeStep ==
    ASSUME Typed, Step
    PROVE  Typed'
<1>. /\ Procs = Clients \cup {Janitor}
     /\ Janitor \notin Clients
     /\ TypeOK /\ Placed
    BY CacheAssumption DEF Procs, Typed
<1>1. CASE \E c \in Clients : Rewrites(c)
    <2>1. PICK c \in Clients : Rewrites(c)
        BY <1>1
    <2>2. ret' \in [Clients -> [st : Statuses, val : Vals]]
        BY <2>1, AnswersTyped DEF Rewrites
    <2>3. TypeOK'
        BY <2>1, <2>2 DEF Rewrites, TypeOK, Statuses
    <2>4. Placed'
        BY <2>1 DEF Rewrites, Placed
    <2>. QED  BY <2>3, <2>4 DEF Typed
<1>2. CASE \E c \in Clients : Refused(c)
    <2>1. PICK c \in Clients : Refused(c)
        BY <1>2
    <2>2. ret' \in [Clients -> [st : Statuses, val : Vals]]
        BY <2>1, AnswersTyped DEF Refused
    <2>3. TypeOK'
        BY <2>1, <2>2 DEF Refused, TypeOK, Statuses
    <2>4. Placed'
        BY <2>1 DEF Refused, Placed, TypeOK
    <2>. QED  BY <2>3, <2>4 DEF Typed
<1>3. CASE \E c \in Clients, s \in Stores, next \in {"store", "add"} : Admitted(c, s, next)
    <2>1. PICK c \in Clients, s \in Stores, next \in {"store", "add"} : Admitted(c, s, next)
        BY <1>3
    <2>2. s # NoItem
        BY ItemsExist
    <2>3. TypeOK'
        BY <2>1 DEF Admitted, TypeOK
    <2>4. Placed'
        BY <2>1, <2>2 DEF Admitted, Placed, TypeOK
    <2>. QED  BY <2>3, <2>4 DEF Typed
<1>4. CASE \E c \in Clients : Stored(c)
    <2>1. PICK c \in Clients : Stored(c)
        BY <1>4
    <2>2. ret' \in [Clients -> [st : Statuses, val : Vals]]
        BY <2>1, AnswersTyped DEF Stored
    <2>3. items' \in [Keys -> Items \cup {NoItem}]
        BY <2>1 DEF Stored, TypeOK
    <2>4. pc' \in [Procs -> Places] /\ arg' \in [Clients -> Stores \cup {NoItem}]
        BY <2>1 DEF Stored, TypeOK, Places
    <2>5. TypeOK'
        BY <2>1, <2>2, <2>3, <2>4 DEF Stored, TypeOK, Statuses, Places
    <2>6. Placed'
        BY <2>1 DEF Stored, Placed, TypeOK
    <2>. QED  BY <2>5, <2>6 DEF Typed
<1>5. CASE \E p \in Procs, K \in SUBSET Keys : Deletes(p, K)
    <2>1. PICK p \in Procs, K \in SUBSET Keys : Deletes(p, K)
        BY <1>5
    <2>2. ret' \in [Clients -> [st : Statuses, val : Vals]]
        BY <2>1, AnswersTyped DEF Deletes, TypeOK, Statuses
    <2>3. /\ items' \in [Keys -> Items \cup {NoItem}]
          /\ evicted' \in [Procs -> SUBSET (Keys \X Nat)]
          /\ removed' \subseteq Keys \X Nat
          /\ \E s \in {"idle", "report"} : pc' = [pc EXCEPT ![p] = s]
        BY <2>1, DeletesTyped DEF Deletes
    <2>4. TypeOK'
        BY <2>1, <2>2, <2>3 DEF Deletes, TypeOK, Statuses
    <2>5. Placed'
        BY <2>1, <2>3 DEF Deletes, Placed, TypeOK
    <2>. QED  BY <2>4, <2>5 DEF Typed
<1>6. CASE \E p \in Procs : Report(p)
    <2>1. PICK p \in Procs : Report(p)
        BY <1>6
    <2>2. /\ evicted' \in [Procs -> SUBSET (Keys \X Nat)]
          /\ reported' \subseteq [id : Keys \X Nat, n : Nat]
          /\ IsFiniteSet(reported')
          /\ \E s \in {"idle", "report", "panic"} : pc' = [pc EXCEPT ![p] = s]
        BY <2>1, ReportTyped DEF Placed
    <2>3. TypeOK'
        BY <2>1, <2>2 DEF Report, TypeOK
    <2>4. Placed'
        BY <2>1, <2>2 DEF Report, Placed, TypeOK
    <2>. QED  BY <2>3, <2>4 DEF Typed
<1>7. CASE Quiet
    <2>1. TypeOK'
        BY <1>7 DEF Quiet, TypeOK
    <2>2. Placed'
        BY <1>7 DEF Quiet, Placed, TypeOK
    <2>. QED  BY <2>1, <2>2 DEF Typed
<1>. QED
    BY <1>1, <1>2, <1>3, <1>4, <1>5, <1>6, <1>7 DEF Step

\* Types and places, together, are inductive.
LEMMA TypedCorrect == Spec => []Typed
<1>1. Init => Typed
    <2>. SUFFICES ASSUME Init PROVE Typed
        OBVIOUS
    <2>1. TypeOK
        BY NoValTyped, CacheAssumption DEF Init, TypeOK
    <2>2. Placed
        BY FS_EmptySet DEF Init, Placed, Procs
    <2>. QED  BY <2>1, <2>2 DEF Typed
<1>2. Typed /\ [Next]_vars => Typed'
    BY StepShapes, TypeStep
<1>. QED  BY <1>1, <1>2, PTL DEF Spec

\* Every variable keeps its Go type, and an integer its width: arithmetic at
\* the end of the range wraps as it does in cache.Increment and its kin.
THEOREM TypeCorrect == Spec => []TypeOK
<1>. Typed => TypeOK
    BY DEF Typed
<1>. QED  BY TypedCorrect, PTL

-----------------------------------------------------------------------------
(* The limit *)

Pending == {c \in Clients : pc[c] \in {"store", "add"}}

Limited == IsFiniteSet(Present) /\ LimitOvershoot

LEMMA ShrinksSafe ==
    ASSUME Limited, Present' \subseteq Present, Pending' = Pending
    PROVE  Limited'
<1>1. /\ IsFiniteSet(Present') /\ Cardinality(Present') <= Cardinality(Present)
      /\ Cardinality(Present') \in Nat /\ Cardinality(Present) \in Nat
    BY FS_Subset, FS_CardinalityType DEF Limited
<1>2. IsFiniteSet(Pending) /\ IsFiniteSet(Clients)
    BY FS_Subset, CacheAssumption DEF Pending
<1>3. Cardinality(Pending) \in Nat /\ Cardinality(Clients) \in Nat
    BY <1>2, FS_CardinalityType
<1>. DEFINE bound == (IF MaxItems = 0 THEN 0 ELSE MaxItems - 1) + Cardinality(Clients)
<1>4. bound \in Int
    BY <1>3, CacheAssumption
<1>5. Cardinality(Present) + Cardinality(Pending) <= bound
    BY DEF Limited, LimitOvershoot, Pending
<1>6. LimitOvershoot' <=> Cardinality(Present') + Cardinality(Pending') <= bound
    BY DEF LimitOvershoot, Pending
<1>. HIDE DEF bound
<1>7. Cardinality(Present') + Cardinality(Pending') <= bound
    BY <1>1, <1>3, <1>4, <1>5
<1>. QED  BY <1>1, <1>6, <1>7 DEF Limited

LEMMA LimitStep ==
    ASSUME "load" \notin Ops, Typed, Limited, Step
    PROVE  Limited'
<1>. /\ Procs = Clients \cup {Janitor}
     /\ Janitor \notin Clients
     /\ pc \in [Procs -> Places]
     /\ items \in [Keys -> Items \cup {NoItem}]
    BY CacheAssumption DEF Procs, Typed, TypeOK, Places
<1>f. /\ IsFiniteSet(Present) /\ Cardinality(Present) \in Nat
      /\ IsFiniteSet(Pending) /\ Cardinality(Pending) \in Nat
      /\ IsFiniteSet(Clients) /\ Cardinality(Clients) \in Nat
    <2>1. IsFiniteSet(Present)
        BY DEF Limited
    <2>2. IsFiniteSet(Pending) /\ IsFiniteSet(Clients)
        BY FS_Subset, CacheAssumption DEF Pending
    <2>. QED  BY <2>1, <2>2, FS_CardinalityType
<1>1. CASE \E c \in Clients : Rewrites(c)
    BY <1>1, ShrinksSafe DEF Rewrites, Present, Pending
<1>2. CASE \E c \in Clients : Refused(c)
    <2>1. PICK c \in Clients : Refused(c)
        BY <1>2
    <2>2. Present' \subseteq Present
        BY <2>1 DEF Refused, Present
    <2>3. \A d \in Clients : pc'[d] \in {"store", "add"} <=> pc[d] \in {"store", "add"}
        BY <2>1 DEF Refused
    <2>4. Pending' = Pending
        BY <2>3 DEF Pending
    <2>. QED  BY <2>2, <2>4, ShrinksSafe
<1>3. CASE \E c \in Clients, s \in Stores, next \in {"store", "add"} : Admitted(c, s, next)
    <2>1. PICK c \in Clients, s \in Stores, next \in {"store", "add"} : Admitted(c, s, next)
        BY <1>3
    <2>2. Present' = Present /\ Pending' \in SUBSET Clients
        BY <2>1 DEF Admitted, Present, Pending
    <2>3. Cardinality(Pending') <= Cardinality(Clients) /\ Cardinality(Pending') \in Nat
        BY <1>f, <2>2, FS_Subset, FS_CardinalityType
    <2>4. Cardinality(Present) < MaxItems
        BY <1>f, <2>1, CacheAssumption DEF Admitted, IsReachMaxItemsCount
    <2>. QED
        BY <1>f, <2>2, <2>3, <2>4, CacheAssumption DEF Limited, LimitOvershoot, Pending
<1>4. CASE \E c \in Clients : Stored(c)
    <2>1. PICK c \in Clients : Stored(c)
        BY <1>4
    <2>2. Pending' = Pending \ {c} /\ c \in Pending
        BY <2>1 DEF Stored, Pending
    <2>3. Cardinality(Pending') = Cardinality(Pending) - 1
        BY <1>f, <2>2, FS_RemoveElement
    <2>. DEFINE k == arg[c].key
    <2>4. Present' \in SUBSET (Present \cup {k})
        BY <2>1 DEF Stored, Present
    <2>. HIDE DEF k
    <2>5. /\ IsFiniteSet(Present \cup {k})
          /\ Cardinality(Present \cup {k}) <= Cardinality(Present) + 1
        <3>1. /\ IsFiniteSet(Present \cup {k})
              /\ Cardinality(Present \cup {k}) =
                    IF k \in Present THEN Cardinality(Present) ELSE Cardinality(Present) + 1
            BY <1>f, FS_AddElement, Zenon
        <3>. QED  BY <1>f, <3>1
    <2>6. /\ IsFiniteSet(Present')
          /\ Cardinality(Present') <= Cardinality(Present \cup {k})
        BY <2>4, <2>5, FS_Subset
    <2>7. Cardinality(Present') \in Nat /\ Cardinality(Present \cup {k}) \in Nat
        BY <2>5, <2>6, FS_CardinalityType
    <2>. QED
        BY <1>f, <2>3, <2>5, <2>6, <2>7, CacheAssumption DEF Limited, LimitOvershoot, Pending
<1>5. CASE \E p \in Procs, K \in SUBSET Keys : Deletes(p, K)
    <2>1. PICK p \in Procs, K \in SUBSET Keys : Deletes(p, K)
        BY <1>5
    <2>2. \E s \in {"idle", "report"} : pc' = [pc EXCEPT ![p] = s]
        BY <2>1, DeletesTyped DEF Deletes, Typed
    <2>3. Present' \subseteq Present
        BY <2>1 DEF Deletes, DeleteKeys, Present
    <2>4. Pending' = Pending
        BY <2>1, <2>2 DEF Deletes, Pending
    <2>. QED  BY <2>3, <2>4, ShrinksSafe
<1>6. CASE \E p \in Procs : Report(p)
    <2>1. PICK p \in Procs : Report(p)
        BY <1>6
    <2>2. \E s \in {"idle", "report", "panic"} : pc' = [pc EXCEPT ![p] = s]
        BY <2>1, ReportTyped DEF Typed, Placed
    <2>3. Present' \subseteq Present
        BY <2>1 DEF Report, Present
    <2>4. Pending' = Pending
        BY <2>1, <2>2 DEF Report, Pending
    <2>. QED  BY <2>3, <2>4, ShrinksSafe
<1>7. CASE Quiet
    BY <1>7, ShrinksSafe DEF Quiet, Present, Pending
<1>. QED
    BY <1>1, <1>2, <1>3, <1>4, <1>5, <1>6, <1>7 DEF Step

\* Unless a file is loaded, which ignores the limit, the map outgrows
\* maxItemsCount by less than the number of goroutines, although Set and Add
\* read the number of items under one lock and store under a later one.
THEOREM LimitCorrect ==
    ASSUME "load" \notin Ops
    PROVE  Spec => []LimitOvershoot
<1>1. Init => Limited
    <2>. SUFFICES ASSUME Init PROVE Limited
        OBVIOUS
    <2>1. Present = {} /\ {c \in Clients : pc[c] \in {"store", "add"}} = {}
        BY DEF Init, Present, Procs
    <2>2. Cardinality(Clients) \in Nat
        BY FS_CardinalityType, CacheAssumption
    <2>. QED
        BY <2>1, <2>2, FS_EmptySet, CacheAssumption DEF Limited, LimitOvershoot
<1>2. Typed /\ Limited /\ [Next]_vars => Limited'
    BY StepShapes, LimitStep
<1>3. Limited => LimitOvershoot
    BY DEF Limited
<1>. QED  BY <1>1, <1>2, <1>3, TypedCorrect, PTL DEF Spec

-----------------------------------------------------------------------------
(* Reports *)

\* An item keeps its identity, younger than every write to come, on its way
\* from the goroutine that stores it into the map and out of it.
Fresh ==
    /\ \A k \in Present : items[k].id < writes
    /\ \A c \in Clients : arg[c] # NoItem => arg[c].item.id < writes
    /\ \A e \in removed : e[2] < writes

\* The identity is in one of these places only.
Apart ==
    /\ \A k \in Present : <<k, items[k].id>> \notin removed
    /\ \A c \in Clients : arg[c] # NoItem =>
          /\ <<arg[c].key, arg[c].item.id>> \notin removed
          /\ \A k \in Present : items[k].id # arg[c].item.id
          /\ \A d \in Clients \ {c} : arg[d] # NoItem => arg[d].item.id # arg[c].item.id

\* What two goroutines are about to report differs, and a goroutine that is
\* not at its reports has none left, unless it panicked.
Told ==
    /\ ReportedOnce
    /\ \A p \in Procs, q \in Procs : p # q => evicted[p] \cap evicted[q] = {}
    /\ \A p \in Procs : pc[p] \notin {"report", "panic"} => evicted[p] = {}

LEMMA FreshStep ==
    ASSUME Typed, Fresh, Step
    PROVE  Fresh'
<1>. TypeOK /\ Placed
    BY DEF Typed
<1>1. CASE \E c \in Clients : Rewrites(c)
    BY <1>1 DEF Rewrites, Fresh, Present, TypeOK, Items, Stores
<1>2. CASE \E c \in Clients : Refused(c)
    BY <1>2 DEF Refused, Fresh, Present
<1>3. CASE \E c \in Clients, s \in Stores, next \in {"store", "add"} : Admitted(c, s, next)
    BY <1>3 DEF Admitted, Fresh, Present, TypeOK, Items, Stores
<1>4. CASE \E c \in Clients : Stored(c)
    BY <1>4 DEF Stored, Fresh, Present, TypeOK, Placed
<1>5. CASE \E p \in Procs, K \in SUBSET Keys : Deletes(p, K)
    BY <1>5 DEF Deletes, DeleteKeys, Fresh, Present, TypeOK
<1>6. CASE \E p \in Procs : Report(p)
    BY <1>6 DEF Report, Fresh, Present
<1>7. CASE Quiet
    BY <1>7 DEF Quiet, Fresh, Present
<1>. QED
    BY <1>1, <1>2, <1>3, <1>4, <1>5, <1>6, <1>7 DEF Step

LEMMA ApartStep ==
    ASSUME Typed, Fresh, Apart, Step
    PROVE  Apart'
<1>. TypeOK /\ Placed
    BY DEF Typed
<1>1. CASE \E c \in Clients : Rewrites(c)
    <2>1. PICK c \in Clients : Rewrites(c)
        BY <1>1
    <2>2. arg' = arg /\ removed' = removed
        BY <2>1 DEF Rewrites
    <2>3. \A k \in Present' : \/ k \in Present /\ items'[k].id = items[k].id
                              \/ items'[k].id = writes
        BY <2>1 DEF Rewrites, Present
    <2>4. \A k \in Keys : <<k, writes>> \notin removed
        BY DEF Fresh, TypeOK
    <2>5. \A d \in Clients : arg[d] # NoItem => arg[d].item.id # writes
        BY DEF Fresh, TypeOK, Stores, Items
    <2>6. \A k \in Present' : <<k, items'[k].id>> \notin removed
        BY <2>3, <2>4 DEF Apart, Present
    <2>7. \A d \in Clients : arg[d] # NoItem => \A k \in Present' : items'[k].id # arg[d].item.id
        BY <2>3, <2>5 DEF Apart
    <2>. QED  BY <2>2, <2>6, <2>7 DEF Apart
<1>2. CASE \E c \in Clients : Refused(c)
    BY <1>2 DEF Refused, Apart, Present
<1>3. CASE \E c \in Clients, s \in Stores, next \in {"store", "add"} : Admitted(c, s, next)
    <2>1. PICK c \in Clients, s \in Stores, next \in {"store", "add"} : Admitted(c, s, next)
        BY <1>3
    <2>2. /\ arg' = [arg EXCEPT ![c] = s] /\ s.item.id = writes /\ s.key \in Keys
          /\ removed' = removed /\ items' = items
        BY <2>1 DEF Admitted, Stores
    <2>3. <<s.key, s.item.id>> \notin removed
        BY <2>2 DEF Fresh, TypeOK
    <2>4. \A k \in Present : items[k].id # s.item.id
        BY <2>2 DEF Fresh, TypeOK, Present, Items
    <2>5. \A d \in Clients : arg[d] # NoItem => arg[d].item.id # s.item.id
        BY <2>2 DEF Fresh, TypeOK, Stores, Items
    <2>6. Present' = Present
        BY <2>2 DEF Present
    <2>7. \A d \in Clients : arg'[d] = IF d = c THEN s ELSE arg[d]
        BY <2>2 DEF TypeOK
    <2>. QED  BY <2>2, <2>3, <2>4, <2>5, <2>6, <2>7 DEF Apart
<1>4. CASE \E c \in Clients : Stored(c)
    <2>1. PICK c \in Clients : Stored(c)
        BY <1>4
    <2>2. /\ removed' = removed /\ arg[c] # NoItem
          /\ arg' = [arg EXCEPT ![c] = NoItem]
        BY <2>1 DEF Stored, Placed
    <2>. DEFINE i == arg[c].item.id
    <2>3. \A k \in Present' : \/ k \in Present /\ items'[k].id = items[k].id
                              \/ k = arg[c].key /\ items'[k].id = i
        <3>1. CASE items' = items
            BY <3>1 DEF Present
        <3>2. ASSUME NEW it \in Items, it.id = i, items' = [items EXCEPT ![arg[c].key] = it]
              PROVE  \A k \in Present' : \/ k \in Present /\ items'[k].id = items[k].id
                                         \/ k = arg[c].key /\ items'[k].id = i
            <4>. HIDE DEF i
            <4>1. \A k \in Keys : items'[k] = IF k = arg[c].key THEN it ELSE items[k]
                BY <3>2 DEF TypeOK
            <4>. QED  BY <3>2, <4>1 DEF Present
        <3>. QED  BY <2>1, <3>1, <3>2 DEF Stored
    <2>4. \A d \in Clients : arg'[d] = IF d = c THEN NoItem ELSE arg[d]
        BY <2>2 DEF TypeOK
    <2>5. <<arg[c].key, i>> \notin removed
        BY <2>2 DEF Apart
    <2>6. \A d \in Clients : d # c /\ arg[d] # NoItem => arg[d].item.id # i
        BY <2>2 DEF Apart
    <2>. HIDE DEF i
    <2>7. \A k \in Present' : <<k, items'[k].id>> \notin removed
        BY <2>3, <2>5 DEF Apart
    <2>8. \A d \in Clients : arg'[d] # NoItem =>
              \A k \in Present' : items'[k].id # arg'[d].item.id
        BY <2>3, <2>4, <2>6 DEF Apart
    <2>. QED  BY <2>2, <2>4, <2>7, <2>8 DEF Apart
<1>5. CASE \E p \in Procs, K \in SUBSET Keys : Deletes(p, K)
    <2>1. PICK p \in Procs, K \in SUBSET Keys : Deletes(p, K)
        BY <1>5
    <2>. DEFINE gone == IF handler = "nil" THEN {} ELSE {<<k, items[k].id>> : k \in K \cap Present}
    <2>2. /\ items' = [k \in Keys |-> IF k \in K THEN NoItem ELSE items[k]]
          /\ removed' = removed \cup gone
          /\ arg' = arg
        BY <2>1 DEF Deletes, DeleteKeys
    <2>3. \A e \in gone : \E k \in K \cap Present : e = <<k, items[k].id>>
        OBVIOUS
    <2>. HIDE DEF gone
    <2>4. \A k \in Present' : k \in Present /\ k \notin K /\ items'[k] = items[k]
        BY <2>2 DEF Present
    <2>5. \A k \in Present' : <<k, items[k].id>> \notin gone
        BY <2>3, <2>4
    <2>6. \A c \in Clients : arg[c] # NoItem => <<arg[c].key, arg[c].item.id>> \notin gone
        BY <2>3 DEF Apart
    <2>. QED  BY <2>2, <2>4, <2>5, <2>6 DEF Apart
<1>6. CASE \E p \in Procs : Report(p)
    BY <1>6 DEF Report, Apart, Present
<1>7. CASE Quiet
    BY <1>7 DEF Quiet, Apart, Present
<1>. QED
    BY <1>1, <1>2, <1>3, <1>4, <1>5, <1>6, <1>7 DEF Step

\* Steps that neither delete nor report.
LEMMA ToldSame ==
    ASSUME Told, UNCHANGED <<evicted, removed, reported>>,
           \A p \in Procs : pc'[p] \notin {"report", "panic"} => evicted[p] = {}
    PROVE  Told'
BY DEF Told, ReportedOnce

LEMMA ToldDeletes ==
    ASSUME Typed, Apart, Told, NEW p \in Procs, NEW K \in SUBSET Keys, Deletes(p, K)
    PROVE  Told'
<1>. DEFINE gone == IF handler = "nil" THEN {} ELSE {<<k, items[k].id>> : k \in K \cap Present}
            ids == {r.id : r \in reported}
<1>1. /\ evicted' = [evicted EXCEPT ![p] = gone]
      /\ removed' = removed \cup gone
      /\ pc' = [pc EXCEPT ![p] = IF gone = {} THEN "idle" ELSE "report"]
      /\ reported' = reported
    BY DEF Deletes, DeleteKeys
<1>2. gone \cap removed = {}
    BY DEF Apart, Present
<1>. HIDE DEF gone
<1>3. evicted[p] = {}
    BY DEF Deletes, Told
<1>4. evicted \in [Procs -> SUBSET (Keys \X Nat)] /\ pc \in [Procs -> Places]
    BY DEF Typed, TypeOK, Places
<1>5. removed = ids \cup UNION {evicted[q] : q \in Procs}
    BY DEF Told, ReportedOnce
<1>6. UNION {evicted'[q] : q \in Procs} = gone \cup UNION {evicted[q] : q \in Procs}
    <2>1. \A q \in Procs : evicted'[q] = IF q = p THEN gone ELSE evicted[q]
        BY <1>1, <1>4
    <2>2. \A x : (\E q \in Procs : x \in evicted'[q]) <=> x \in gone \/ \E q \in Procs : x \in evicted[q]
        BY <1>3, <2>1
    <2>. QED  BY <2>2
<1>7. ReportedOnce'
    <2>1. removed' = ids \cup UNION {evicted'[q] : q \in Procs}
        BY <1>1, <1>5, <1>6
    <2>2. \A q \in Procs : evicted'[q] \cap ids = {}
        <3>1. gone \cap ids = {}
            BY <1>2, <1>5
        <3>2. \A q \in Procs : evicted[q] \cap ids = {}
            BY DEF Told, ReportedOnce
        <3>. QED  BY <1>1, <1>4, <3>1, <3>2
    <2>3. \A r \in reported : r.n = 0
        BY DEF Told, ReportedOnce
    <2>. QED  BY <1>1, <2>1, <2>2, <2>3 DEF ReportedOnce
<1>8. \A q \in Procs, r \in Procs : q # r => evicted'[q] \cap evicted'[r] = {}
    <2>1. \A q \in Procs : evicted[q] \cap gone = {}
        BY <1>2, <1>5
    <2>2. \A q \in Procs, r \in Procs : q # r => evicted[q] \cap evicted[r] = {}
        BY DEF Told
    <2>. QED  BY <1>1, <1>4, <2>1, <2>2
<1>9. \A q \in Procs : pc'[q] \notin {"report", "panic"} => evicted'[q] = {}
    BY <1>1, <1>4 DEF Told
<1>. QED  BY <1>7, <1>8, <1>9 DEF Told

LEMMA ToldReport ==
    ASSUME Typed, Told, NEW p \in Procs, Report(p)
    PROVE  Told'
<1>. /\ evicted \in [Procs -> SUBSET (Keys \X Nat)]
     /\ pc \in [Procs -> Places]
    BY DEF Typed, TypeOK, Places
<1>1. CASE handler = "nil"
    BY <1>1, ToldSame DEF Report, Told
<1>2. CASE handler # "nil"
    <2>. DEFINE ids == {r.id : r \in reported}
    <2>1. PICK i \in evicted[p] :
              /\ reported' = reported \cup
                   {[id |-> i, n |-> Cardinality({r \in reported : r.id = i})]}
              /\ evicted' = [evicted EXCEPT ![p] = @ \ {i}]
              /\ pc' = [pc EXCEPT ![p] = IF evicted[p] = {i} THEN "idle" ELSE "report"]
        BY <1>2 DEF Report
    <2>2. removed' = removed
        BY DEF Report
    <2>3. i \notin ids
        BY DEF Told, ReportedOnce
    <2>4. {r \in reported : r.id = i} = {}
        BY <2>3
    <2>5. reported' = reported \cup {[id |-> i, n |-> 0]}
        BY <2>1, <2>4, FS_EmptySet
    <2>6. {r.id : r \in reported'} = ids \cup {i}
        <3>. DEFINE new == [id |-> i, n |-> 0]
        <3>1. reported' = reported \cup {new} /\ new.id = i
            BY <2>5
        <3>. HIDE DEF new
        <3>. QED  BY <3>1
    <2>7. \A q \in Procs, r \in Procs : q # r => evicted[q] \cap evicted[r] = {}
        BY DEF Told
    <2>8. \A q \in Procs : evicted'[q] = evicted[q] \ {i}
        BY <2>1, <2>7
    <2>9. UNION {evicted[q] : q \in Procs} = {i} \cup UNION {evicted'[q] : q \in Procs}
        <3>1. \A x : (\E q \in Procs : x \in evicted[q]) <=> x = i \/ \E q \in Procs : x \in evicted'[q]
            BY <2>8
        <3>. QED  BY <3>1
    <2>10. ReportedOnce'
        <3>1. removed = ids \cup UNION {evicted[q] : q \in Procs}
            BY DEF Told, ReportedOnce
        <3>2. removed' = {r.id : r \in reported'} \cup UNION {evicted'[q] : q \in Procs}
            BY <2>2, <2>6, <2>9, <3>1
        <3>3. \A q \in Procs : evicted'[q] \cap {r.id : r \in reported'} = {}
            <4>1. \A q \in Procs : evicted[q] \cap ids = {}
                BY DEF Told, ReportedOnce
            <4>. QED  BY <2>6, <2>8, <4>1
        <3>4. \A r \in reported' : r.n = 0
            BY <2>5 DEF Told, ReportedOnce
        <3>. QED  BY <3>2, <3>3, <3>4 DEF ReportedOnce
    <2>11. \A q \in Procs, r \in Procs : q # r => evicted'[q] \cap evicted'[r] = {}
        BY <2>7, <2>8
    <2>12. \A q \in Procs : pc'[q] \notin {"report", "panic"} => evicted'[q] = {}
        BY <2>1, <2>8 DEF Told
    <2>. QED  BY <2>10, <2>11, <2>12 DEF Told
<1>. QED  BY <1>1, <1>2

LEMMA ToldStep ==
    ASSUME Typed, Apart, Told, Step
    PROVE  Told'
<1>. /\ pc \in [Procs -> Places]
     /\ Clients \subseteq Procs
     /\ \A p \in Procs : pc[p] \notin {"report", "panic"} => evicted[p] = {}
    BY DEF Procs, Typed, TypeOK, Places, Told
<1>1. CASE \E c \in Clients : Rewrites(c)
    BY <1>1, ToldSame DEF Rewrites
<1>2. CASE \E c \in Clients : Refused(c)
    <2>1. PICK c \in Clients : Refused(c)
        BY <1>2
    <2>2. \A p \in Procs : pc'[p] \notin {"report", "panic"} => evicted[p] = {}
        BY <2>1 DEF Refused
    <2>. QED  BY <2>1, <2>2, ToldSame DEF Refused
<1>3. CASE \E c \in Clients, s \in Stores, next \in {"store", "add"} : Admitted(c, s, next)
    <2>1. PICK c \in Clients, s \in Stores, next \in {"store", "add"} : Admitted(c, s, next)
        BY <1>3
    <2>2. \A p \in Procs : pc'[p] \notin {"report", "panic"} => evicted[p] = {}
        BY <2>1 DEF Admitted
    <2>. QED  BY <2>1, <2>2, ToldSame DEF Admitted
<1>4. CASE \E c \in Clients : Stored(c)
    <2>1. PICK c \in Clients : Stored(c)
        BY <1>4
    <2>2. \A p \in Procs : pc'[p] \notin {"report", "panic"} => evicted[p] = {}
        BY <2>1 DEF Stored
    <2>. QED  BY <2>1, <2>2, ToldSame DEF Stored
<1>5. CASE \E p \in Procs, K \in SUBSET Keys : Deletes(p, K)
    BY <1>5, ToldDeletes
<1>6. CASE \E p \in Procs : Report(p)
    BY <1>6, ToldReport
<1>7. CASE Quiet
    <2>1. \A p \in Procs : pc'[p] \notin {"report", "panic"} => evicted[p] = {}
        BY <1>7 DEF Quiet
    <2>. QED  BY <1>7, <2>1, ToldSame DEF Quiet
<1>. QED
    BY <1>1, <1>2, <1>3, <1>4, <1>5, <1>6, <1>7 DEF Step

\* The handler of OnEvicted is called once, or about to be, for each item
\* that was deleted while it was set, whichever goroutines clean and delete.
THEOREM ReportedCorrect == Spec => []ReportedOnce
<1>1. Init => Fresh /\ Apart /\ Told
    BY DEF Init, Fresh, Apart, Told, ReportedOnce, Present, Procs
<1>2. Typed /\ Fresh /\ Apart /\ Told /\ [Next]_vars => (Fresh /\ Apart /\ Told)'
    BY StepShapes, FreshStep, ApartStep, ToldStep
<1>3. Told => ReportedOnce
    BY DEF Told
<1>. QED  BY <1>1, <1>2, <1>3, TypedCorrect, PTL DEF Spec

-----------------------------------------------------------------------------
(* The refinement of TTLMap *)

\* What the callers see of an item at time t.
Entry(it, t) ==
    IF it # NoItem /\ ~ExpiredAt(it, t) THEN [val |-> it.val, exp |-> it.exp] ELSE NoItem

LEMMA ViewIs == View = [k \in Keys |-> Entry(items[k], now)]
BY DEF View, Live, Entry

LEMMA ViewPrimed == View' = [k \in Keys |-> Entry(items'[k], now')]
BY DEF View, Live, Entry

LEMMA EntryFits ==
    ASSUME NEW it \in Items \cup {NoItem}, NEW t \in Nat
    PROVE  \/ Entry(it, t) = NoItem
           \/ /\ Entry(it, t) \in Abstract!Entries
              /\ Entry(it, t) # NoItem
              /\ Abstract!Alive(Entry(it, t), t)
<1>1. CASE it = NoItem \/ ExpiredAt(it, t)
    BY <1>1 DEF Entry
<1>2. CASE it # NoItem /\ ~ExpiredAt(it, t)
    <2>1. Entry(it, t) = [val |-> it.val, exp |-> it.exp]
        BY <1>2 DEF Entry
    <2>2. it.val \in Vals /\ it.exp \in Nat
        BY <1>2 DEF Items
    <2>3. Entry(it, t) \in [val : Vals, exp : Nat]
        BY <2>1, <2>2
    <2>4. Entry(it, t).exp = 0 \/ t <= Entry(it, t).exp
        BY <1>2, <2>1, <2>2 DEF ExpiredAt
    <2>5. Entry(it, t) # NoItem
        BY <2>3, CacheAssumption
    <2>. QED  BY <2>3, <2>4, <2>5 DEF Abstract!Entries, Abstract!Alive
<1>. QED  BY <1>1, <1>2

LEMMA LiveSeen ==
    ASSUME TypeOK, NEW k \in Keys
    PROVE  /\ Live(k) <=> View[k] # NoItem
           /\ Live(k) => View[k] = [val |-> items[k].val, exp |-> items[k].exp]
<1>1. items[k] \in Items \cup {NoItem} /\ now \in Nat
    BY DEF TypeOK
<1>2. View[k] = Entry(items[k], now)
    BY ViewIs
<1>3. Live(k) <=> items[k] # NoItem /\ ~ExpiredAt(items[k], now)
    BY DEF Live
<1>4. CASE Live(k)
    <2>1. View[k] = [val |-> items[k].val, exp |-> items[k].exp]
        BY <1>2, <1>3, <1>4 DEF Entry
    <2>2. items[k].val \in Vals /\ items[k].exp \in Nat
        BY <1>1, <1>3, <1>4 DEF Items
    <2>3. View[k] \in [val : Vals, exp : Nat]
        BY <2>1, <2>2
    <2>. QED  BY <1>4, <2>1, <2>3, CacheAssumption
<1>5. CASE ~Live(k)
    BY <1>2, <1>3, <1>5 DEF Entry
<1>. QED  BY <1>4, <1>5

\* The store of one item.
LEMMA StoredRefined ==
    ASSUME TypeOK, NEW c \in Clients, NEW k \in Keys, NEW it \in Items,
           NEW st,
           items' = [items EXCEPT ![k] = it], now' = now, Answer(c, st, NoVal)
    PROVE  Abstract!Store(c, k, st)
<1>1. View' = [View EXCEPT ![k] = Entry(it, now)]
    BY ViewIs, ViewPrimed DEF TypeOK
<1>2. View'[k] = Entry(it, now)
    BY <1>1, ViewIs
<1>3. Abstract!Fits(View'[k])
    BY <1>2, EntryFits DEF Abstract!Fits, TypeOK
<1>4. View' = [View EXCEPT ![k] = View'[k]]
    BY <1>1, <1>2
<1>. QED  BY <1>3, <1>4 DEF Abstract!Store, Abstract!Answer, Answer

LEMMA FailRefined ==
    ASSUME NEW c \in Clients, NEW st, items' = items, now' = now, Answer(c, st, NoVal)
    PROVE  Abstract!Fail(c, st)
<1>1. View' = View
    BY ViewIs, ViewPrimed
<1>. QED  BY <1>1 DEF Abstract!Fail, Abstract!Answer, Answer

LEMMA MissingRefined ==
    ASSUME TypeOK, NEW c \in Clients, NEW k \in Keys, ~Live(k),
           items' = items, now' = now, Answer(c, "missing", NoVal)
    PROVE  Abstract!Missing(c, k)
BY LiveSeen, FailRefined DEF Abstract!Missing

\* Steps that the callers do not see.
LEMMA Unseen ==
    ASSUME items' = items, now' = now, ret' = ret
    PROVE  UNCHANGED Abstract!vars
BY ViewIs, ViewPrimed DEF Abstract!vars

LEMMA ReplaceRefined ==
    ASSUME TypeOK, NEW c \in Clients, NEW k \in Keys, NEW v \in Vals, NEW d \in Int,
           Replace(c, k, v, d)
    PROVE  Abstract!Replace(c, k) \/ Abstract!Missing(c, k)
<1>1. CASE Live(k)
    <2>1. /\ items' = [items EXCEPT ![k] = Item(v, d)]
          /\ now' = now /\ Answer(c, "replaced", NoVal)
        BY <1>1 DEF Replace, Simple
    <2>2. Item(v, d) \in Items
        BY ItemTyped DEF TypeOK
    <2>3. Abstract!Store(c, k, "replaced")
        BY <2>1, <2>2, StoredRefined
    <2>4. View[k] # NoItem
        BY <1>1, LiveSeen
    <2>. QED  BY <2>3, <2>4 DEF Abstract!Replace
<1>2. CASE ~Live(k)
    BY <1>2, MissingRefined DEF Replace, Simple
<1>. QED  BY <1>1, <1>2

LEMMA GetRefined ==
    ASSUME TypeOK, NEW c \in Clients, NEW k \in Keys, Get(c, k)
    PROVE  Abstract!Get(c, k)
<1>1. View' = View
    BY ViewIs, ViewPrimed DEF Get, Simple
<1>2. CASE Live(k)
    <2>1. View[k] # NoItem /\ View[k].val = items[k].val
        <3>1. View[k] # NoItem /\ View[k] = [val |-> items[k].val, exp |-> items[k].exp]
            BY <1>2, LiveSeen
        <3>. QED  BY <3>1
    <2>2. Answer(c, "ok", items[k].val) /\ now' = now
        BY <1>2 DEF Get, Simple
    <2>. QED  BY <1>1, <2>1, <2>2 DEF Abstract!Get, Abstract!Answer, Answer
<1>3. CASE ~Live(k)
    <2>1. View[k] = NoItem
        BY <1>3, LiveSeen
    <2>2. Answer(c, "missing", NoVal) /\ now' = now
        BY <1>3 DEF Get, Simple
    <2>. QED  BY <1>1, <2>1, <2>2 DEF Abstract!Get, Abstract!Answer, Answer
<1>. QED  BY <1>2, <1>3

LEMMA FlushRefined ==
    ASSUME NEW c \in Clients, Flush(c)
    PROVE  Abstract!Flush(c)
<1>1. /\ items' = [k \in Keys |-> NoItem]
      /\ now' = now /\ Answer(c, "ok", NoVal)
    BY DEF Flush, Simple
<1>2. View' = [k \in Keys |-> NoItem]
    BY <1>1, ViewPrimed DEF Entry
<1>. QED  BY <1>1, <1>2 DEF Abstract!Flush, Abstract!Answer, Answer

LEMMA LoadRefined ==
    ASSUME TypeOK, NEW c \in Clients, NEW K \in SUBSET Keys, NEW v \in Vals,
           NEW e \in {0, 1}, Load(c, K, v, e)
    PROVE  Abstract!Load(c)
<1>. DEFINE it == [val |-> v, exp |-> e, id |-> writes]
<1>1. /\ items' = [k \in Keys |-> IF k \in K /\ ~Live(k) THEN it ELSE items[k]]
      /\ now' = now /\ Answer(c, "ok", NoVal)
    BY DEF Load, Simple
<1>2. it \in Items
    BY DEF Items, TypeOK
<1>. HIDE DEF it
<1>3. View' = [k \in Keys |-> View'[k]]
    BY ViewPrimed
<1>4. ASSUME NEW k \in Keys
      PROVE  IF View[k] # NoItem THEN View'[k] = View[k] ELSE Abstract!Fits(View'[k])
    <2>1. View'[k] = Entry(items'[k], now) /\ View[k] = Entry(items[k], now)
        BY <1>1, ViewIs, ViewPrimed
    <2>2. CASE Live(k)
        BY <1>1, <2>1, <2>2, LiveSeen
    <2>3. CASE ~Live(k)
        <3>1. View[k] = NoItem
            BY <2>3, LiveSeen
        <3>2. items'[k] \in Items \cup {NoItem} /\ now \in Nat
            BY <1>1, <1>2 DEF TypeOK
        <3>3. Abstract!Fits(View'[k])
            BY <2>1, <3>2, EntryFits DEF Abstract!Fits
        <3>. QED  BY <3>1, <3>3
    <2>. QED  BY <2>2, <2>3
<1>. QED
    BY <1>1, <1>3, <1>4 DEF Abstract!Load, Abstract!Answer, Answer

LEMMA ModifyRefined ==
    ASSUME TypeOK, NEW c \in Clients, NEW o, NEW k \in Keys, NEW T, NEW n \in Int,
           Modify(c, o, k, T, n)
    PROVE  Abstract!Missing(c, k) \/ Abstract!Fail(c, "type") \/ Abstract!Modify(c, k)
<1>. DEFINE old == items[k].val
            new == [old EXCEPT !.n = Wrap(old.t, old.n + n)]
<1>1. CASE ~Live(k)
    BY <1>1, MissingRefined DEF Modify, Simple
<1>2. CASE Live(k) /\ old.t \notin T
    BY <1>2, FailRefined DEF Modify, Simple
<1>3. CASE Live(k) /\ old.t \in T
    <2>1. items' = [items EXCEPT ![k].val = new] /\ now' = now /\ Answer(c, "ok", new)
        BY <1>3 DEF Modify, Simple
    <2>2. items[k] \in Items /\ old \in Vals
        BY <1>3 DEF Live, TypeOK, Items
    <2>3. new \in Vals
        BY <2>2, WrapTyped
    <2>. HIDE DEF new
    <2>4. View[k] = [val |-> items[k].val, exp |-> items[k].exp] /\ View[k] # NoItem
        BY <1>3, LiveSeen
    <2>5. [items[k] EXCEPT !.val = new] = [val |-> new, exp |-> items[k].exp, id |-> items[k].id]
        BY <2>2 DEF Items
    <2>6. Entry([items[k] EXCEPT !.val = new], now) = [View[k] EXCEPT !.val = new]
        <3>1. [val |-> new, exp |-> items[k].exp, id |-> items[k].id] \in Items
            BY <2>2, <2>3 DEF Items
        <3>2. [items[k] EXCEPT !.val = new] # NoItem
            BY <2>5, <3>1, ItemsExist
        <3>3. ~ExpiredAt([items[k] EXCEPT !.val = new], now)
            BY <1>3, <2>5 DEF Live, ExpiredAt
        <3>. QED  BY <2>4, <2>5, <3>2, <3>3 DEF Entry
    <2>7. View' = [View EXCEPT ![k].val = new]
        BY <2>1, <2>6, ViewIs, ViewPrimed DEF TypeOK
    <2>8. ret'[c].val = new
        BY <2>1 DEF Answer, TypeOK
    <2>. QED
        BY <2>1, <2>3, <2>4, <2>7, <2>8 DEF Abstract!Modify, Abstract!Answer, Answer
<1>. QED  BY <1>1, <1>2, <1>3

LEMMA DeleteRefined ==
    ASSUME TypeOK, NEW c \in Clients, NEW k \in Keys, Delete(c, k)
    PROVE  Abstract!Delete(c, k)
<1>1. /\ items' = [i \in Keys |-> IF i \in {k} THEN NoItem ELSE items[i]]
      /\ now' = now /\ Answer(c, "ok", NoVal)
    BY DEF Delete, DeleteKeys
<1>2. View' = [View EXCEPT ![k] = NoItem]
    BY <1>1, ViewIs, ViewPrimed DEF Entry
<1>. QED  BY <1>1, <1>2 DEF Abstract!Delete, Abstract!Answer, Answer

\* A reading of the clock, however old, expires nothing that is alive.
LEMMA CleaningUnseen ==
    ASSUME Typed, NEW p \in Procs, DeleteExpired(p)
    PROVE  UNCHANGED Abstract!vars
<1>. TypeOK /\ now \in Nat /\ cleanNow[p] \in Nat /\ cleanNow[p] <= now
    BY DEF Typed, TypeOK, Placed
<1>1. /\ items' = [k \in Keys |-> IF k \in Present /\ ExpiredAt(items[k], cleanNow[p])
                                  THEN NoItem ELSE items[k]]
      /\ now' = now /\ ret' = ret
    BY DEF DeleteExpired, DeleteKeys
<1>2. ASSUME NEW k \in Keys
      PROVE  Entry(items'[k], now') = Entry(items[k], now)
    <2>1. CASE k \in Present /\ ExpiredAt(items[k], cleanNow[p])
        <3>1. items[k].exp \in Nat
            BY <2>1 DEF Present, TypeOK, Items
        <3>2. ExpiredAt(items[k], now)
            BY <2>1, <3>1 DEF ExpiredAt
        <3>. QED  BY <1>1, <2>1, <3>2 DEF Entry
    <2>2. CASE ~(k \in Present /\ ExpiredAt(items[k], cleanNow[p]))
        BY <1>1, <2>2
    <2>. QED  BY <2>1, <2>2
<1>3. View' = View
    BY <1>2, ViewIs, ViewPrimed
<1>. QED  BY <1>1, <1>3 DEF Abstract!vars

LEMMA TickRefined ==
    ASSUME TypeOK, Tick
    PROVE  Abstract!Tick
<1>1. now < MaxClock /\ now' = now + 1 /\ now \in Nat /\ items' = items /\ ret' = ret
    BY DEF Tick, TypeOK
<1>2. ASSUME NEW k \in Keys
      PROVE  View'[k] = Abstract!Seen(View[k], now + 1)
    <2>1. View'[k] = Entry(items[k], now + 1) /\ View[k] = Entry(items[k], now)
        BY <1>1, ViewIs, ViewPrimed
    <2>2. CASE Live(k)
        <3>1. View[k] = [val |-> items[k].val, exp |-> items[k].exp] /\ View[k] # NoItem
            BY <2>2, LiveSeen
        <3>2. items[k] # NoItem /\ items[k].exp \in Nat
            BY <2>2 DEF Live, TypeOK, Items
        <3>3. Abstract!Alive(View[k], now + 1) <=> ~ExpiredAt(items[k], now + 1)
            BY <1>1, <3>1, <3>2 DEF Abstract!Alive, ExpiredAt
        <3>. QED  BY <2>1, <3>1, <3>2, <3>3 DEF Abstract!Seen, Entry
    <2>3. CASE ~Live(k)
        <3>1. View[k] = NoItem
            BY <2>3, LiveSeen
        <3>2. items[k] = NoItem \/ ExpiredAt(items[k], now + 1)
            BY <1>1, <2>3 DEF Live, ExpiredAt, TypeOK, Items
        <3>. QED  BY <2>1, <3>1, <3>2 DEF Abstract!Seen, Entry
    <2>. QED  BY <2>2, <2>3
<1>3. View' = [k \in Keys |-> Abstract!Seen(View[k], now + 1)]
    BY <1>2, ViewPrimed
<1>. QED  BY <1>1, <1>3 DEF Abstract!Tick

LEMMA CallRefined ==
    ASSUME Typed, NEW c \in Clients, Call(c)
    PROVE  Abstract!Next \/ UNCHANGED Abstract!vars
<1>. TypeOK /\ TTLs \subseteq Int
    BY CacheAssumption DEF Typed
<1>1. CASE \E k \in Keys, v \in StoredVals, d \in TTLs :
              SetCheck(c, k, v, d) \/ AddCheck(c, k, v, d)
    <2>1. PICK k \in Keys, v \in StoredVals, d \in TTLs, next \in {"store", "add"} :
              Check(c, k, v, d, next)
        BY <1>1 DEF SetCheck, AddCheck
    <2>2. CASE IsReachMaxItemsCount
        <3>1. items' = items /\ now' = now /\ Answer(c, "full", NoVal)
            BY <2>1, <2>2 DEF Check
        <3>. QED  BY <3>1, FailRefined DEF Abstract!Next
    <2>3. CASE ~IsReachMaxItemsCount
        BY <2>1, <2>3, Unseen DEF Check
    <2>. QED  BY <2>2, <2>3
<1>2. CASE \E k \in Keys, v \in StoredVals, d \in TTLs : Replace(c, k, v, d)
    <2>1. PICK k \in Keys, v \in Vals, d \in Int : Replace(c, k, v, d)
        BY <1>2, StoredTyped
    <2>2. Abstract!Replace(c, k) \/ Abstract!Missing(c, k)
        BY <2>1, ReplaceRefined
    <2>. QED  BY <2>2 DEF Abstract!Next
<1>3. CASE \E k \in Keys : Get(c, k)
    BY <1>3, GetRefined DEF Abstract!Next
<1>4. CASE \E k \in Keys : Delete(c, k)
    BY <1>4, DeleteRefined DEF Abstract!Next
<1>5. CASE \E k \in Keys :
             \/ Increment(c, k, 1) \/ IncrementFloat(c, k, 1)
             \/ IncrementSigned(c, k, 1) \/ IncrementUnsigned(c, k, 1)
             \/ Decrement(c, k, 1) \/ DecrementFloat(c, k, 1)
             \/ DecrementSigned(c, k, 1) \/ DecrementUnsigned(c, k, 1)
    <2>1. PICK k \in Keys, o \in {"incr", "decr"}, n \in {1, -1},
               T \in SUBSET {"int", "uint", "float"} : Modify(c, o, k, T, n)
        BY <1>5 DEF Increment, IncrementFloat, IncrementSigned, IncrementUnsigned,
                    Decrement, DecrementFloat, DecrementSigned, DecrementUnsigned
    <2>2. Abstract!Missing(c, k) \/ Abstract!Fail(c, "type") \/ Abstract!Modify(c, k)
        BY <2>1, ModifyRefined
    <2>. QED  BY <2>2 DEF Abstract!Next
<1>6. CASE Flush(c)
    BY <1>6, FlushRefined DEF Abstract!Next
<1>7. CASE \E K \in SUBSET Keys, v \in StoredVals, e \in {0, 1} : Load(c, K, v, e)
    BY <1>7, LoadRefined, StoredTyped DEF Abstract!Next
<1>8. CASE CleanBegin(c, "idle")
    BY <1>8, Unseen DEF CleanBegin
<1>9. CASE \E h \in Handlers : OnEvicted(c, h)
    BY <1>9, Unseen DEF OnEvicted
<1>. QED
    BY <1>1, <1>2, <1>3, <1>4, <1>5, <1>6, <1>7, <1>8, <1>9 DEF Call

LEMMA StoreRefined ==
    ASSUME Typed, NEW c \in Clients, SetStore(c) \/ AddStore(c)
    PROVE  Abstract!Next
<1>. TypeOK
    BY DEF Typed
<1>1. arg[c] \in Stores
    BY DEF SetStore, AddStore, Typed, TypeOK, Placed
<1>. DEFINE k == arg[c].key
<1>2. k \in Keys /\ arg[c].item \in Items /\ arg[c].ttl \in Int
    BY <1>1 DEF Stores
<1>3. CASE SetStore(c)
    <2>1. /\ items' = [items EXCEPT ![k] = arg[c].item]
          /\ now' = now /\ Answer(c, "ok", NoVal)
        BY <1>3 DEF SetStore
    <2>2. Abstract!Store(c, k, "ok")
        BY <1>2, <2>1, StoredRefined
    <2>. QED  BY <1>2, <2>2 DEF Abstract!Put, Abstract!Next
<1>4. CASE AddStore(c) /\ Live(k)
    <2>1. items' = items /\ now' = now /\ Answer(c, "exists", NoVal)
        BY <1>4 DEF AddStore
    <2>2. View[k] # NoItem
        BY <1>2, <1>4, LiveSeen
    <2>3. Abstract!Fail(c, "exists")
        BY <2>1, FailRefined
    <2>4. Abstract!Add(c, k)
        BY <2>2, <2>3 DEF Abstract!Add
    <2>. QED  BY <1>2, <2>4 DEF Abstract!Next
<1>5. CASE AddStore(c) /\ ~Live(k)
    <2>. DEFINE it == [arg[c].item EXCEPT !.exp = Expiration(arg[c].ttl)]
    <2>1. /\ items' = [items EXCEPT ![k] = it]
          /\ now' = now /\ Answer(c, "added", NoVal)
        BY <1>5 DEF AddStore
    <2>2. Expiration(arg[c].ttl) \in Nat
        BY <1>2, CacheAssumption DEF Expiration, Duration, TypeOK
    <2>3. it \in Items
        BY <1>2, <2>2 DEF Items
    <2>. HIDE DEF it
    <2>4. Abstract!Store(c, k, "added")
        BY <1>2, <2>1, <2>3, StoredRefined
    <2>5. View[k] = NoItem
        BY <1>2, <1>5, LiveSeen
    <2>6. Abstract!Add(c, k)
        BY <2>4, <2>5 DEF Abstract!Add
    <2>. QED  BY <1>2, <2>6 DEF Abstract!Next
<1>. QED  BY <1>3, <1>4, <1>5

LEMMA StepRefined ==
    ASSUME Typed, [Next]_vars
    PROVE  [Abstract!Next]_(Abstract!vars)
<1>. TypeOK
    BY DEF Typed
<1>1. CASE \E c \in Clients : Call(c)
    BY <1>1, CallRefined
<1>2. CASE \E p \in Procs : Proceed(p)
    <2>1. PICK p \in Procs : Proceed(p)
        BY <1>2
    <2>2. CASE Report(p)
        BY <2>2, Unseen DEF Report
    <2>3. CASE DeleteExpired(p)
        BY <2>3, CleaningUnseen
    <2>4. CASE p \in Clients /\ (SetStore(p) \/ AddStore(p))
        BY <2>4, StoreRefined
    <2>. QED  BY <2>1, <2>2, <2>3, <2>4 DEF Proceed
<1>3. CASE JanitorTick
    BY <1>3, Unseen DEF JanitorTick, CleanBegin
<1>4. CASE JanitorSignal
    BY <1>4, Unseen DEF JanitorSignal, CleanBegin
<1>5. CASE Tick
    BY <1>5, TickRefined DEF Abstract!Next
<1>6. CASE UNCHANGED vars
    BY <1>6, Unseen DEF vars
<1>. QED
    BY <1>1, <1>2, <1>3, <1>4, <1>5, <1>6 DEF Next

\* For every number of goroutines and keys the cache implements the map whose
\* entries vanish when they expire: cleaning, with whatever old reading of
\* the clock, the janitor and the callbacks cannot be seen by a caller.
THEOREM ViewCorrect == Spec => RefinesTTLMap
<1>1. Init => Abstract!Init
    <2>. SUFFICES ASSUME Init PROVE Abstract!Init
        OBVIOUS
    <2>1. View = [k \in Keys |-> NoItem]
        BY ViewIs DEF Init, Entry
    <2>. QED  BY <2>1 DEF Init, Abstract!Init
<1>2. Typed /\ [Next]_vars => [Abstract!Next]_(Abstract!vars)
    BY StepRefined
<1>. QED
    BY <1>1, <1>2, TypedCorrect, PTL DEF Spec, RefinesTTLMap, Abstract!Spec

=============================================================================
