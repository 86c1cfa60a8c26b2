----------------------------- MODULE MemoryCache ----------------------------
(***************************************************************************)
(* The in-memory cache (utils/memorycacher/cache.go): a map with           *)
(* expirations, an item limit and a janitor goroutine.                     *)
(*                                                                         *)
(* Every section under c.mu is one action. What the code does outside the  *)
(* lock is a step of its own: the limit test of Set and Add comes before   *)
(* the store, DeleteExpired reads the clock before it locks, and the       *)
(* eviction callback is called after the unlock.                           *)
(***************************************************************************)
EXTENDS Integers, FiniteSets

CONSTANTS
    Clients,     \* goroutines that use the cache
    Janitor,     \* the janitor goroutine
    Keys,
    NoItem,      \* no entry in the map
    Ops,         \* the operations the clients use
    StoredTypes, \* the types of the values they store
    TTLs,        \* durations the clients pass, in clock ticks
    DefaultTTL,  \* New's defaultExpiration
    MaxItems,    \* New's maxItemsCount
    HasJanitor,  \* New's cleanupInterval > 0
    Handlers,    \* what the application passes to OnEvicted; "nil" disables
    Half,        \* 2^(w-1), for integer types of w bits
    MaxClock,    \* bound: last value of the clock
    MaxWrites    \* bound: writes

AllOps == {"set", "add", "replace", "get", "incr", "decr", "delete", "clean",
           "flush", "load", "onevicted"}

\* Values: a signed and an unsigned integer of w bits, a float (that does not
\* wrap) and a value that is not a number.
Vals == [t : {"uint"}, n : 0..(2 * Half - 1)]
          \cup [t : {"int"}, n : (-Half)..(Half - 1)]
          \cup [t : {"float", "string"}, n : Int]
NoVal == [t |-> "string", n |-> -1]

\* id tells apart the items stored under a key at different times.
Items == [val : Vals, exp : Nat, id : Nat]

\* What a Set or Add is about to store.
Stores == [key : Keys, ttl : Int, item : Items]

ASSUME CacheAssumption ==
    /\ Janitor \notin Clients /\ IsFiniteSet(Clients)
    /\ Ops \subseteq AllOps
    /\ StoredTypes \subseteq {"int", "uint", "float", "string"}
    /\ TTLs \subseteq Int /\ DefaultTTL \in Int
    /\ MaxItems \in Nat /\ Half \in Nat \ {0}
    /\ HasJanitor \in BOOLEAN
    /\ Handlers \subseteq {"nil", "f"}
    /\ MaxClock \in Nat /\ MaxWrites \in Nat
    /\ NoItem \notin Items \cup Stores \cup [val : Vals, exp : Nat]

VARIABLES
    items,      \* c.items
    handler,    \* c.onEvicted
    lastClean,  \* c.lastCleanTime
    pc,         \* where each goroutine is
    arg,        \* the key and item a Set or Add is about to store
    cleanNow,   \* the time DeleteExpired read
    evicted,    \* deleted and not yet reported by a goroutine: <<key, id>>
    ret,        \* what the last operation of a client answered
    writes,     \* writes so far: the identity of the next item
    removed,    \* HISTORY: items deleted with a handler set
    reported,   \* HISTORY: calls of the handler, as a set of [id, n]
    now         \* time.Now()

vars == <<items, handler, lastClean, pc, arg, cleanNow, evicted, ret,
          writes, removed, reported, now>>

Procs == Clients \cup {Janitor}

Present == {k \in Keys : items[k] # NoItem}

Init ==
    /\ items = [k \in Keys |-> NoItem]
    /\ handler = "nil"
    /\ lastClean = 0
    /\ pc = [p \in Procs |-> "idle"]
    /\ arg = [c \in Clients |-> NoItem]
    /\ cleanNow = [p \in Procs |-> 0]
    /\ evicted = [p \in Procs |-> {}]
    /\ ret = [c \in Clients |-> [st |-> "none", val |-> NoVal]]
    /\ writes = 0
    /\ removed = {}
    /\ reported = {}
    /\ now = 0

-----------------------------------------------------------------------------
(* Expiration *)

\* now > e, for an item that expires at all.
ExpiredAt(it, t) == it.exp > 0 /\ t > it.exp

\* c.get: found and not expired
Live(k) == items[k] # NoItem /\ ~ExpiredAt(items[k], now)

\* newCache makes a default of 0 mean "never".
Duration(d) == IF d # 0 THEN d ELSE IF DefaultTTL = 0 THEN -1 ELSE DefaultTTL

Expiration(d) == IF Duration(d) > 0 THEN now + Duration(d) ELSE 0

Item(v, d) == [val |-> v, exp |-> Expiration(d), id |-> writes]

Answer(c, st, v) == ret' = [ret EXCEPT ![c] = [st |-> st, val |-> v]]

\* A client begins operation o.
Begin(c, o) == o \in Ops /\ pc[c] = "idle"

Write == writes < MaxWrites /\ writes' = writes + 1

-----------------------------------------------------------------------------
(* Set, Add, Replace, Get *)

IsReachMaxItemsCount == Cardinality(Present) >= MaxItems

\* ShoudClean: the send succeeds if the janitor waits in its select. A cache
\* without a janitor has a nil c.janitor, and reading its channel panics.
ShoudClean(c) ==
    IF ~HasJanitor
    THEN pc' = [pc EXCEPT ![c] = "panic"]
    ELSE pc' = IF pc[Janitor] = "idle" THEN [pc EXCEPT ![Janitor] = "signal"] ELSE pc

\* Mutant: the limit is not tested.
CheckNothing(c, k, v, d, next) ==
    /\ Write
    /\ pc' = [pc EXCEPT ![c] = next]
    /\ arg' = [arg EXCEPT ![c] = [key |-> k, ttl |-> d, item |-> Item(v, d)]]
    /\ UNCHANGED <<items, handler, lastClean, cleanNow, evicted, ret,
                   removed, reported, now>>

\* The test of Set and Add; Set has computed the expiration when it locks.
Check(c, k, v, d, next) ==
    /\ IF IsReachMaxItemsCount
       THEN /\ ShoudClean(c)
            /\ Answer(c, "full", NoVal)
            /\ UNCHANGED <<writes, arg>>
       ELSE /\ Write
            /\ pc' = [pc EXCEPT ![c] = next]
            /\ arg' = [arg EXCEPT ![c] = [key |-> k, ttl |-> d, item |-> Item(v, d)]]
            /\ UNCHANGED ret
    /\ UNCHANGED <<items, handler, lastClean, cleanNow, evicted, removed, reported, now>>

SetCheck(c, k, v, d) == Begin(c, "set") /\ Check(c, k, v, d, "store")

SetStore(c) ==
    /\ pc[c] = "store"
    /\ items' = [items EXCEPT ![arg[c].key] = arg[c].item]
    /\ pc' = [pc EXCEPT ![c] = "idle"]
    /\ arg' = [arg EXCEPT ![c] = NoItem]
    /\ Answer(c, "ok", NoVal)
    /\ UNCHANGED <<handler, lastClean, cleanNow, evicted, writes,
                   removed, reported, now>>

AddCheck(c, k, v, d) == Begin(c, "add") /\ Check(c, k, v, d, "add")

\* Mutant: an existing item is overwritten.
AddAnyway(c) ==
    /\ pc[c] = "add"
    /\ items' = [items EXCEPT ![arg[c].key] =
                   [arg[c].item EXCEPT !.exp = Expiration(arg[c].ttl)]]
    /\ Answer(c, "added", NoVal)
    /\ pc' = [pc EXCEPT ![c] = "idle"]
    /\ arg' = [arg EXCEPT ![c] = NoItem]
    /\ UNCHANGED <<handler, lastClean, cleanNow, evicted, writes,
                   removed, reported, now>>

\* get and set under the lock; here the expiration counts from the store.
AddStore(c) ==
    /\ pc[c] = "add"
    /\ IF Live(arg[c].key)
       THEN /\ Answer(c, "exists", NoVal)
            /\ UNCHANGED items
       ELSE /\ items' = [items EXCEPT ![arg[c].key] =
                           [arg[c].item EXCEPT !.exp = Expiration(arg[c].ttl)]]
            /\ Answer(c, "added", NoVal)
    /\ pc' = [pc EXCEPT ![c] = "idle"]
    /\ arg' = [arg EXCEPT ![c] = NoItem]
    /\ UNCHANGED <<handler, lastClean, cleanNow, evicted, writes,
                   removed, reported, now>>

\* Operations that are one section under the lock and touch items only.
Simple(c, o, new, st, v) ==
    /\ Begin(c, o)
    /\ items' = new
    /\ Answer(c, st, v)
    /\ UNCHANGED <<handler, lastClean, pc, arg, cleanNow, evicted, removed, reported, now>>

Replace(c, k, v, d) ==
    /\ Write
    /\ IF Live(k) THEN Simple(c, "replace", [items EXCEPT ![k] = Item(v, d)], "replaced", NoVal)
                  ELSE Simple(c, "replace", items, "missing", NoVal)

\* Get and GetWithExpiration.
Get(c, k) ==
    /\ IF Live(k) THEN Simple(c, "get", items, "ok", items[k].val)
                  ELSE Simple(c, "get", items, "missing", NoVal)
    /\ UNCHANGED writes

Flush(c) ==
    /\ Simple(c, "flush", [k \in Keys |-> NoItem], "ok", NoVal)
    /\ UNCHANGED writes

\* Load of a file that holds one item for each of some keys: only keys that
\* are missing or expired take it, whatever the limit.
Load(c, K, v, e) ==
    /\ Write
    /\ Simple(c, "load",
              [k \in Keys |-> IF k \in K /\ ~Live(k)
                              THEN [val |-> v, exp |-> e, id |-> writes] ELSE items[k]],
              "ok", NoVal)

-----------------------------------------------------------------------------
(* Increment and Decrement, generic and typed *)

\* Mutant: the arithmetic is not that of the type.
WrapNever(t, x) == x

\* Two's complement arithmetic.
Wrap(t, x) ==
    CASE t = "uint" -> x % (2 * Half)
      [] t = "int" -> ((x + Half) % (2 * Half)) - Half
      [] OTHER -> x

\* Mutant: an increment starts a new life for the item.
ModifyRenews(c, o, k, T, n) ==
    LET old == items[k].val
        new == [old EXCEPT !.n = Wrap(old.t, old.n + n)]
    IN  /\ Write
        /\ IF ~Live(k) THEN Simple(c, o, items, "missing", NoVal)
           ELSE IF old.t \notin T THEN Simple(c, o, items, "type", NoVal)
           ELSE Simple(c, o, [items EXCEPT ![k] = Item(new, 0)], "ok", new)

\* Change the value of k by n if its type is one of T.
Modify(c, o, k, T, n) ==
    LET old == items[k].val
        new == [old EXCEPT !.n = Wrap(old.t, old.n + n)]
    IN  /\ Write
        /\ IF ~Live(k) THEN Simple(c, o, items, "missing", NoVal)
           ELSE IF old.t \notin T THEN Simple(c, o, items, "type", NoVal)
           ELSE Simple(c, o, [items EXCEPT ![k].val = new], "ok", new)

Increment(c, k, n)         == Modify(c, "incr", k, {"int", "uint", "float"}, n)
IncrementFloat(c, k, n)    == Modify(c, "incr", k, {"float"}, n)
IncrementSigned(c, k, n)   == Modify(c, "incr", k, {"int"}, n)
IncrementUnsigned(c, k, n) == Modify(c, "incr", k, {"uint"}, n)
Decrement(c, k, n)         == Modify(c, "decr", k, {"int", "uint", "float"}, -n)
DecrementFloat(c, k, n)    == Modify(c, "decr", k, {"float"}, -n)
DecrementSigned(c, k, n)   == Modify(c, "decr", k, {"int"}, -n)
DecrementUnsigned(c, k, n) == Modify(c, "decr", k, {"uint"}, -n)

-----------------------------------------------------------------------------
(* Delete, DeleteExpired and the eviction callback *)

\* Mutant: with a handler set the items are reported and not deleted.
DeleteKeysKeeps(p, K) ==
    LET gone == IF handler = "nil" THEN {} ELSE {<<k, items[k].id>> : k \in K \cap Present}
    IN  /\ items' = [k \in Keys |-> IF k \in K /\ gone = {} THEN NoItem ELSE items[k]]
        /\ evicted' = [evicted EXCEPT ![p] = gone]
        /\ removed' = removed \cup gone
        /\ pc' = [pc EXCEPT ![p] = IF gone = {} THEN "idle" ELSE "report"]

\* c.delete of the keys K under the lock, on behalf of p; a handler, if there
\* is one, will hear of them after the unlock.
DeleteKeys(p, K) ==
    LET gone == IF handler = "nil" THEN {} ELSE {<<k, items[k].id>> : k \in K \cap Present}
    IN  /\ items' = [k \in Keys |-> IF k \in K THEN NoItem ELSE items[k]]
        /\ evicted' = [evicted EXCEPT ![p] = gone]
        /\ removed' = removed \cup gone
        /\ pc' = [pc EXCEPT ![p] = IF gone = {} THEN "idle" ELSE "report"]

Delete(c, k) ==
    /\ Begin(c, "delete")
    /\ DeleteKeys(c, {k})
    /\ Answer(c, "ok", NoVal)
    /\ UNCHANGED <<handler, lastClean, arg, cleanNow, writes, reported, now>>

\* c.onEvicted is read again, without the lock; the handlers of a map are
\* called in no particular order.
Report(p) ==
    /\ pc[p] = "report"
    /\ IF handler = "nil"
       THEN /\ pc' = [pc EXCEPT ![p] = "panic"]
            /\ UNCHANGED <<evicted, reported>>
       ELSE \E i \in evicted[p] :
              /\ reported' = reported \cup
                   {[id |-> i, n |-> Cardinality({r \in reported : r.id = i})]}
              /\ evicted' = [evicted EXCEPT ![p] = @ \ {i}]
              /\ pc' = [pc EXCEPT ![p] = IF evicted[p] = {i} THEN "idle" ELSE "report"]
    /\ UNCHANGED <<items, handler, lastClean, arg, cleanNow, ret, writes, removed, now>>

\* DeleteExpired reads the clock, then locks.
CleanBegin(p, from) ==
    /\ pc[p] = from
    /\ cleanNow' = [cleanNow EXCEPT ![p] = now]
    /\ pc' = [pc EXCEPT ![p] = "clean"]
    /\ UNCHANGED <<items, handler, lastClean, arg, evicted, ret, writes,
                   removed, reported, now>>

DeleteExpired(p) ==
    /\ pc[p] = "clean"
    /\ DeleteKeys(p, {k \in Present : ExpiredAt(items[k], cleanNow[p])})
    /\ lastClean' = cleanNow[p]
    /\ cleanNow' = [cleanNow EXCEPT ![p] = 0]
    /\ UNCHANGED <<handler, arg, ret, writes, reported, now>>

OnEvicted(c, h) ==
    /\ Begin(c, "onevicted")
    /\ handler' = h
    /\ UNCHANGED <<items, lastClean, pc, arg, cleanNow, evicted, ret, writes,
                   removed, reported, now>>

-----------------------------------------------------------------------------
(* The janitor: a ticker, and the signal of ShoudClean, which is ignored   *)
(* within a second (one tick of the clock) of the last cleaning.           *)

\* Mutant: the ticker leaves a full cache to the signal of the next writer.
JanitorLazy == HasJanitor /\ ~IsReachMaxItemsCount /\ CleanBegin(Janitor, "idle")

JanitorTick == HasJanitor /\ CleanBegin(Janitor, "idle")

JanitorSignal ==
    /\ pc[Janitor] = "signal"
    /\ IF lastClean + 1 < now
       THEN CleanBegin(Janitor, "signal")
       ELSE /\ pc' = [pc EXCEPT ![Janitor] = "idle"]
            /\ UNCHANGED <<items, handler, lastClean, arg, cleanNow, evicted, ret,
                           writes, removed, reported, now>>

Tick ==
    /\ now < MaxClock
    /\ now' = now + 1
    /\ UNCHANGED <<items, handler, lastClean, pc, arg, cleanNow, evicted, ret,
                   writes, removed, reported>>

-----------------------------------------------------------------------------
\* The values the clients store: the largest of an integer type.
StoredVals ==
    {v \in {[t |-> "uint", n |-> 2 * Half - 1], [t |-> "int", n |-> Half - 1],
            [t |-> "float", n |-> 0], [t |-> "string", n |-> 0]} : v.t \in StoredTypes}

Call(c) ==
    \/ \E k \in Keys :
         \/ \E v \in StoredVals, d \in TTLs :
              SetCheck(c, k, v, d) \/ AddCheck(c, k, v, d) \/ Replace(c, k, v, d)
         \/ Get(c, k)
         \/ Delete(c, k)
         \/ Increment(c, k, 1) \/ IncrementFloat(c, k, 1)
         \/ IncrementSigned(c, k, 1) \/ IncrementUnsigned(c, k, 1)
         \/ Decrement(c, k, 1) \/ DecrementFloat(c, k, 1)
         \/ DecrementSigned(c, k, 1) \/ DecrementUnsigned(c, k, 1)
    \/ Flush(c)
    \/ \E K \in SUBSET Keys, v \in StoredVals, e \in {0, 1} : Load(c, K, v, e)
    \/ Begin(c, "clean") /\ CleanBegin(c, "idle")
    \/ \E h \in Handlers : OnEvicted(c, h)

Proceed(p) == Report(p) \/ DeleteExpired(p) \/ (p \in Clients /\ (SetStore(p) \/ AddStore(p)))

\* A panic ends the process.
Running == \A p \in Procs : pc[p] # "panic"

Next ==
    /\ Running
    /\ \/ \E c \in Clients : Call(c)
       \/ \E p \in Procs : Proceed(p)
       \/ JanitorTick \/ JanitorSignal
       \/ Tick

Spec == Init /\ [][Next]_vars

\* The janitor's ticker fires again and again, and goroutines run.
FairSpec ==
    /\ Spec
    /\ SF_vars(Running /\ JanitorTick)
    /\ WF_vars(Running /\ JanitorSignal)
    /\ \A p \in Procs : WF_vars(Running /\ Proceed(p))

-----------------------------------------------------------------------------
(* Properties *)

\* The variables keep their Go types; integers stay within their width.
TypeOK ==
    /\ items \in [Keys -> Items \cup {NoItem}]
    /\ handler \in {"nil", "f"}
    /\ lastClean \in Nat /\ writes \in Nat /\ now \in Nat
    /\ pc \in [Procs -> {"idle", "store", "add", "report", "clean", "signal", "panic"}]
    /\ arg \in [Clients -> Stores \cup {NoItem}]
    /\ cleanNow \in [Procs -> Nat]
    /\ evicted \in [Procs -> SUBSET (Keys \X Nat)]
    /\ ret \in [Clients -> [st : {"none", "ok", "added", "replaced", "full", "exists",
                               "missing", "type"}, val : Vals]]
    /\ removed \subseteq Keys \X Nat
    /\ reported \subseteq [id : Keys \X Nat, n : Nat]

\* Set and Add test the limit before they lock, so concurrent writers pass
\* it together; the map outgrows maxItemsCount by less than the number of
\* goroutines that write, however long the cache runs.
LimitOvershoot ==
    Cardinality(Present) + Cardinality({c \in Clients : pc[c] \in {"store", "add"}})
        <= (IF MaxItems = 0 THEN 0 ELSE MaxItems - 1) + Cardinality(Clients)

\* Every item that Delete or DeleteExpired takes out of the map with a handler
\* set is reported once, or is about to be, unless the handler is taken away
\* meanwhile and the process panics: two cleanings, or a cleaning and a Delete,
\* never report the same item, and none is forgotten.
ReportedOnce ==
    /\ \A r \in reported : r.n = 0
    /\ removed = {r.id : r \in reported} \cup UNION {evicted[p] : p \in Procs}
    /\ \A p \in Procs : evicted[p] \cap {r.id : r \in reported} = {}

\* The map the callers see: entries that have expired are not there.
View == [k \in Keys |-> IF Live(k) THEN [val |-> items[k].val, exp |-> items[k].exp]
                                  ELSE NoItem]

Abstract == INSTANCE TTLMap WITH m <- View, out <- ret, NoEntry <- NoItem

\* The cache implements a map whose entries vanish when they expire: no
\* cleaning, with whatever old clock reading, takes away an entry that Get
\* would still return, Add never overwrites one, and no operation brings an
\* expired one back.
RefinesTTLMap == Abstract!Spec

\* With a janitor every expired item leaves the map, be the signals of a
\* full cache dropped or ignored.
ExpiredCollected ==
    \A k \in Keys : items[k] # NoItem /\ ~Live(k) ~> items[k] = NoItem \/ Live(k)
=============================================================================
