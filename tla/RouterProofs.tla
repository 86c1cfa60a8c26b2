---------------------------- MODULE RouterProofs ----------------------------
(***************************************************************************)
(* Proofs about the gateways, for any services, relations, requests and    *)
(* chains, any lifetime of a cached route and any time-out of redis: a     *)
(* request is forwarded only where redis led its route to, hop by hop, not *)
(* longer ago than the cache and the time-outs allow.                      *)
(***************************************************************************)
EXTENDS Router, SequenceTheorems, TLAPS

-----------------------------------------------------------------------------
(* What redis held, and when *)

Edges == Apps \X Names
Past  == [edge : Edges, rel : Relations, t : Int]

\* HeldSince, with the relations rl and their history lf as parameters.
Held(rl, lf, e, r, t) == rl[e] = r \/ \E x \in lf : x.edge = e /\ x.rel = r /\ x.t >= t

\* What was held until the time t is still known to have been held.
Later(rl, lf, t, rl2, lf2) ==
    \A e \in Edges : \A r \in Relations : \A s \in Int :
        s <= t /\ Held(rl, lf, e, r, s) => Held(rl2, lf2, e, r, s)

\* A look-up that is sent at the time T follows look-ups of redis that led
\* from the caller of q over i - 1 hops to k, and waits for none of them
\* longer than the time-out.
Walked(rl, lf, q, i, k, T) ==
    \E w \in [1..(i - 1) -> Relations], f \in [1..i -> Apps] :
        /\ f[1] = q.from /\ f[i] = k
        /\ \A j \in 1..(i - 1) :
              /\ Held(rl, lf, <<f[j], q.stack[j]>>, w[j], T - (i - j) * ReadTimeout)
              /\ f[j + 1] = w[j].app

\* The place i of the call stack is reached with the caller k.
Reached(rl, lf, q, i, k, T) ==
    /\ q \in Requests /\ i \in 1..Len(q.stack) /\ k \in Apps
    /\ \/ q.form = "direct" /\ i = Len(q.stack) /\ k = q.from
       \/ q.form = "chain" /\ Walked(rl, lf, q, i, k, T)

\* Redis has led q to the target r, by a last look-up sent at the time T.
Finished(rl, lf, q, r, T) ==
    \E k \in Apps : /\ Reached(rl, lf, q, Len(q.stack), k, T)
                    /\ Held(rl, lf, <<k, q.stack[Len(q.stack)]>>, r, T)

-----------------------------------------------------------------------------
(* Lemmas about what redis held *)

\* An earlier time is easier to satisfy.
LEMMA HeldEarlier ==
    ASSUME NEW rl, NEW lf \in SUBSET Past, NEW e, NEW r, NEW t \in Int, NEW s \in Int, s <= t,
           Held(rl, lf, e, r, t)
    PROVE  Held(rl, lf, e, r, s)
<1>1. CASE rl[e] = r
    BY <1>1 DEF Held
<1>2. CASE rl[e] # r
    <2>1. PICK x \in lf : x.edge = e /\ x.rel = r /\ x.t >= t
        BY <1>2 DEF Held
    <2>2. x.t \in Int
        BY DEF Past
    <2>3. x.t >= s
        BY <2>1, <2>2
    <2> QED
        BY <2>1, <2>3 DEF Held
<1> QED
    BY <1>1, <1>2

\* What is in redis, and what was replaced, is a relation.
LEMMA HeldTyped ==
    ASSUME NEW rl \in [Edges -> Relations], NEW lf \in SUBSET Past, NEW e \in Edges, NEW r, NEW t,
           Held(rl, lf, e, r, t)
    PROVE  r \in Relations
BY DEF Held, Past

\* A request has a stack of names.
LEMMA RequestIs ==
    ASSUME NEW q \in Requests
    PROVE  /\ q.form \in Forms /\ q.route \in Routes /\ q.from \in Apps
           /\ q.stack \in Seq(Names) /\ Len(q.stack) \in Nat
           /\ \A i \in 1..Len(q.stack) : q.stack[i] \in Names
           /\ q.form \in {"direct", "chain"} => Len(q.stack) >= 1
<1>1. q \in [form : Forms, route : Routes, from : Apps, stack : Seq(Names)]
    BY RouterAssumption
<1>2. q.stack \in Seq(Names)
    BY <1>1
<1>3. Len(q.stack) \in Nat /\ \A i \in 1..Len(q.stack) : q.stack[i] \in Names
    BY <1>2, LenProperties, ElementOfSeq
<1>4. q.form \in {"direct", "chain"} => q.stack # <<>>
    BY RouterAssumption
<1>5. q.stack # <<>> => Len(q.stack) >= 1
    BY <1>2, <1>3, EmptySeq
<1> QED
    BY <1>1, <1>2, <1>3, <1>4, <1>5

\* A walk stays a walk while relations are replaced, seen from an earlier
\* time.
LEMMA ReachedLater ==
    ASSUME NEW rl \in [Edges -> Relations], NEW lf \in SUBSET Past,
           NEW rl2, NEW lf2 \in SUBSET Past, NEW t \in Int, Later(rl, lf, t, rl2, lf2),
           NEW T \in Int, NEW T2 \in Int, T <= t, T2 <= T,
           NEW q, NEW i, NEW k, Reached(rl, lf, q, i, k, T)
    PROVE  Reached(rl2, lf2, q, i, k, T2)
<1>1. q \in Requests /\ i \in 1..Len(q.stack) /\ k \in Apps
    BY DEF Reached
<1>2. CASE q.form = "direct"
    BY <1>1, <1>2 DEF Reached
<1>3. CASE q.form # "direct"
    <2>1. q.form = "chain" /\ Walked(rl, lf, q, i, k, T)
        BY <1>3 DEF Reached
    <2>2. PICK w \in [1..(i - 1) -> Relations], f \in [1..i -> Apps] :
             /\ f[1] = q.from /\ f[i] = k
             /\ \A j \in 1..(i - 1) :
                   /\ Held(rl, lf, <<f[j], q.stack[j]>>, w[j], T - (i - j) * ReadTimeout)
                   /\ f[j + 1] = w[j].app
        BY <2>1 DEF Walked
    <2>3. ASSUME NEW j \in 1..(i - 1)
          PROVE  Held(rl2, lf2, <<f[j], q.stack[j]>>, w[j], T2 - (i - j) * ReadTimeout)
        <3> DEFINE d == (i - j) * ReadTimeout
        <3>1. i \in Int /\ j \in 1..i /\ j \in 1..Len(q.stack) /\ i - j \in Nat
            BY <1>1, RequestIs
        <3>2. d \in Nat
            BY <3>1, RouterAssumption
        <3>3. <<f[j], q.stack[j]>> \in Edges /\ w[j] \in Relations
            BY <1>1, <3>1, RequestIs DEF Edges
        <3>4. Held(rl, lf, <<f[j], q.stack[j]>>, w[j], T - d)
            BY <2>2
        <3> HIDE DEF d
        <3>5. T - d \in Int /\ T2 - d \in Int /\ T - d <= t /\ T2 - d <= T - d
            BY <3>2
        <3>6. Held(rl2, lf2, <<f[j], q.stack[j]>>, w[j], T - d)
            BY <3>3, <3>4, <3>5 DEF Later
        <3>7. Held(rl2, lf2, <<f[j], q.stack[j]>>, w[j], T2 - d)
            BY <3>5, <3>6, HeldEarlier
        <3> QED
            BY <3>7 DEF d
    <2>4. Walked(rl2, lf2, q, i, k, T2)
        BY <2>2, <2>3 DEF Walked
    <2> QED
        BY <1>1, <2>1, <2>4 DEF Reached
<1> QED
    BY <1>2, <1>3

\* The same of a walk that is finished.
LEMMA FinishedLater ==
    ASSUME NEW rl \in [Edges -> Relations], NEW lf \in SUBSET Past,
           NEW rl2, NEW lf2 \in SUBSET Past, NEW t \in Int, Later(rl, lf, t, rl2, lf2),
           NEW T \in Int, NEW T2 \in Int, T <= t, T2 <= T,
           NEW q, NEW r, Finished(rl, lf, q, r, T)
    PROVE  Finished(rl2, lf2, q, r, T2)
<1>1. PICK k \in Apps : /\ Reached(rl, lf, q, Len(q.stack), k, T)
                        /\ Held(rl, lf, <<k, q.stack[Len(q.stack)]>>, r, T)
    BY DEF Finished
<1>2. Reached(rl2, lf2, q, Len(q.stack), k, T2)
    BY <1>1, ReachedLater
<1>3. <<k, q.stack[Len(q.stack)]>> \in Edges
    BY <1>1, RequestIs DEF Edges, Reached
<1>4. r \in Relations
    BY <1>1, <1>3, HeldTyped
<1>5. Held(rl2, lf2, <<k, q.stack[Len(q.stack)]>>, r, T)
    BY <1>1, <1>3, <1>4 DEF Later
<1>6. Held(rl2, lf2, <<k, q.stack[Len(q.stack)]>>, r, T2)
    BY <1>5, HeldEarlier
<1> QED
    BY <1>2, <1>6 DEF Finished

\* Nothing changes.
LEMMA LaterSame ==
    ASSUME NEW rl, NEW lf, NEW t
    PROVE  Later(rl, lf, t, rl, lf)
BY DEF Later

\* An answer of redis leads to the next place of the chain, if the next
\* look-up is sent before the time-out.
LEMMA NextHop ==
    ASSUME NEW rl, NEW lf \in SUBSET Past, NEW q, NEW i, NEW k, NEW T \in Int, NEW r \in Relations,
           Reached(rl, lf, q, i, k, T), q.form = "chain", i # Len(q.stack),
           Held(rl, lf, <<k, q.stack[i]>>, r, T), r.app \in Apps,
           NEW T2 \in Int, T2 - ReadTimeout <= T
    PROVE  Reached(rl, lf, q, i + 1, r.app, T2)
<1>1. q \in Requests /\ i \in 1..Len(q.stack) /\ k \in Apps /\ Walked(rl, lf, q, i, k, T)
    BY DEF Reached
<1>2. PICK w \in [1..(i - 1) -> Relations], f \in [1..i -> Apps] :
         /\ f[1] = q.from /\ f[i] = k
         /\ \A j \in 1..(i - 1) :
               /\ Held(rl, lf, <<f[j], q.stack[j]>>, w[j], T - (i - j) * ReadTimeout)
               /\ f[j + 1] = w[j].app
    BY <1>1 DEF Walked
<1>0. ReadTimeout \in Nat
    BY RouterAssumption
<1>3. i \in Nat /\ i >= 1 /\ i + 1 \in 1..Len(q.stack) /\ (i + 1) - 1 = i
    BY <1>1, RequestIs
<1> DEFINE w2 == [j \in 1..i |-> IF j = i THEN r ELSE w[j]]
           f2 == [j \in 1..(i + 1) |-> IF j = i + 1 THEN r.app ELSE f[j]]
<1>4. w2 \in [1..i -> Relations] /\ f2 \in [1..(i + 1) -> Apps]
    BY <1>3
<1>5. /\ \A j \in 1..(i - 1) : w2[j] = w[j]
      /\ w2[i] = r
      /\ \A j \in 1..i : f2[j] = f[j]
      /\ f2[i + 1] = r.app
    BY <1>3
<1> HIDE DEF w2, f2
<1>6. f2[1] = q.from /\ f2[i] = k
    BY <1>2, <1>3, <1>5
<1>7. ASSUME NEW j \in 1..i
      PROVE  /\ Held(rl, lf, <<f2[j], q.stack[j]>>, w2[j], T2 - ((i + 1) - j) * ReadTimeout)
             /\ f2[j + 1] = w2[j].app
    <2>1. CASE j = i
        <3>1. ((i + 1) - j) * ReadTimeout = ReadTimeout
            BY <1>0, <1>3, <2>1
        <3>2. T2 - ReadTimeout \in Int
            BY <1>0
        <3>3. Held(rl, lf, <<k, q.stack[i]>>, r, T2 - ReadTimeout)
            BY <3>2, HeldEarlier
        <3> QED
            BY <1>5, <1>6, <2>1, <3>1, <3>3
    <2>2. CASE j # i
        <3> DEFINE d == (i - j) * ReadTimeout
        <3>1. j \in 1..(i - 1) /\ j + 1 \in 1..i /\ i - j \in Nat
            BY <1>3, <2>2
        <3>2. /\ d \in Nat
              /\ ((i + 1) - j) * ReadTimeout = d + ReadTimeout
            <4>1. (i + 1) - j = (i - j) + 1
                BY <1>3, <3>1
            <4>2. ((i - j) + 1) * ReadTimeout = (i - j) * ReadTimeout + ReadTimeout
                BY <1>0, <3>1
            <4>3. (i - j) * ReadTimeout \in Nat
                BY <1>0, <3>1
            <4> QED
                BY <4>1, <4>2, <4>3
        <3>3. Held(rl, lf, <<f[j], q.stack[j]>>, w[j], T - d) /\ f[j + 1] = w[j].app
            BY <1>2, <3>1
        <3> HIDE DEF d
        <3>4. /\ T - d \in Int /\ T2 - (d + ReadTimeout) \in Int
              /\ T2 - (d + ReadTimeout) <= T - d
            BY <1>0, <3>2
        <3>5. Held(rl, lf, <<f[j], q.stack[j]>>, w[j], T2 - (d + ReadTimeout))
            BY <3>3, <3>4, HeldEarlier
        <3> QED
            BY <1>5, <3>1, <3>2, <3>3, <3>5
    <2> QED
        BY <2>1, <2>2
<1>8. Walked(rl, lf, q, i + 1, r.app, T2)
    BY <1>3, <1>4, <1>5, <1>6, <1>7 DEF Walked
<1> QED
    BY <1>1, <1>3, <1>8 DEF Reached

\* A finished walk is what StaleBounded asks for.
LEMMA LedIs ==
    ASSUME rel \in [Edges -> Relations], left \in SUBSET Past, now \in Int,
           NEW q, NEW r, Finished(rel, left, q, r, now - TTL - ReadTimeout)
    PROVE  Led(q, r)
<1> DEFINE n == Len(q.stack)
           T == now - TTL - ReadTimeout
           known == {rel[e] : e \in Apps \X Names} \cup {x.rel : x \in left}
<1>1. PICK k \in Apps : /\ Reached(rel, left, q, n, k, T)
                        /\ Held(rel, left, <<k, q.stack[n]>>, r, T)
    BY DEF Finished
<1>2. q \in Requests /\ n \in Nat /\ n \in 1..n
    BY <1>1, RequestIs DEF Reached
<1>3. T \in Int /\ TTL \in Nat /\ ReadTimeout \in Nat
    BY RouterAssumption
<1>4. ASSUME NEW j \in 1..n
      PROVE  T - (n - j) * ReadTimeout = now - (TTL + (n - j + 1) * ReadTimeout)
    <2>1. n - j \in Int
        BY <1>2
    <2>2. (n - j + 1) * ReadTimeout = (n - j) * ReadTimeout + ReadTimeout
        BY <1>3, <2>1
    <2>3. (n - j) * ReadTimeout \in Int
        BY <1>3, <2>1
    <2> QED
        BY <1>3, <2>2, <2>3
<1>5. T = now - (TTL + (n - n + 1) * ReadTimeout)
    BY <1>2, <1>3
<1>6. \A e, x, t : Held(rel, left, e, x, t) <=> HeldSince(e, x, t)
    BY DEF Held, HeldSince
<1>7. CASE q.form = "direct"
    <2>1. k = q.from
        BY <1>1, <1>7 DEF Reached
    <2>2. HeldSince(<<q.from, q.stack[n]>>, r, now - (TTL + (n - n + 1) * ReadTimeout))
        BY <1>1, <1>5, <1>6, <2>1
    <2> QED
        BY <1>7, <2>2 DEF Led
<1>8. CASE q.form # "direct"
    <2>1. q.form = "chain" /\ Walked(rel, left, q, n, k, T)
        BY <1>1, <1>8 DEF Reached
    <2>2. PICK w \in [1..(n - 1) -> Relations], f \in [1..n -> Apps] :
             /\ f[1] = q.from /\ f[n] = k
             /\ \A j \in 1..(n - 1) :
                   /\ Held(rel, left, <<f[j], q.stack[j]>>, w[j], T - (n - j) * ReadTimeout)
                   /\ f[j + 1] = w[j].app
        BY <2>1 DEF Walked
    <2> DEFINE w2 == [j \in 1..n |-> IF j = n THEN r ELSE w[j]]
    <2>3. w2[n] = r /\ (\A j \in 1..(n - 1) : w2[j] = w[j]) /\ DOMAIN w2 = 1..n
        BY <1>2
    <2>4. ASSUME NEW j \in 1..n
          PROVE  HeldSince(<<f[j], q.stack[j]>>, w2[j], now - (TTL + (n - j + 1) * ReadTimeout))
        <3>1. CASE j = n
            BY <1>1, <1>5, <1>6, <2>2, <2>3, <3>1
        <3>2. CASE j # n
            <4>1. j \in 1..(n - 1)
                BY <1>2, <3>2
            <4> QED
                BY <1>4, <1>6, <2>2, <2>3, <4>1
        <3> QED
            BY <3>1, <3>2
    <2>5. \A j \in 1..n : w2[j] \in known
        <3> SUFFICES ASSUME NEW j \in 1..n
                     PROVE  w2[j] \in known
            OBVIOUS
        <3>1. <<f[j], q.stack[j]>> \in Apps \X Names
            BY <1>2, RequestIs
        <3>2. CASE rel[<<f[j], q.stack[j]>>] = w2[j]
            BY <3>1, <3>2
        <3>3. CASE rel[<<f[j], q.stack[j]>>] # w2[j]
            BY <2>4, <3>3 DEF HeldSince
        <3> QED
            BY <3>2, <3>3
    <2>6. w2 \in [1..n -> known]
        BY <2>3, <2>5
    <2>7. \A j \in 1..(n - 1) : f[j + 1] = w2[j].app
        BY <2>2, <2>3
    <2> HIDE DEF w2
    <2>8. \E ww \in [1..n -> known], ff \in [1..n -> Apps] :
             /\ ff[1] = q.from /\ ww[n] = r
             /\ \A j \in 1..n : HeldSince(<<ff[j], q.stack[j]>>, ww[j],
                                          now - (TTL + (n - j + 1) * ReadTimeout))
             /\ \A j \in 1..(n - 1) : ff[j + 1] = ww[j].app
        BY <2>2, <2>3, <2>4, <2>6, <2>7
    <2> QED
        BY <2>1, <2>8 DEF Led
<1> QED
    BY <1>7, <1>8

\* A chain starts at the caller, and so does a direct call.
LEMMA FirstHop ==
    ASSUME NEW rl, NEW lf, NEW q \in Requests, NEW T
    PROVE  /\ q.form = "chain" => Reached(rl, lf, q, 1, q.from, T)
           /\ q.form = "direct" => Reached(rl, lf, q, Len(q.stack), q.from, T)
<1>1. q.from \in Apps /\ Len(q.stack) \in Nat /\ (q.form \in {"direct", "chain"} => Len(q.stack) >= 1)
    BY RequestIs
<1>2. Walked(rl, lf, q, 1, q.from, T)
    <2> DEFINE w == [j \in 1..(1 - 1) |-> NoTarget]
               f == [j \in 1..1 |-> q.from]
    <2>1. 1..(1 - 1) = {} /\ 1 \in 1..1
        OBVIOUS
    <2>2. w \in [1..(1 - 1) -> Relations] /\ f \in [1..1 -> Apps] /\ f[1] = q.from
        BY <1>1, <2>1
    <2> HIDE DEF w, f
    <2>3. \A j \in 1..(1 - 1) :
             /\ Held(rl, lf, <<f[j], q.stack[j]>>, w[j], T - (1 - j) * ReadTimeout)
             /\ f[j + 1] = w[j].app
        BY <2>1
    <2> QED
        BY <2>2, <2>3 DEF Walked
<1> QED
    BY <1>1, <1>2 DEF Reached

-----------------------------------------------------------------------------
(* The inductive invariant *)

Places == {"idle", "cache", "token", "sent", "read", "store", "forward", "do"}

Cached == [val : Relations, exp : Int] \cup {NoEntry}

Answers == [st : {"none", "ok", "missing", "full"}, val : Relations]

Typed ==
    /\ rel \in [Edges -> Relations] /\ left \in SUBSET Past
    /\ cache \in [Routes -> Cached]
    /\ answer \in [Handlers -> Answers]
    /\ now \in Nat
    /\ pc \in [Handlers -> Places]
    /\ req \in [Handlers -> Requests \cup {NoRequest}]
    /\ key \in [Handlers -> Apps \cup {NoHost}]
    /\ hop \in [Handlers -> Nat]
    /\ age \in [Handlers -> Nat]
    /\ tgt \in [Handlers -> Relations]

\* Redis led a request of the route to the target r, at the time T.
Known(rl, lf, route, r, T) ==
    /\ r.host \in Hosts
    /\ \E q \in Requests : q.route = route /\ Finished(rl, lf, q, r, T)

\* The cache holds what redis led to when it was stored, or not longer before
\* than the time-out, and only until it expires.
CacheKnown(c, rl, lf, t) ==
    \A r \in Routes :
        c[r] # NoEntry =>
            /\ c[r].exp # 0 /\ t <= c[r].exp /\ c[r].exp <= t + TTL
            /\ Known(rl, lf, r, c[r].val, c[r].exp - TTL - ReadTimeout)

\* What a handler at the place p knows: q is its request, i and k the place
\* in the call stack and the caller it looks up, a the age of that look-up
\* and g the target.
Knows(rl, lf, t, p, q, k, i, a, g) ==
    /\ p \in {"cache", "token"} => q \in Requests
    /\ p \in {"sent", "read", "store"} => a <= ReadTimeout /\ Reached(rl, lf, q, i, k, t - a)
    /\ p \in {"read", "store"} => Held(rl, lf, <<k, q.stack[i]>>, g, t - a)
    /\ p = "store" => i = Len(q.stack) /\ g.host \in Hosts
    /\ p = "forward" => q \in Requests /\ Known(rl, lf, q.route, g, t - TTL - ReadTimeout)

HandlerKnows(h) == Knows(rel, left, now, pc[h], req[h], key[h], hop[h], age[h], tgt[h])

Inv ==
    /\ Typed
    /\ CacheKnown(cache, rel, left, now)
    /\ \A h \in Handlers : HandlerKnows(h)

LEMMA Constants ==
    /\ TTL \in Nat \ {0} /\ ReadTimeout \in Nat
    /\ InitRel \in [Edges -> Relations]
    /\ NewRel \subseteq Edges \X Relations
    /\ NoTarget \in Relations
    /\ NoRequest \notin Requests
BY RouterAssumption DEF Edges, Relations, NoTarget

LEMMA InitHolds == Init => Inv
<1> SUFFICES ASSUME Init PROVE Inv
    OBVIOUS
<1>1. Typed
    <2>1. rel \in [Edges -> Relations] /\ left \in SUBSET Past /\ now \in Nat
        BY Constants DEF Init, Cache!Init
    <2>2. cache \in [Routes -> Cached] /\ answer \in [Handlers -> Answers]
        <3>1. cache = [r \in Routes |-> NoEntry]
            BY DEF Init, Cache!Init
        <3>2. answer = [c \in Handlers |-> [st |-> "none", val |-> NoTarget]]
            BY DEF Init, Cache!Init
        <3>3. [st |-> "none", val |-> NoTarget] \in Answers
            BY Constants DEF Answers
        <3> QED
            BY <3>1, <3>2, <3>3 DEF Cached
    <2>3. /\ pc \in [Handlers -> Places] /\ hop \in [Handlers -> Nat] /\ age \in [Handlers -> Nat]
          /\ tgt \in [Handlers -> Relations]
          /\ req \in [Handlers -> Requests \cup {NoRequest}]
          /\ key \in [Handlers -> Apps \cup {NoHost}]
        BY Constants DEF Init, Places
    <2> QED
        BY <2>1, <2>2, <2>3 DEF Typed
<1>2. CacheKnown(cache, rel, left, now)
    BY DEF Init, Cache!Init, CacheKnown
<1>3. \A h \in Handlers : HandlerKnows(h)
    BY DEF Init, HandlerKnows, Knows
<1> QED
    BY <1>1, <1>2, <1>3 DEF Inv

-----------------------------------------------------------------------------
(* Relations are replaced *)

LEMMA KnownLater ==
    ASSUME NEW rl \in [Edges -> Relations], NEW lf \in SUBSET Past,
           NEW rl2, NEW lf2 \in SUBSET Past, NEW t \in Int, Later(rl, lf, t, rl2, lf2),
           NEW T \in Int, NEW T2 \in Int, T <= t, T2 <= T,
           NEW route, NEW r, Known(rl, lf, route, r, T)
    PROVE  Known(rl2, lf2, route, r, T2)
<1>1. PICK q \in Requests : q.route = route /\ Finished(rl, lf, q, r, T)
    BY DEF Known
<1>2. Finished(rl2, lf2, q, r, T2)
    BY <1>1, FinishedLater
<1> QED
    BY <1>1, <1>2 DEF Known

LEMMA KnowsLater ==
    ASSUME NEW rl \in [Edges -> Relations], NEW lf \in SUBSET Past,
           NEW rl2, NEW lf2 \in SUBSET Past, NEW t \in Int, Later(rl, lf, t, rl2, lf2),
           NEW p, NEW q, NEW k, NEW i, NEW a \in Nat, NEW g, Knows(rl, lf, t, p, q, k, i, a, g)
    PROVE  Knows(rl2, lf2, t, p, q, k, i, a, g)
<1>1. /\ t - a \in Int /\ t - a <= t
      /\ t - TTL - ReadTimeout \in Int /\ t - TTL - ReadTimeout <= t
    BY Constants
<1>2. ASSUME p \in {"sent", "read", "store"}
      PROVE  a <= ReadTimeout /\ Reached(rl2, lf2, q, i, k, t - a)
    <2>1. a <= ReadTimeout /\ Reached(rl, lf, q, i, k, t - a)
        BY <1>2 DEF Knows
    <2> QED
        BY <1>1, <2>1, ReachedLater
<1>3. ASSUME p \in {"read", "store"}
      PROVE  Held(rl2, lf2, <<k, q.stack[i]>>, g, t - a)
    <2>1. Held(rl, lf, <<k, q.stack[i]>>, g, t - a) /\ Reached(rl, lf, q, i, k, t - a)
        BY <1>3 DEF Knows
    <2>2. <<k, q.stack[i]>> \in Edges
        BY <2>1, RequestIs DEF Edges, Reached
    <2>3. g \in Relations
        BY <2>1, <2>2, HeldTyped
    <2> QED
        BY <1>1, <2>1, <2>2, <2>3 DEF Later
<1>4. ASSUME p = "forward"
      PROVE  q \in Requests /\ Known(rl2, lf2, q.route, g, t - TTL - ReadTimeout)
    <2>1. q \in Requests /\ Known(rl, lf, q.route, g, t - TTL - ReadTimeout)
        BY <1>4 DEF Knows
    <2> QED
        BY <1>1, <2>1, KnownLater
<1> QED
    BY <1>2, <1>3, <1>4 DEF Knows

LEMMA PublishHolds ==
    ASSUME Inv, NEW e \in Edges, NEW r \in Relations, Publish(e, r)
    PROVE  Inv'
<1>1. /\ rel \in [Edges -> Relations] /\ left \in SUBSET Past /\ now \in Nat
      /\ cache \in [Routes -> Cached] /\ age \in [Handlers -> Nat]
    BY DEF Inv, Typed
<1>2. /\ rel' = [rel EXCEPT ![e] = r]
      /\ left' = left \cup {[edge |-> e, rel |-> rel[e], t |-> now]}
      /\ UNCHANGED <<cache, answer, now, pc, req, key, hop, age, tgt>>
    BY DEF Publish, handler
<1>3. rel' \in [Edges -> Relations] /\ left' \in SUBSET Past
    BY <1>1, <1>2 DEF Past
<1>4. Later(rel, left, now, rel', left')
    <2> SUFFICES ASSUME NEW d \in Edges, NEW x \in Relations, NEW s \in Int,
                        s <= now, Held(rel, left, d, x, s)
                 PROVE  Held(rel', left', d, x, s)
        BY DEF Later
    <2>1. CASE rel[d] = x /\ d = e
        <3>1. [edge |-> e, rel |-> rel[e], t |-> now] \in left'
            BY <1>2
        <3> QED
            BY <2>1, <3>1 DEF Held
    <2>2. CASE rel[d] = x /\ d # e
        BY <1>1, <1>2, <2>2 DEF Held
    <2>3. CASE rel[d] # x
        BY <1>2, <2>3 DEF Held
    <2> QED
        BY <2>1, <2>2, <2>3
<1>5. Typed'
    BY <1>2, <1>3 DEF Inv, Typed
<1>6. CacheKnown(cache, rel', left', now)
    <2> SUFFICES ASSUME NEW y \in Routes, cache[y] # NoEntry
                 PROVE  /\ cache[y].exp # 0 /\ now <= cache[y].exp /\ cache[y].exp <= now + TTL
                        /\ Known(rel', left', y, cache[y].val, cache[y].exp - TTL - ReadTimeout)
        BY DEF CacheKnown
    <2>1. /\ cache[y].exp # 0 /\ now <= cache[y].exp /\ cache[y].exp <= now + TTL
          /\ Known(rel, left, y, cache[y].val, cache[y].exp - TTL - ReadTimeout)
        BY DEF Inv, CacheKnown
    <2>2. cache[y].exp \in Int
        BY <1>1 DEF Cached
    <2>3. /\ cache[y].exp - TTL - ReadTimeout \in Int
          /\ cache[y].exp - TTL - ReadTimeout <= now
        BY <1>1, <2>1, <2>2, Constants
    <2>4. Known(rel', left', y, cache[y].val, cache[y].exp - TTL - ReadTimeout)
        BY <1>1, <1>3, <1>4, <2>1, <2>3, KnownLater
    <2> QED
        BY <2>1, <2>4
<1>7. \A h \in Handlers : Knows(rel', left', now, pc[h], req[h], key[h], hop[h], age[h], tgt[h])
    <2> SUFFICES ASSUME NEW h \in Handlers
                 PROVE  Knows(rel', left', now, pc[h], req[h], key[h], hop[h], age[h], tgt[h])
        OBVIOUS
    <2>1. Knows(rel, left, now, pc[h], req[h], key[h], hop[h], age[h], tgt[h])
        BY DEF Inv, HandlerKnows
    <2>2. age[h] \in Nat /\ now \in Int
        BY <1>1
    <2> QED
        BY <1>1, <1>3, <1>4, <2>1, <2>2, KnowsLater
<1> QED
    BY <1>2, <1>5, <1>6, <1>7 DEF Inv, HandlerKnows

-----------------------------------------------------------------------------
(* Time passes, and the process ends *)

LEMMA TickHolds ==
    ASSUME Inv, Tick
    PROVE  Inv'
<1>1. /\ rel \in [Edges -> Relations] /\ left \in SUBSET Past /\ now \in Nat
      /\ cache \in [Routes -> Cached] /\ age \in [Handlers -> Nat] /\ pc \in [Handlers -> Places]
    BY DEF Inv, Typed
<1>2. /\ now' = now + 1
      /\ cache' = [k \in Routes |-> Cache!Seen(cache[k], now + 1)]
      /\ age' = [h \in Handlers |-> IF pc[h] \in {"sent", "read"} THEN age[h] + 1 ELSE 0]
      /\ UNCHANGED <<rel, left, answer, pc, req, key, hop, tgt>>
    BY DEF Tick, Cache!Tick, redis
<1>3. \A h \in Handlers : /\ pc[h] \in {"idle", "sent", "read", "do"}
                          /\ pc[h] \in {"sent", "read"} => age[h] < ReadTimeout
    BY DEF Tick
<1>4. \A y \in Routes : cache'[y] # NoEntry =>
         cache'[y] = cache[y] /\ (cache[y].exp = 0 \/ now + 1 <= cache[y].exp)
    BY <1>2 DEF Cache!Seen, Cache!Alive
<1>5. \A y \in Routes : cache'[y] \in Cached
    BY <1>1, <1>4 DEF Cached
<1>6. Typed'
    <2>1. cache' \in [Routes -> Cached]
        BY <1>2, <1>5
    <2>2. age' \in [Handlers -> Nat]
        BY <1>1, <1>2
    <2>3. now' \in Nat
        BY <1>1, <1>2
    <2> QED
        BY <1>2, <2>1, <2>2, <2>3 DEF Inv, Typed
<1>7. CacheKnown(cache', rel, left, now + 1)
    <2> SUFFICES ASSUME NEW y \in Routes, cache'[y] # NoEntry
                 PROVE  /\ cache'[y].exp # 0 /\ now + 1 <= cache'[y].exp
                        /\ cache'[y].exp <= now + 1 + TTL
                        /\ Known(rel, left, y, cache'[y].val, cache'[y].exp - TTL - ReadTimeout)
        BY DEF CacheKnown
    <2>1. cache'[y] = cache[y] /\ cache[y] # NoEntry
          /\ (cache[y].exp = 0 \/ now + 1 <= cache[y].exp)
        BY <1>4
    <2>2. /\ cache[y].exp # 0 /\ cache[y].exp <= now + TTL
          /\ Known(rel, left, y, cache[y].val, cache[y].exp - TTL - ReadTimeout)
        BY <2>1 DEF Inv, CacheKnown
    <2>3. cache[y].exp \in Int
        BY <1>1, <2>1 DEF Cached
    <2>4. cache[y].exp <= now + 1 + TTL
        BY <1>1, <2>2, <2>3, Constants
    <2> QED
        BY <2>1, <2>2, <2>4
<1>8. ASSUME NEW h \in Handlers
      PROVE  Knows(rel, left, now + 1, pc[h], req[h], key[h], hop[h], age'[h], tgt[h])
    <2>1. Knows(rel, left, now, pc[h], req[h], key[h], hop[h], age[h], tgt[h])
        BY DEF Inv, HandlerKnows
    <2>2. CASE pc[h] \in {"sent", "read"}
        <3>1. age'[h] = age[h] + 1 /\ age[h] < ReadTimeout /\ age[h] \in Nat
            BY <1>1, <1>2, <1>3, <2>2
        <3>2. (now + 1) - age'[h] = now - age[h] /\ age'[h] <= ReadTimeout
            BY <1>1, <3>1, Constants
        <3> QED
            BY <2>1, <2>2, <3>2 DEF Knows
    <2>3. CASE pc[h] \in {"idle", "do"}
        BY <2>3 DEF Knows
    <2> QED
        BY <1>3, <2>2, <2>3
<1> QED
    BY <1>2, <1>6, <1>7, <1>8 DEF Inv, HandlerKnows

LEMMA PanicHolds ==
    ASSUME Inv, Panic
    PROVE  Inv'
<1>1. Typed'
    <2>1. rel' \in [Edges -> Relations] /\ left' \in SUBSET Past /\ now' \in Nat
        BY DEF Inv, Typed, Panic, redis
    <2>2. cache' \in [Routes -> Cached]
        BY DEF Panic, Cached
    <2>3. answer' \in [Handlers -> Answers]
        <3>1. NoAnswer \in Answers
            BY Constants DEF NoAnswer, Answers
        <3> QED
            BY <3>1 DEF Panic
    <2>4. /\ pc' \in [Handlers -> Places] /\ hop' \in [Handlers -> Nat] /\ age' \in [Handlers -> Nat]
          /\ tgt' \in [Handlers -> Relations]
          /\ req' \in [Handlers -> Requests \cup {NoRequest}]
          /\ key' \in [Handlers -> Apps \cup {NoHost}]
        BY Constants DEF Panic, Places
    <2> QED
        BY <2>1, <2>2, <2>3, <2>4 DEF Typed
<1>2. \A r \in Routes : cache'[r] = NoEntry
    BY DEF Panic
<1>3. \A h \in Handlers : pc'[h] = "idle"
    BY DEF Panic
<1> QED
    BY <1>1, <1>2, <1>3 DEF Inv, CacheKnown, HandlerKnows, Knows

-----------------------------------------------------------------------------
(* A handler goes on *)

\* A step of one handler changes nothing of what the others know.
Others(h) ==
    /\ UNCHANGED <<rel, left, now>>
    /\ \A g \in Handlers \ {h} :
          /\ pc'[g] = pc[g] /\ req'[g] = req[g] /\ key'[g] = key[g]
          /\ hop'[g] = hop[g] /\ age'[g] = age[g] /\ tgt'[g] = tgt[g]

LEMMA OneHandler ==
    ASSUME Inv, NEW h \in Handlers, Others(h), Typed', HandlerKnows(h)',
           CacheKnown(cache', rel, left, now)
    PROVE  Inv'
<1>1. CacheKnown(cache, rel, left, now)'
    BY DEF Others
<1>2. ASSUME NEW g \in Handlers
      PROVE  HandlerKnows(g)'
    <2>1. CASE g = h
        BY <2>1
    <2>2. CASE g # h
        <3>1. Knows(rel, left, now, pc[g], req[g], key[g], hop[g], age[g], tgt[g])
            BY DEF Inv, HandlerKnows
        <3> QED
            BY <2>2, <3>1 DEF Others, HandlerKnows
    <2> QED
        BY <2>1, <2>2
<1> QED
    BY <1>1, <1>2 DEF Inv

\* The parts of the state that steps of a handler leave as they are.
LEMMA RespondHolds ==
    ASSUME Inv, NEW h \in Handlers, Respond(h), UNCHANGED <<rel, left, now, cache>>
    PROVE  Inv'
<1>1. /\ rel \in [Edges -> Relations] /\ left \in SUBSET Past /\ now \in Nat
      /\ cache \in [Routes -> Cached] /\ answer \in [Handlers -> Answers]
      /\ pc \in [Handlers -> Places] /\ req \in [Handlers -> Requests \cup {NoRequest}]
      /\ key \in [Handlers -> Apps \cup {NoHost}] /\ hop \in [Handlers -> Nat]
      /\ age \in [Handlers -> Nat] /\ tgt \in [Handlers -> Relations]
    BY DEF Inv, Typed
<1>2. Typed'
    <2>1. rel' \in [Edges -> Relations] /\ left' \in SUBSET Past /\ now' \in Nat
          /\ cache' \in [Routes -> Cached]
        BY <1>1
    <2>2. answer' \in [Handlers -> Answers]
        <3>1. NoAnswer \in Answers
            BY Constants DEF NoAnswer, Answers
        <3> QED
            BY <1>1, <3>1 DEF Respond
    <2>3. pc' \in [Handlers -> Places] /\ hop' \in [Handlers -> Nat] /\ age' \in [Handlers -> Nat]
        BY <1>1 DEF Respond, Places
    <2>4. /\ tgt' \in [Handlers -> Relations]
          /\ req' \in [Handlers -> Requests \cup {NoRequest}]
          /\ key' \in [Handlers -> Apps \cup {NoHost}]
        BY <1>1, Constants DEF Respond
    <2> QED
        BY <2>1, <2>2, <2>3, <2>4 DEF Typed
<1>3. Others(h)
    BY <1>1 DEF Others, Respond
<1>4. HandlerKnows(h)'
    <2>1. pc'[h] = "idle"
        BY <1>1 DEF Respond
    <2> QED
        BY <2>1 DEF HandlerKnows, Knows
<1>5. CacheKnown(cache', rel, left, now)
    BY DEF Inv
<1> QED
    BY <1>2, <1>3, <1>4, <1>5, OneHandler

LEMMA AcceptHolds ==
    ASSUME Inv, NEW h \in Handlers, NEW q \in Requests, Accept(h, q)
    PROVE  Inv'
<1>1. UNCHANGED <<rel, left, now, cache>>
    BY DEF Accept, redis
<1>2. CASE q.form = "rejected"
    BY <1>1, <1>2, RespondHolds DEF Accept
<1>3. CASE q.form # "rejected"
    <2>1. /\ pc' = [pc EXCEPT ![h] = "cache"]
          /\ req' = [req EXCEPT ![h] = q]
          /\ UNCHANGED <<key, hop, age, tgt, answer>>
        BY <1>3 DEF Accept
    <2>2. Typed'
        BY <1>1, <2>1 DEF Inv, Typed, Places
    <2>3. Others(h)
        BY <1>1, <2>1 DEF Inv, Typed, Others
    <2>4. HandlerKnows(h)'
        <3>1. pc'[h] = "cache" /\ req'[h] = q
            BY <2>1 DEF Inv, Typed
        <3> QED
            BY <3>1 DEF HandlerKnows, Knows
    <2>5. CacheKnown(cache', rel, left, now)
        BY <1>1 DEF Inv
    <2> QED
        BY <2>2, <2>3, <2>4, <2>5, OneHandler
<1> QED
    BY <1>2, <1>3

\* A handler that goes out to its target, or whose target is fixed, knows
\* nothing that matters.
LEMMA DoHolds ==
    ASSUME Inv, NEW h \in Handlers, GoTo(h, "do"), UNCHANGED <<rel, left, now, cache, tgt, answer>>
    PROVE  Inv'
<1>1. Typed'
    BY DEF Inv, Typed, GoTo, Places
<1>2. Others(h)
    BY DEF Inv, Typed, Others, GoTo
<1>3. HandlerKnows(h)'
    <2>1. pc'[h] = "do"
        BY DEF Inv, Typed, GoTo
    <2> QED
        BY <2>1 DEF HandlerKnows, Knows
<1>4. CacheKnown(cache', rel, left, now)
    BY DEF Inv
<1> QED
    BY <1>1, <1>2, <1>3, <1>4, OneHandler

\* A hit is an entry that has not expired.
LEMMA CacheGetHolds ==
    ASSUME Inv, NEW h \in Handlers, CacheGet(h)
    PROVE  Inv'
<1> DEFINE r == req[h].route
<1>1. /\ UNCHANGED <<rel, left, now, cache, req, key, hop, age>>
      /\ pc[h] = "cache"
    BY DEF CacheGet, Cache!Get, redis, GoTo
<1>2. req[h] \in Requests /\ r \in Routes
    BY <1>1, RequestIs DEF Inv, HandlerKnows, Knows
<1>3. /\ rel \in [Edges -> Relations] /\ left \in SUBSET Past /\ now \in Nat
      /\ cache \in [Routes -> Cached] /\ answer \in [Handlers -> Answers]
      /\ pc \in [Handlers -> Places] /\ tgt \in [Handlers -> Relations]
    BY DEF Inv, Typed
<1> HIDE DEF r
<1>4. Cache!Get(h, r)
    BY DEF CacheGet, r
<1>5. CacheKnown(cache', rel, left, now)
    BY <1>1 DEF Inv
<1>6. CASE cache[r] = NoEntry
    <2>1. answer' = [answer EXCEPT ![h] = [st |-> "missing", val |-> NoTarget]]
        BY <1>4, <1>6 DEF Cache!Get, Cache!Answer
    <2>2. answer'[h].st = "missing" /\ answer' \in [Handlers -> Answers]
        BY <1>3, <2>1, Constants DEF Answers
    <2>3. pc' = [pc EXCEPT ![h] = "token"] /\ UNCHANGED tgt
        BY <2>2 DEF CacheGet, GoTo
    <2>4. Typed'
        BY <1>1, <2>2, <2>3 DEF Inv, Typed, Places
    <2>5. Others(h)
        BY <1>1, <1>3, <2>3 DEF Others
    <2>6. HandlerKnows(h)'
        BY <1>1, <1>2, <1>3, <2>3 DEF HandlerKnows, Knows
    <2> QED
        BY <1>5, <2>4, <2>5, <2>6, OneHandler
<1>7. CASE cache[r] # NoEntry
    <2>1. answer' = [answer EXCEPT ![h] = [st |-> "ok", val |-> cache[r].val]]
        BY <1>4, <1>7 DEF Cache!Get, Cache!Answer
    <2>2. cache[r].val \in Relations /\ cache[r].exp \in Int
        BY <1>2, <1>3, <1>7 DEF Cached
    <2>3. /\ answer'[h].st = "ok" /\ answer'[h].val = cache[r].val
          /\ answer' \in [Handlers -> Answers]
        BY <1>3, <2>1, <2>2 DEF Answers
    <2>4. pc' = [pc EXCEPT ![h] = "forward"] /\ tgt' = [tgt EXCEPT ![h] = cache[r].val]
        BY <2>3 DEF CacheGet, GoTo
    <2>5. Typed'
        <3>1. pc' \in [Handlers -> Places] /\ tgt' \in [Handlers -> Relations]
            BY <1>3, <2>2, <2>4 DEF Places
        <3> QED
            BY <1>1, <2>3, <3>1 DEF Inv, Typed
    <2>6. Others(h)
        BY <1>1, <1>3, <2>4 DEF Others
    <2>7. HandlerKnows(h)'
        <3>1. /\ now <= cache[r].exp /\ cache[r].exp <= now + TTL
              /\ Known(rel, left, r, cache[r].val, cache[r].exp - TTL - ReadTimeout)
            BY <1>2, <1>7 DEF Inv, CacheKnown
        <3>2. /\ cache[r].exp - TTL - ReadTimeout \in Int
              /\ cache[r].exp - TTL - ReadTimeout <= now
              /\ now - TTL - ReadTimeout \in Int
              /\ now - TTL - ReadTimeout <= cache[r].exp - TTL - ReadTimeout
            BY <1>3, <2>2, <3>1, Constants
        <3>3. now \in Int /\ Later(rel, left, now, rel, left)
            BY <1>3, LaterSame
        <3>4. Known(rel, left, r, cache[r].val, now - TTL - ReadTimeout)
            BY <1>3, <3>1, <3>2, <3>3, KnownLater
        <3>5. pc'[h] = "forward" /\ tgt'[h] = cache[r].val /\ req'[h] = req[h]
            BY <1>1, <1>3, <2>4
        <3>6. Knows(rel, left, now, "forward", req[h], key[h], hop[h], age[h], cache[r].val)
            BY <1>2, <3>4 DEF Knows, r
        <3> QED
            BY <1>1, <3>5, <3>6 DEF HandlerKnows
    <2> QED
        BY <1>5, <2>5, <2>6, <2>7, OneHandler
<1> QED
    BY <1>6, <1>7

\* A call of redis for a place that was reached.
LEMMA SendHolds ==
    ASSUME Inv, NEW h \in Handlers, NEW k \in Apps, NEW i \in Nat, Send(h, k, i),
           UNCHANGED <<rel, left, now, cache>>, Reached(rel, left, req[h], i, k, now)
    PROVE  Inv'
<1>1. /\ pc' = [pc EXCEPT ![h] = "sent"] /\ key' = [key EXCEPT ![h] = k]
      /\ hop' = [hop EXCEPT ![h] = i] /\ age' = [age EXCEPT ![h] = 0]
      /\ UNCHANGED <<req, tgt, answer>>
    BY DEF Send
<1>2. /\ pc \in [Handlers -> Places] /\ key \in [Handlers -> Apps \cup {NoHost}]
      /\ hop \in [Handlers -> Nat] /\ age \in [Handlers -> Nat] /\ now \in Nat
    BY DEF Inv, Typed
<1>3. Typed'
    <2>1. /\ pc' \in [Handlers -> Places] /\ key' \in [Handlers -> Apps \cup {NoHost}]
          /\ hop' \in [Handlers -> Nat] /\ age' \in [Handlers -> Nat]
        BY <1>1, <1>2 DEF Places
    <2> QED
        BY <1>1, <2>1 DEF Inv, Typed
<1>4. Others(h)
    BY <1>1, <1>2 DEF Others
<1>5. HandlerKnows(h)'
    <2>1. pc'[h] = "sent" /\ key'[h] = k /\ hop'[h] = i /\ age'[h] = 0
        BY <1>1, <1>2
    <2>2. now - 0 = now /\ 0 <= ReadTimeout
        BY <1>2, Constants
    <2>3. Knows(rel, left, now, "sent", req[h], k, i, 0, tgt[h])
        BY <2>2 DEF Knows
    <2> QED
        BY <1>1, <2>1, <2>3 DEF HandlerKnows
<1>6. CacheKnown(cache', rel, left, now)
    BY DEF Inv
<1> QED
    BY <1>3, <1>4, <1>5, <1>6, OneHandler

LEMMA ParseTokenHolds ==
    ASSUME Inv, NEW h \in Handlers, ParseToken(h)
    PROVE  Inv'
<1>1. UNCHANGED <<rel, left, now, cache>> /\ pc[h] = "token"
    BY DEF ParseToken, redis
<1>2. req[h] \in Requests
    BY <1>1 DEF Inv, HandlerKnows, Knows
<1>3. req[h].from \in Apps /\ Len(req[h].stack) \in Nat
    BY <1>2, RequestIs
<1>4. CASE req[h].form = "refused" /\ Respond(h)
    BY <1>1, <1>4, RespondHolds
<1>5. CASE req[h].form = "chain" /\ Send(h, req[h].from, 1)
    <2>1. Reached(rel, left, req[h], 1, req[h].from, now)
        BY <1>2, <1>5, FirstHop
    <2> QED
        BY <1>1, <1>3, <1>5, <2>1, SendHolds
<1>6. CASE req[h].form = "direct" /\ Send(h, req[h].from, Len(req[h].stack))
    <2>1. Reached(rel, left, req[h], Len(req[h].stack), req[h].from, now)
        BY <1>2, <1>6, FirstHop
    <2> QED
        BY <1>1, <1>3, <1>6, <2>1, SendHolds
<1> QED
    BY <1>4, <1>5, <1>6 DEF ParseToken

\* What redis answers is a relation that it holds now.
LEMMA HgetHolds ==
    ASSUME Inv, NEW h \in Handlers, Hget(h)
    PROVE  Inv'
<1> DEFINE e == <<key[h], req[h].stack[hop[h]]>>
<1>1. /\ UNCHANGED <<rel, left, now, cache, answer, req, key, hop, age>>
      /\ pc[h] = "sent" /\ pc' = [pc EXCEPT ![h] = "read"]
      /\ tgt' = [tgt EXCEPT ![h] = rel[e]]
    BY DEF Hget, redis, GoTo
<1>2. /\ rel \in [Edges -> Relations] /\ pc \in [Handlers -> Places]
      /\ tgt \in [Handlers -> Relations]
    BY DEF Inv, Typed
<1>3. age[h] <= ReadTimeout /\ Reached(rel, left, req[h], hop[h], key[h], now - age[h])
    BY <1>1 DEF Inv, HandlerKnows, Knows
<1>4. e \in Edges
    BY <1>3, RequestIs DEF Edges, Reached
<1>5. Typed'
    <2>1. tgt' \in [Handlers -> Relations] /\ pc' \in [Handlers -> Places]
        BY <1>1, <1>2, <1>4 DEF Places
    <2> QED
        BY <1>1, <2>1 DEF Inv, Typed
<1>6. Others(h)
    BY <1>1, <1>2 DEF Others
<1>7. HandlerKnows(h)'
    <2>1. pc'[h] = "read" /\ tgt'[h] = rel[e]
        BY <1>1, <1>2
    <2>2. Held(rel, left, e, rel[e], now - age[h])
        BY DEF Held
    <2>3. Knows(rel, left, now, "read", req[h], key[h], hop[h], age[h], rel[e])
        BY <1>3, <2>2 DEF Knows
    <2> QED
        BY <1>1, <2>1, <2>3 DEF HandlerKnows
<1>8. CacheKnown(cache', rel, left, now)
    BY <1>1 DEF Inv
<1> QED
    BY <1>5, <1>6, <1>7, <1>8, OneHandler

\* The answer leads to the next hop, or to the target.
LEMMA ReceiveHolds ==
    ASSUME Inv, NEW h \in Handlers, Receive(h)
    PROVE  Inv'
<1> DEFINE q == req[h]
           T == now - age[h]
           last == hop[h] = Len(q.stack)
<1>1. UNCHANGED <<rel, left, now, cache>> /\ pc[h] = "read"
    BY DEF Receive, redis
<1>2. /\ age[h] <= ReadTimeout /\ Reached(rel, left, q, hop[h], key[h], T)
      /\ Held(rel, left, <<key[h], q.stack[hop[h]]>>, tgt[h], T)
    BY <1>1 DEF Inv, HandlerKnows, Knows
<1>3. /\ tgt[h] \in Relations /\ now \in Nat /\ age[h] \in Nat /\ hop[h] \in Nat
      /\ left \in SUBSET Past
    BY DEF Inv, Typed
<1>4. CASE Respond(h)
    BY <1>1, <1>4, RespondHolds
<1>5. CASE tgt[h].st = "ok" /\ ~last /\ Send(h, tgt[h].app, hop[h] + 1)
    <2>1. tgt[h].app \in Apps
        BY <1>3, <1>5 DEF Relations
    <2>2. q.form = "chain"
        BY <1>2, <1>5 DEF Reached
    <2>3. T \in Int /\ now \in Int /\ now - ReadTimeout <= T /\ hop[h] + 1 \in Nat
        BY <1>2, <1>3, Constants
    <2>4. Reached(rel, left, q, hop[h] + 1, tgt[h].app, now)
        <3> HIDE DEF T, q
        <3>1. hop[h] # Len(q.stack)
            BY <1>5 DEF q
        <3> QED
            BY <1>2, <1>3, <2>1, <2>2, <2>3, <3>1, NextHop
    <2> QED
        BY <1>1, <1>5, <2>1, <2>3, <2>4, SendHolds
<1>6. CASE /\ tgt[h].st = "ok" /\ last /\ tgt[h].host # NoHost
           /\ GoTo(h, "store") /\ UNCHANGED <<tgt, answer>>
    <2>1. tgt[h].host \in Hosts
        BY <1>3, <1>6 DEF Relations
    <2>2. /\ pc' = [pc EXCEPT ![h] = "store"]
          /\ UNCHANGED <<req, key, hop, age, tgt, answer>>
        BY <1>6 DEF GoTo
    <2>3. Typed'
        BY <1>1, <2>2 DEF Inv, Typed, Places
    <2>4. Others(h) /\ pc'[h] = "store"
        BY <1>1, <2>2 DEF Inv, Typed, Others
    <2>5. Knows(rel, left, now, "store", req[h], key[h], hop[h], age[h], tgt[h])
        BY <1>2, <1>6, <2>1 DEF Knows
    <2>6. HandlerKnows(h)'
        BY <1>1, <2>2, <2>4, <2>5 DEF HandlerKnows
    <2>7. CacheKnown(cache', rel, left, now)
        BY <1>1 DEF Inv
    <2> QED
        BY <2>3, <2>4, <2>6, <2>7, OneHandler
<1>7. tgt[h].st # "ok" => Respond(h)
    BY DEF Receive
<1>8. tgt[h].st = "ok" /\ ~last => Send(h, tgt[h].app, hop[h] + 1)
    BY DEF Receive
<1>9. tgt[h].st = "ok" /\ last /\ tgt[h].host = NoHost => Respond(h)
    BY DEF Receive
<1>10. tgt[h].st = "ok" /\ last /\ tgt[h].host # NoHost =>
          GoTo(h, "store") /\ UNCHANGED <<tgt, answer>>
    BY DEF Receive
<1> QED
    BY <1>4, <1>5, <1>6, <1>7, <1>8, <1>9, <1>10

\* The handler that found the target knows its route for as long as a cached
\* route lives.
LEMMA StoreHolds ==
    ASSUME Inv, NEW h \in Handlers, Store(h)
    PROVE  Inv'
<1> DEFINE q == req[h]
           g == tgt[h]
           T == now - age[h]
<1>1. /\ UNCHANGED <<rel, left, now, req, key, hop, age, tgt>>
      /\ pc[h] = "store" /\ pc' = [pc EXCEPT ![h] = "forward"]
    BY DEF Store, redis, GoTo, Cache!Put, Cache!Store, Cache!Fail
<1>2. /\ age[h] <= ReadTimeout /\ Reached(rel, left, q, hop[h], key[h], T)
      /\ Held(rel, left, <<key[h], q.stack[hop[h]]>>, g, T)
      /\ hop[h] = Len(q.stack) /\ g.host \in Hosts
    BY <1>1 DEF Inv, HandlerKnows, Knows
<1>3. /\ rel \in [Edges -> Relations] /\ left \in SUBSET Past /\ now \in Nat
      /\ cache \in [Routes -> Cached] /\ answer \in [Handlers -> Answers]
      /\ pc \in [Handlers -> Places] /\ g \in Relations /\ age[h] \in Nat
    BY DEF Inv, Typed
<1>4. q \in Requests /\ q.route \in Routes
    BY <1>2, RequestIs DEF Reached
<1>5. Finished(rel, left, q, g, T)
    BY <1>2 DEF Finished, Reached
<1>6. Known(rel, left, q.route, g, now - TTL - ReadTimeout)
    <2>1. /\ T \in Int /\ T <= now /\ now \in Int
          /\ now - TTL - ReadTimeout \in Int /\ now - TTL - ReadTimeout <= T
        BY <1>2, <1>3, Constants
    <2>2. Later(rel, left, now, rel, left)
        BY LaterSame
    <2>3. Known(rel, left, q.route, g, T)
        BY <1>2, <1>4, <1>5 DEF Known
    <2> HIDE DEF T, q, g
    <2> QED
        BY <1>3, <2>1, <2>2, <2>3, KnownLater
<1>7. Known(rel, left, q.route, g, (now + TTL) - TTL - ReadTimeout)
    <2>1. /\ T \in Int /\ T <= now /\ now \in Int
          /\ (now + TTL) - TTL - ReadTimeout \in Int /\ (now + TTL) - TTL - ReadTimeout <= T
        BY <1>2, <1>3, Constants
    <2>2. Later(rel, left, now, rel, left)
        BY LaterSame
    <2>3. Known(rel, left, q.route, g, T)
        BY <1>2, <1>4, <1>5 DEF Known
    <2> HIDE DEF T, q, g
    <2> QED
        BY <1>3, <2>1, <2>2, <2>3, KnownLater
<1>8. Others(h)
    BY <1>1, <1>3 DEF Others
<1>9. HandlerKnows(h)'
    <2>1. pc'[h] = "forward"
        BY <1>1, <1>3
    <2>2. Knows(rel, left, now, "forward", q, key[h], hop[h], age[h], g)
        BY <1>4, <1>6 DEF Knows
    <2> QED
        BY <1>1, <2>1, <2>2 DEF HandlerKnows
<1>10. CASE /\ cache' = [cache EXCEPT ![q.route] = [val |-> g, exp |-> now + TTL]]
            /\ Cache!Put(h, q.route)
    <2>1. answer' = [answer EXCEPT ![h] = [st |-> "ok", val |-> NoTarget]]
        BY <1>10 DEF Cache!Put, Cache!Store, Cache!Answer
    <2>2. [st |-> "ok", val |-> NoTarget] \in Answers
        BY Constants DEF Answers
    <2>3. now + TTL \in Int /\ now + TTL # 0 /\ now <= now + TTL
        BY <1>3, Constants
    <2>4. [val |-> g, exp |-> now + TTL] \in Cached
        BY <1>3, <2>3 DEF Cached
    <2>5. Typed'
        <3>1. cache' \in [Routes -> Cached]
            BY <1>3, <1>10, <2>4
        <3>2. answer' \in [Handlers -> Answers]
            BY <1>3, <2>1, <2>2
        <3>3. pc' \in [Handlers -> Places]
            BY <1>1, <1>3 DEF Places
        <3> QED
            BY <1>1, <3>1, <3>2, <3>3 DEF Inv, Typed
    <2>6. CacheKnown(cache', rel, left, now)
        <3> SUFFICES ASSUME NEW y \in Routes, cache'[y] # NoEntry
                     PROVE  /\ cache'[y].exp # 0 /\ now <= cache'[y].exp
                            /\ cache'[y].exp <= now + TTL
                            /\ Known(rel, left, y, cache'[y].val, cache'[y].exp - TTL - ReadTimeout)
            BY DEF CacheKnown
        <3>1. CASE y = q.route
            <4>1. cache'[y] = [val |-> g, exp |-> now + TTL]
                BY <1>3, <1>4, <1>10, <3>1
            <4>2. cache'[y].exp = now + TTL /\ cache'[y].val = g
                BY <4>1
            <4> QED
                BY <1>3, <1>7, <2>3, <3>1, <4>2
        <3>2. CASE y # q.route
            <4>1. cache'[y] = cache[y]
                BY <1>3, <1>10, <3>2
            <4> QED
                BY <4>1 DEF Inv, CacheKnown
        <3> QED
            BY <3>1, <3>2
    <2> QED
        BY <1>8, <1>9, <2>5, <2>6, OneHandler
<1>11. CASE Cache!Fail(h, "full")
    <2>1. answer' = [answer EXCEPT ![h] = [st |-> "full", val |-> NoTarget]] /\ UNCHANGED cache
        BY <1>11 DEF Cache!Fail, Cache!Answer
    <2>2. [st |-> "full", val |-> NoTarget] \in Answers
        BY Constants DEF Answers
    <2>3. Typed'
        <3>1. answer' \in [Handlers -> Answers]
            BY <1>3, <2>1, <2>2
        <3>2. pc' \in [Handlers -> Places]
            BY <1>1, <1>3 DEF Places
        <3> QED
            BY <1>1, <2>1, <3>1, <3>2 DEF Inv, Typed
    <2>4. CacheKnown(cache', rel, left, now)
        BY <2>1 DEF Inv
    <2> QED
        BY <1>8, <1>9, <2>3, <2>4, OneHandler
<1> QED
    BY <1>10, <1>11 DEF Store

-----------------------------------------------------------------------------
(* Every step *)

LEMMA StepHolds ==
    ASSUME Inv, NEW h \in Handlers, Step(h)
    PROVE  Inv'
<1>1. CASE TokenPanics(h)
    BY <1>1, PanicHolds DEF TokenPanics
<1>2. CASE HgetFails(h)
    BY <1>2, RespondHolds DEF HgetFails, redis
<1>3. CASE Forward(h)
    BY <1>3, DoHolds DEF Forward, redis
<1>4. CASE CacheGet(h) \/ ParseToken(h) \/ Hget(h) \/ Receive(h) \/ Store(h)
    BY <1>4, CacheGetHolds, ParseTokenHolds, HgetHolds, ReceiveHolds, StoreHolds
<1> QED
    BY <1>1, <1>2, <1>3, <1>4 DEF Step

LEMMA NextHolds ==
    ASSUME Inv, [Next]_vars
    PROVE  Inv'
<1>1. CASE Start
    <2>1. UNCHANGED <<rel, left, cache, answer, now, pc, req, key, hop, age, tgt>>
        BY <1>1 DEF Start, redis, handler
    <2> QED
        BY <2>1 DEF Inv, Typed, CacheKnown, HandlerKnows
<1>2. CASE Tick
    BY <1>2, TickHolds
<1>3. ASSUME NEW x \in NewRel, Publish(x[1], x[2])
      PROVE  Inv'
    <2>1. x[1] \in Edges /\ x[2] \in Relations
        BY Constants
    <2> QED
        BY <1>3, <2>1, PublishHolds
<1>4. ASSUME NEW h \in Handlers, AcceptFixed(h)
      PROVE  Inv'
    BY <1>4, DoHolds DEF AcceptFixed, redis
<1>5. ASSUME NEW h \in Handlers, NEW q \in Requests, Accept(h, q)
      PROVE  Inv'
    BY <1>5, AcceptHolds
<1>6. ASSUME NEW h \in Handlers, Step(h)
      PROVE  Inv'
    BY <1>6, StepHolds
<1>7. ASSUME NEW h \in Handlers, Done(h)
      PROVE  Inv'
    BY <1>7, RespondHolds DEF Done, redis
<1>8. CASE UNCHANGED vars
    <2>1. UNCHANGED <<rel, left, cache, answer, now, pc, req, key, hop, age, tgt>>
        BY <1>8 DEF vars, redis, handler
    <2> QED
        BY <2>1 DEF Inv, Typed, CacheKnown, HandlerKnows
<1> QED
    BY <1>1, <1>2, <1>3, <1>4, <1>5, <1>6, <1>7, <1>8 DEF Next

\* The inductive invariant: the cache and every handler know only what redis
\* has led to, and since when.
THEOREM InvCorrect == Spec => []Inv
<1> QED
    BY InitHolds, NextHolds, PTL DEF Spec

\* A request goes out only to a host to which redis led a request of its
\* route, hop by hop, no longer ago than the cache and the time-outs allow.
THEOREM StaleCorrect == Spec => []StaleBounded
<1>1. Inv => StaleBounded
    <2> SUFFICES ASSUME Inv, NEW h \in Handlers, pc[h] = "forward"
                 PROVE  /\ tgt[h].host \in Hosts
                        /\ \E q \in Requests : q.route = req[h].route /\ Led(q, tgt[h])
        BY DEF StaleBounded
    <2>1. Known(rel, left, req[h].route, tgt[h], now - TTL - ReadTimeout)
        BY DEF Inv, HandlerKnows, Knows
    <2>2. PICK q \in Requests : /\ q.route = req[h].route
                                /\ Finished(rel, left, q, tgt[h], now - TTL - ReadTimeout)
        BY <2>1 DEF Known
    <2>3. rel \in [Edges -> Relations] /\ left \in SUBSET Past /\ now \in Int
        BY DEF Inv, Typed
    <2>4. Led(q, tgt[h])
        BY <2>2, <2>3, LedIs
    <2> QED
        BY <2>1, <2>2, <2>4 DEF Known
<1> QED
    BY <1>1, InvCorrect, PTL

=============================================================================
