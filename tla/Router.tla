------------------------------- MODULE Router -------------------------------
(***************************************************************************)
(* The HTTP gateways of the service car (sc/traffic_out_core.go,           *)
(* sc/traffic_inflow_core.go and their listeners): a request is forwarded  *)
(* to a fixed address or, when services find each other, to the host that  *)
(* redis has for its relation, which is then cached for its route.         *)
(*                                                                         *)
(* Relations are changed by others at any time. The cache is the one that  *)
(* MemoryCache implements, taken at its word: TTLMap. Time matters only to *)
(* the cache and to calls of redis; what a handler does without waiting    *)
(* takes none.                                                             *)
(***************************************************************************)
EXTENDS Integers, Sequences

CONSTANTS
    Handlers,     \* goroutines that serve requests
    Apps,         \* services, by appid, appkey and channel: keys in redis
    Names,        \* how a caller names a callee: fields in redis
    Hosts,
    NoHost,       \* the empty host
    Routes,       \* first part of the path, the key of the cache
    Requests,     \* what clients may ask
    NoEntry,      \* no entry in the cache
    NoRequest,
    InitRel,      \* the relations in redis at the start
    NewRel,       \* the changes that may happen to them: edge and relation
    Gateway,      \* IsTrafficOutToGateWay
    TTL,          \* lifetime of a cached route, in ticks
    ReadTimeout,  \* of a call of redis, in ticks
    MaxClock,     \* bound: last value of the clock
    MaxChanges,   \* bound: changes of relations
    MaxRequests   \* bound: requests

Listeners == {"in", "out"}

\* A request is rejected for its path or for want of a token, panics the
\* handler (a token that is too short or does not parse, a direct call with an
\* empty stack), is refused for what its token says (no claims, an invalid
\* chain, a chain of fewer than two nodes), or names its callee, directly or
\* at the end of a chain.
Forms == {"rejected", "panics", "refused", "direct", "chain"}

\* HGET key field: nothing, something that is no relation, or a target.
Relations == [st : {"none", "bad"}, app : {NoHost}, host : {NoHost}]
                 \cup [st : {"ok"}, app : Apps, host : Hosts \cup {NoHost}]

NoTarget == [st |-> "none", app |-> NoHost, host |-> NoHost]

ASSUME RouterAssumption ==
    /\ Requests \subseteq [form : Forms, route : Routes, from : Apps, stack : Seq(Names)]
    /\ \A q \in Requests : q.form \in {"direct", "chain"} => q.stack # <<>>
    /\ InitRel \in [Apps \X Names -> Relations]
    /\ NewRel \subseteq (Apps \X Names) \X Relations
    /\ NoHost \notin Hosts \cup Apps /\ NoRequest \notin Requests
    /\ Gateway \in BOOLEAN
    /\ TTL \in Nat \ {0} /\ ReadTimeout \in Nat
    /\ MaxClock \in Nat /\ MaxChanges \in Nat /\ MaxRequests \in Nat

VARIABLES
    rel,      \* the relations in redis
    cache,    \* sc.Cache
    answer,   \* what the cache answered each handler
    now,      \* the time
    up,       \* the process runs
    serving,  \* the listeners that accept requests
    pc,       \* where each handler is
    req,      \* its request
    key,      \* the caller of the hop it looks up
    hop,      \* the position of that hop in the call stack
    age,      \* ticks since it called redis
    tgt,      \* targetData
    changes,  \* changes so far
    asked,    \* requests so far
    left      \* HISTORY: relations that were replaced, and when

process == <<up, serving>>
handler == <<pc, req, key, hop, age, tgt>>
redis == <<rel, changes, left>>
vars == <<redis, cache, answer, now, process, handler, asked>>

Cache == INSTANCE TTLMap WITH
    Clients <- Handlers, Keys <- Routes, Vals <- Relations, NoVal <- NoTarget,
    m <- cache, out <- answer

NoAnswer == [st |-> "none", val |-> NoTarget]

Init ==
    /\ rel = InitRel
    /\ Cache!Init
    /\ up = FALSE /\ serving = {}
    /\ pc = [h \in Handlers |-> "idle"]
    /\ req = [h \in Handlers |-> NoRequest]
    /\ key = [h \in Handlers |-> NoHost]
    /\ hop = [h \in Handlers |-> 0]
    /\ age = [h \in Handlers |-> 0]
    /\ tgt = [h \in Handlers |-> NoTarget]
    /\ changes = 0 /\ asked = 0 /\ left = {}

-----------------------------------------------------------------------------
(* The process *)

\* main's goroutines run StartTrafficInflowHTTPServer and
\* StartTrafficOutReverseHTTPServer. Each may return without serving, and the
\* process runs on: the file of a unix socket does not exist or cannot be
\* removed, or ListenAndServe fails, whose error is ignored. An error of the
\* outgoing one ends the process, as if it had not been started.
Start ==
    /\ ~up
    /\ up' = TRUE
    /\ serving' \in SUBSET Listeners
    /\ UNCHANGED <<redis, cache, answer, now, handler, asked>>

\* A panic ends the process and what it has in memory; it is started again.
Panic ==
    /\ up' = FALSE /\ serving' = {}
    /\ cache' = [r \in Routes |-> NoEntry]
    /\ answer' = [h \in Handlers |-> NoAnswer]
    /\ pc' = [h \in Handlers |-> "idle"]
    /\ req' = [h \in Handlers |-> NoRequest]
    /\ key' = [h \in Handlers |-> NoHost]
    /\ hop' = [h \in Handlers |-> 0]
    /\ age' = [h \in Handlers |-> 0]
    /\ tgt' = [h \in Handlers |-> NoTarget]
    /\ UNCHANGED <<redis, now, asked>>

\* Relations are published by other services.
Publish(e, r) ==
    /\ changes < MaxChanges
    /\ r # rel[e]
    /\ changes' = changes + 1
    /\ rel' = [rel EXCEPT ![e] = r]
    /\ left' = left \cup {[edge |-> e, rel |-> rel[e], t |-> now]}
    /\ UNCHANGED <<cache, answer, now, process, handler, asked>>

\* Handlers that wait do so while time passes; redis answers in time or not
\* at all.
Tick ==
    /\ \A h \in Handlers : pc[h] \in {"idle", "sent", "read", "do"}
    /\ \A h \in Handlers : pc[h] \in {"sent", "read"} => age[h] < ReadTimeout
    /\ Cache!Tick
    /\ age' = [h \in Handlers |-> IF pc[h] \in {"sent", "read"} THEN age[h] + 1 ELSE 0]
    /\ UNCHANGED <<redis, process, pc, req, key, hop, tgt, asked>>

-----------------------------------------------------------------------------
(* A request *)

\* The handler returns and the response is sent.
Respond(h) ==
    /\ pc' = [pc EXCEPT ![h] = "idle"]
    /\ req' = [req EXCEPT ![h] = NoRequest]
    /\ key' = [key EXCEPT ![h] = NoHost]
    /\ hop' = [hop EXCEPT ![h] = 0]
    /\ age' = [age EXCEPT ![h] = 0]
    /\ tgt' = [tgt EXCEPT ![h] = NoTarget]
    /\ answer' = [answer EXCEPT ![h] = NoAnswer]

GoTo(h, s) ==
    /\ pc' = [pc EXCEPT ![h] = s]
    /\ UNCHANGED <<req, key, hop, age>>

\* trafficInFlowReverseFastHTTPClientHandler, and the outgoing handler with a
\* gateway: the target is fixed and the request goes out to it.
AcceptFixed(h) ==
    /\ serving \cap (IF Gateway THEN Listeners ELSE {"in"}) # {}
    /\ pc[h] = "idle" /\ asked < MaxRequests
    /\ asked' = asked + 1
    /\ GoTo(h, "do")
    /\ UNCHANGED <<tgt, redis, cache, answer, now, process>>

\* handleRequestRoute: a path that is too short and a request without a
\* token are answered with 404, as is every error below.
Accept(h, q) ==
    /\ "out" \in serving /\ ~Gateway
    /\ pc[h] = "idle" /\ asked < MaxRequests
    /\ asked' = asked + 1
    /\ IF q.form = "rejected"
       THEN Respond(h)
       ELSE /\ pc' = [pc EXCEPT ![h] = "cache"]
            /\ req' = [req EXCEPT ![h] = q]
            /\ UNCHANGED <<key, hop, age, tgt, answer>>
    /\ UNCHANGED <<redis, cache, now, process>>

\* sc.Cache.Get(route): a hit needs neither the token nor redis.
CacheGet(h) ==
    /\ pc[h] = "cache"
    /\ Cache!Get(h, req[h].route)
    /\ IF answer'[h].st = "ok"
       THEN GoTo(h, "forward") /\ tgt' = [tgt EXCEPT ![h] = answer'[h].val]
       ELSE GoTo(h, "token") /\ UNCHANGED tgt
    /\ UNCHANGED <<redis, process, asked>>

\* The call of redis for a hop is sent.
Send(h, k, i) ==
    /\ pc' = [pc EXCEPT ![h] = "sent"]
    /\ key' = [key EXCEPT ![h] = k]
    /\ hop' = [hop EXCEPT ![h] = i]
    /\ age' = [age EXCEPT ![h] = 0]
    /\ UNCHANGED <<req, tgt, answer>>

\* getAppInfoByJwtToken and checkChains. A chain is walked from its first
\* hop; a direct call looks at the last node of the stack only.
ParseToken(h) ==
    /\ pc[h] = "token" /\ req[h].form # "panics"
    /\ \/ req[h].form = "refused" /\ Respond(h)
       \/ req[h].form = "chain" /\ Send(h, req[h].from, 1)
       \/ req[h].form = "direct" /\ Send(h, req[h].from, Len(req[h].stack))
    /\ UNCHANGED <<redis, cache, now, process, asked>>

\* A panic in a handler, which nothing recovers.
TokenPanics(h) == pc[h] = "token" /\ req[h].form = "panics" /\ Panic

\* Redis executes the HGET.
Hget(h) ==
    /\ pc[h] = "sent"
    /\ GoTo(h, "read")
    /\ tgt' = [tgt EXCEPT ![h] = rel[<<key[h], req[h].stack[hop[h]]>>]]
    /\ UNCHANGED <<redis, cache, answer, now, process, asked>>

\* The call fails: whatever the error, the relation is invalid.
HgetFails(h) ==
    /\ pc[h] \in {"sent", "read"}
    /\ Respond(h)
    /\ UNCHANGED <<redis, cache, now, process, asked>>

\* Mutant: the walk does not advance.
ReceiveAgain(h) ==
    LET last == hop[h] = Len(req[h].stack)
    IN  /\ pc[h] = "read"
        /\ IF tgt[h].st = "ok" /\ ~last
           THEN Send(h, tgt[h].app, hop[h])
           ELSE IF tgt[h].st # "ok" \/ tgt[h].host = NoHost
                THEN Respond(h)
                ELSE GoTo(h, "store") /\ UNCHANGED <<tgt, answer>>
        /\ UNCHANGED <<redis, cache, now, process, asked>>

\* getChannelRelation returns; the target of a hop is the caller of the next.
Receive(h) ==
    LET last == hop[h] = Len(req[h].stack)
    IN  /\ pc[h] = "read"
        /\ CASE tgt[h].st # "ok" -> Respond(h)
             [] tgt[h].st = "ok" /\ ~last -> Send(h, tgt[h].app, hop[h] + 1)
             [] tgt[h].st = "ok" /\ last /\ tgt[h].host = NoHost -> Respond(h)
             [] OTHER -> GoTo(h, "store") /\ UNCHANGED <<tgt, answer>>
        /\ UNCHANGED <<redis, cache, now, process, asked>>

\* Mutant: the route is cached for ever.
StoreForever(h) ==
    /\ pc[h] = "store"
    /\ cache' = [cache EXCEPT ![req[h].route] = [val |-> tgt[h], exp |-> 0]]
    /\ Cache!Put(h, req[h].route)
    /\ GoTo(h, "forward")
    /\ UNCHANGED <<tgt, redis, process, asked>>

\* sc.Cache.SetDefault(route, &targetData); a full cache refuses, unnoticed.
Store(h) ==
    /\ pc[h] = "store"
    /\ \/ /\ cache' = [cache EXCEPT ![req[h].route] = [val |-> tgt[h], exp |-> now + TTL]]
          /\ Cache!Put(h, req[h].route)
       \/ Cache!Fail(h, "full")
    /\ GoTo(h, "forward")
    /\ UNCHANGED <<tgt, redis, process, asked>>

\* pc.Do: the request goes out to the target ...
Forward(h) ==
    /\ pc[h] = "forward"
    /\ GoTo(h, "do")
    /\ UNCHANGED <<tgt, redis, cache, answer, now, process, asked>>

\* ... and its response or an error comes back, if it does: the client has no
\* read timeout.
Done(h) ==
    /\ pc[h] = "do"
    /\ Respond(h)
    /\ UNCHANGED <<redis, cache, now, process, asked>>

Step(h) ==
    \/ CacheGet(h) \/ ParseToken(h) \/ TokenPanics(h)
    \/ Hget(h) \/ HgetFails(h) \/ Receive(h)
    \/ Store(h) \/ Forward(h)

Next ==
    \/ Start \/ Tick
    \/ \E x \in NewRel : Publish(x[1], x[2])
    \/ \E h \in Handlers :
         \/ AcceptFixed(h)
         \/ \E q \in Requests : Accept(h, q)
         \/ Step(h) \/ Done(h)

Spec == Init /\ [][Next]_vars

\* Goroutines run, and calls of redis end by their timeouts. Nothing is
\* assumed of the services that requests are forwarded to.
FairSpec == Spec /\ \A h \in Handlers : WF_vars(Step(h))

-----------------------------------------------------------------------------
(* Properties *)

\* The relation r was in redis under the edge e at time t or later.
HeldSince(e, r, t) ==
    rel[e] = r \/ \E x \in left : x.edge = e /\ x.rel = r /\ x.t >= t

\* Redis led from the caller of q to the target r, hop by hop, each hop no
\* longer ago than the later hops and the life of the cached route take.
Led(q, r) ==
    LET n == Len(q.stack)
        age_(i) == TTL + (n - i + 1) * ReadTimeout
        known == {rel[e] : e \in Apps \X Names} \cup {x.rel : x \in left}
    IN  \/ /\ q.form = "direct"
           /\ HeldSince(<<q.from, q.stack[n]>>, r, now - age_(n))
        \/ /\ q.form = "chain"
           /\ \E w \in [1..n -> known], f \in [1..n -> Apps] :
                /\ f[1] = q.from /\ w[n] = r
                /\ \A i \in 1..n : HeldSince(<<f[i], q.stack[i]>>, w[i], now - age_(i))
                /\ \A i \in 1..(n - 1) : f[i + 1] = w[i].app

\* A request is forwarded only to a host to which redis led a request of the
\* same route, over every hop of its chain, and did so no longer ago than a
\* cached route lives plus the time that the look-ups may take: neither
\* handlers that race for a route, nor one that stores an answer late, nor
\* relations that change during the walk make a replaced host live longer.
StaleBounded ==
    \A h \in Handlers :
        pc[h] = "forward" =>
            /\ tgt[h].host \in Hosts
            /\ \E q \in Requests : q.route = req[h].route /\ Led(q, tgt[h])

\* Every request is answered, or is with the service it was forwarded to: no
\* failure of redis, of the token or of the cache leaves a handler hanging.
Routed ==
    \A h \in Handlers :
        pc[h] \notin {"idle", "do"} ~> pc[h] \in {"idle", "do"}
=============================================================================
