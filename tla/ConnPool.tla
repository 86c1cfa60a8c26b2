------------------------------ MODULE ConnPool ------------------------------
(***************************************************************************)
(* The connection pool of one redisNode (utils/rediscluster/node.go) and   *)
(* the goroutines that borrow from it.                                     *)
(*                                                                         *)
(* Every command the client library sends follows one shape: getConn, send *)
(* a pipeline of k commands, flush, receive k replies, releaseConn; any    *)
(* error on the way shuts the connection down instead of releasing it.     *)
(*   "do"    redisNode.do                             k = 1                *)
(*   "rpush" redisNode.doRpushExpire (RPUSH, EXPIRE)  k = 2                *)
(*   "guard" Cluster.handleAsk (ASKING, cmd) and Cluster.SlaveDo           *)
(*           (READONLY, GET): the first reply must be OK     k = 2         *)
(*   "batch" doBatch on a master, or SlaveDo there: BatchLen commands      *)
(*   "slave" doBatch on a slave: READONLY, which must be OK, and a batch   *)
(* A goroutine that follows a redirection while it holds a connection acts *)
(* as two clients.                                                         *)
(* The sections that node.mutex protects are single actions; dialling and  *)
(* all traffic on a connection happen outside the mutex.                   *)
(***************************************************************************)
EXTENDS Integers, Sequences, FiniteSets

CONSTANTS
    Clients,    \* goroutines that use the node
    Conns,      \* identities of redisConn objects
    NoConn,     \* the nil *redisConn
    Kinds,      \* the kinds of pipelines the clients run
    BatchLen,   \* commands in a "batch" pipeline
    KeepAlive,  \* node.keepAlive: most idle connections kept
    AliveTime,  \* node.aliveTime, in clock ticks; <= 0 disables the pool
    MaxClock,   \* bound: last value of the clock
    MaxCalls    \* bound: calls each client makes

ASSUME PoolAssumption ==
    /\ NoConn \notin Conns
    /\ Kinds \subseteq {"do", "rpush", "guard", "batch", "slave"}
    /\ BatchLen \in Nat \ {0}
    /\ KeepAlive \in Int
    /\ AliveTime \in Int
    /\ MaxClock \in Nat
    /\ MaxCalls \in Nat

VARIABLES
    pool,     \* node.conns, a list: pool[1] is its Front, its last element the Back
    closed,   \* node.closed
    sock,     \* the socket behind each redisConn
    stamp,    \* conn.t, when the connection was last released
    pending,  \* conn.pending
    wire,     \* commands written to a connection, not yet answered
    inbox,    \* replies on a connection, not yet read
    pc,       \* where each client is
    held,     \* the connection each client has borrowed
    kind,     \* the pipeline each client runs
    call,     \* number of the client's current call
    got,      \* replies the client has read in its current call
    touched,  \* whether the current call may have written to a socket
    result,   \* what the last call returned
    now       \* time.Now()

connVars   == <<sock, stamp, pending, wire, inbox>>
clientVars == <<pc, held, kind, call, got, touched, result>>
vars       == <<pool, closed, connVars, clientVars, now>>

\* "dropped": out of the list and unreferenced, its descriptor still open
\* until the garbage collector runs the finalizer of the net.Conn.
SockStates == {"closed", "open", "dropped"}

PcStates == {"idle", "dial", "send", "recv", "release"}

\* "econn" is the reply redisError("ECONNTIMEOUT") with a nil error;
\* "err" a nil reply with an error; "ok" a reply.
Results == {"none", "ok", "err", "econn"}

PipelineLen(k) == CASE k = "do" -> 1
                    [] k = "rpush" -> 2
                    [] k = "guard" -> 2
                    [] k = "slave" -> 1 + BatchLen
                    [] OTHER -> BatchLen

\* What a failed getConn makes the caller return: do and doRpushExpire turn
\* it into a reply, the others into an error.
NoConnResult(k) == IF k \in {"do", "rpush"} THEN "econn" ELSE "err"

Request(c, n, i) == [client |-> c, call |-> n, idx |-> i]

Requests == [client : Clients, call : Nat, idx : Nat]

Init ==
    /\ pool = <<>>
    /\ closed = FALSE
    /\ sock = [x \in Conns |-> "closed"]
    /\ stamp = [x \in Conns |-> 0]
    /\ pending = [x \in Conns |-> 0]
    /\ wire = [x \in Conns |-> <<>>]
    /\ inbox = [x \in Conns |-> <<>>]
    /\ pc = [c \in Clients |-> "idle"]
    /\ held = [c \in Clients |-> NoConn]
    /\ kind = [c \in Clients |-> "do"]
    /\ call = [c \in Clients |-> 0]
    /\ got = [c \in Clients |-> <<>>]
    /\ touched = [c \in Clients |-> FALSE]
    /\ result = [c \in Clients |-> "none"]
    /\ now = 0

-----------------------------------------------------------------------------
(* getConn *)

\* conn.t.Add(node.aliveTime).After(time.Now())
Fresh(x) == stamp[x] + AliveTime > now

\* The expiry loop takes connections off the Back until it meets a fresh
\* one; n is the number of connections it leaves.
LeftByPurge(n) ==
    IF AliveTime > 0
    THEN /\ n > 0 => Fresh(pool[n])
         /\ \A i \in (n + 1)..Len(pool) : ~Fresh(pool[i])
    ELSE n = Len(pool)

\* The loop removes them from the list and does not close them.
DropPurged(n) ==
    sock' = [x \in Conns |->
               IF \E i \in (n + 1)..Len(pool) : pool[i] = x
               THEN "dropped" ELSE sock[x]]

StartCall(c, k) ==
    /\ pc[c] = "idle"
    /\ call[c] < MaxCalls
    /\ call' = [call EXCEPT ![c] = @ + 1]
    /\ kind' = [kind EXCEPT ![c] = k]
    /\ got' = [got EXCEPT ![c] = <<>>]
    /\ touched' = [touched EXCEPT ![c] = FALSE]

GetConnClosed(c, k) ==
    /\ StartCall(c, k)
    /\ closed
    /\ result' = [result EXCEPT ![c] = NoConnResult(k)]
    /\ UNCHANGED <<pool, closed, connVars, pc, held, now>>

\* The pool is empty once purged: unlock and dial.
GetConnDial(c, k) ==
    /\ StartCall(c, k)
    /\ ~closed
    /\ LeftByPurge(0)
    /\ DropPurged(0)
    /\ pool' = <<>>
    /\ pc' = [pc EXCEPT ![c] = "dial"]
    /\ result' = [result EXCEPT ![c] = "none"]
    /\ UNCHANGED <<closed, stamp, pending, wire, inbox, held, now>>

\* Mutant: the element stays in the list.
GetConnShared(c, k, n) ==
    /\ StartCall(c, k)
    /\ ~closed
    /\ n \in 1..Len(pool)
    /\ LeftByPurge(n)
    /\ DropPurged(n)
    /\ pool' = SubSeq(pool, 1, n)
    /\ held' = [held EXCEPT ![c] = pool[n]]
    /\ pc' = [pc EXCEPT ![c] = "send"]
    /\ result' = [result EXCEPT ![c] = "none"]
    /\ UNCHANGED <<closed, stamp, pending, wire, inbox, now>>

\* Take the connection at the Back.
GetConnPooled(c, k, n) ==
    /\ StartCall(c, k)
    /\ ~closed
    /\ n \in 1..Len(pool)
    /\ LeftByPurge(n)
    /\ DropPurged(n)
    /\ pool' = SubSeq(pool, 1, n - 1)
    /\ held' = [held EXCEPT ![c] = pool[n]]
    /\ pc' = [pc EXCEPT ![c] = "send"]
    /\ result' = [result EXCEPT ![c] = "none"]
    /\ UNCHANGED <<closed, stamp, pending, wire, inbox, now>>

DialOk(c, x) ==
    /\ pc[c] = "dial"
    /\ sock[x] = "closed"
    /\ sock' = [sock EXCEPT ![x] = "open"]
    /\ held' = [held EXCEPT ![c] = x]
    /\ pc' = [pc EXCEPT ![c] = "send"]
    /\ UNCHANGED <<pool, closed, stamp, pending, wire, inbox,
                   kind, call, got, touched, result, now>>

DialFail(c) ==
    /\ pc[c] = "dial"
    /\ pc' = [pc EXCEPT ![c] = "idle"]
    /\ result' = [result EXCEPT ![c] = NoConnResult(kind[c])]
    /\ UNCHANGED <<pool, closed, connVars, held, kind, call, got, touched, now>>

-----------------------------------------------------------------------------
(* send, flush, receive *)

\* conn.shutdown(): the socket is closed and the object is garbage; an
\* identity whose socket is closed stands for a fresh object again.
Shut(X) ==
    /\ sock' = [x \in Conns |-> IF x \in X THEN "closed" ELSE sock[x]]
    /\ stamp' = [x \in Conns |-> IF x \in X THEN 0 ELSE stamp[x]]
    /\ pending' = [x \in Conns |-> IF x \in X THEN 0 ELSE pending[x]]
    /\ wire' = [x \in Conns |-> IF x \in X THEN <<>> ELSE wire[x]]
    /\ inbox' = [x \in Conns |-> IF x \in X THEN <<>> ELSE inbox[x]]

\* An error path: conn.shutdown() and return the error.
ShutAndFail(c) ==
    /\ Shut({held[c]})
    /\ held' = [held EXCEPT ![c] = NoConn]
    /\ pc' = [pc EXCEPT ![c] = "idle"]
    /\ result' = [result EXCEPT ![c] = "err"]
    /\ UNCHANGED <<pool, closed, kind, call, got, now>>

\* k calls of conn.send and one conn.flush.
SendOk(c) ==
    /\ pc[c] = "send"
    /\ pending' = [pending EXCEPT ![held[c]] = @ + PipelineLen(kind[c])]
    /\ wire' = [wire EXCEPT ![held[c]] =
                  [i \in 1..PipelineLen(kind[c]) |-> Request(c, call[c], i)]]
    /\ touched' = [touched EXCEPT ![c] = TRUE]
    /\ pc' = [pc EXCEPT ![c] = "recv"]
    /\ UNCHANGED <<pool, closed, sock, stamp, inbox,
                   held, kind, call, got, result, now>>

\* Mutant: a failed write is reported as a connection never obtained.
SendErrAsEconn(c) ==
    /\ pc[c] = "send"
    /\ touched' = [touched EXCEPT ![c] = TRUE]
    /\ Shut({held[c]})
    /\ held' = [held EXCEPT ![c] = NoConn]
    /\ pc' = [pc EXCEPT ![c] = "idle"]
    /\ result' = [result EXCEPT ![c] = NoConnResult(kind[c])]
    /\ UNCHANGED <<pool, closed, kind, call, got, now>>

\* A write fails (deadline, reset); what was written may have arrived.
SendErr(c) ==
    /\ pc[c] = "send"
    /\ touched' = [touched EXCEPT ![c] = TRUE]
    /\ ShutAndFail(c)

\* EXTERNAL: the redis server answers the commands of a connection in order.
ServerReply(x) ==
    /\ wire[x] # <<>>
    /\ wire' = [wire EXCEPT ![x] = Tail(@)]
    /\ inbox' = [inbox EXCEPT ![x] = Append(@, Head(wire[x]))]
    /\ UNCHANGED <<pool, closed, sock, stamp, pending, clientVars, now>>

\* conn.receive decrements pending before it reads the reply.
ReceiveOk(c) ==
    /\ pc[c] = "recv"
    /\ pending[held[c]] > 0
    /\ inbox[held[c]] # <<>>
    /\ pending' = [pending EXCEPT ![held[c]] = @ - 1]
    /\ inbox' = [inbox EXCEPT ![held[c]] = Tail(@)]
    /\ got' = [got EXCEPT ![c] = Append(@, Head(inbox[held[c]]))]
    /\ pc' = [pc EXCEPT ![c] =
                IF Len(got[c]) + 1 = PipelineLen(kind[c]) THEN "release" ELSE "recv"]
    /\ UNCHANGED <<pool, closed, sock, stamp, wire,
                   held, kind, call, touched, result, now>>

\* Mutant: a timed out read releases the connection. receive has already
\* decremented pending, so releaseConn cannot tell.
ReceiveErrReleases(c) ==
    /\ pc[c] = "recv"
    /\ pending' = [pending EXCEPT ![held[c]] = @ - 1]
    /\ pc' = [pc EXCEPT ![c] = "release"]
    /\ UNCHANGED <<pool, closed, sock, stamp, wire, inbox, held, kind, call,
                   got, touched, result, now>>

\* Mutant: no read deadline is set.
ReceiveForever(c) ==
    /\ pc[c] = "recv"
    /\ FALSE
    /\ UNCHANGED vars

\* The read fails: deadline, reset, malformed reply.
ReceiveErr(c) ==
    /\ pc[c] = "recv"
    /\ UNCHANGED touched
    /\ ShutAndFail(c)

\* The reply to ASKING or READONLY is not OK.
GuardRejected(c) ==
    /\ pc[c] = "recv"
    /\ kind[c] \in {"guard", "slave"}
    /\ Len(got[c]) = 1
    /\ UNCHANGED touched
    /\ ShutAndFail(c)

-----------------------------------------------------------------------------
(* releaseConn and shutdown *)

Pooling == Len(pool) < KeepAlive /\ AliveTime > 0

\* Mutant: the connection is abandoned instead of closed.
ReleaseForgets(c) ==
    /\ pc[c] = "release"
    /\ pending[held[c]] > 0 \/ closed \/ ~Pooling
    /\ held' = [held EXCEPT ![c] = NoConn]
    /\ pc' = [pc EXCEPT ![c] = "idle"]
    /\ result' = [result EXCEPT ![c] = "ok"]
    /\ UNCHANGED <<pool, closed, connVars, kind, call, got, touched, now>>

ReleaseShut(c) ==
    /\ pc[c] = "release"
    /\ pending[held[c]] > 0 \/ closed \/ ~Pooling
    /\ Shut({held[c]})
    /\ held' = [held EXCEPT ![c] = NoConn]
    /\ pc' = [pc EXCEPT ![c] = "idle"]
    /\ result' = [result EXCEPT ![c] = "ok"]
    /\ UNCHANGED <<pool, closed, kind, call, got, touched, now>>

\* Mutant: the connection goes to the wrong end of the list.
ReleasePushBack(c) ==
    /\ pc[c] = "release"
    /\ pending[held[c]] <= 0 /\ ~closed /\ Pooling
    /\ stamp' = [stamp EXCEPT ![held[c]] = now]
    /\ pool' = Append(pool, held[c])
    /\ held' = [held EXCEPT ![c] = NoConn]
    /\ pc' = [pc EXCEPT ![c] = "idle"]
    /\ result' = [result EXCEPT ![c] = "ok"]
    /\ UNCHANGED <<closed, sock, pending, wire, inbox, kind, call, got, touched, now>>

\* Mutant: held is cleared first, and nil is put into the list.
ReleaseNil(c) ==
    /\ pc[c] = "release"
    /\ pending[held[c]] <= 0 /\ ~closed /\ Pooling
    /\ stamp' = [stamp EXCEPT ![held[c]] = now]
    /\ pool' = <<NoConn>> \o pool
    /\ held' = [held EXCEPT ![c] = NoConn]
    /\ pc' = [pc EXCEPT ![c] = "idle"]
    /\ result' = [result EXCEPT ![c] = "ok"]
    /\ UNCHANGED <<closed, sock, pending, wire, inbox, kind, call, got, touched, now>>

ReleasePooled(c) ==
    /\ pc[c] = "release"
    /\ pending[held[c]] <= 0 /\ ~closed /\ Pooling
    /\ stamp' = [stamp EXCEPT ![held[c]] = now]
    /\ pool' = <<held[c]>> \o pool
    /\ held' = [held EXCEPT ![c] = NoConn]
    /\ pc' = [pc EXCEPT ![c] = "idle"]
    /\ result' = [result EXCEPT ![c] = "ok"]
    /\ UNCHANGED <<closed, sock, pending, wire, inbox, kind, call, got, touched, now>>

\* redisNode.shutdown: called when Cluster.Update evicts the node and by
\* Cluster.Close.
Shutdown ==
    /\ ~closed
    /\ closed' = TRUE
    /\ Shut({pool[i] : i \in 1..Len(pool)})
    /\ pool' = <<>>
    /\ UNCHANGED <<clientVars, now>>

Tick ==
    /\ now < MaxClock
    /\ now' = now + 1
    /\ UNCHANGED <<pool, closed, connVars, clientVars>>

\* EXTERNAL: the garbage collector finalizes a dropped connection.
Finalize(x) ==
    /\ sock[x] = "dropped"
    /\ Shut({x})
    /\ UNCHANGED <<pool, closed, clientVars, now>>

-----------------------------------------------------------------------------
GetConn(c) ==
    \E k \in Kinds :
        \/ GetConnClosed(c, k)
        \/ GetConnDial(c, k)
        \/ \E n \in 1..Len(pool) : GetConnPooled(c, k, n)

\* The steps a client takes once its call has begun.
Proceed(c) ==
    \/ \E x \in Conns : DialOk(c, x)
    \/ DialFail(c)
    \/ SendOk(c)
    \/ SendErr(c)
    \/ ReceiveOk(c)
    \/ ReceiveErr(c)
    \/ GuardRejected(c)
    \/ ReleaseShut(c)
    \/ ReleasePooled(c)

Next ==
    \/ \E c \in Clients : GetConn(c) \/ Proceed(c)
    \/ \E x \in Conns : ServerReply(x) \/ Finalize(x)
    \/ Shutdown
    \/ Tick

Spec == Init /\ [][Next]_vars

\* A goroutine inside a call keeps running: dialling ends by connTimeout,
\* a write by writeTimeout and a read by readTimeout.
FairSpec == Spec /\ \A c \in Clients : WF_vars(Proceed(c))

-----------------------------------------------------------------------------
(* Properties *)

Pooled == {pool[i] : i \in 1..Len(pool)}

\* The variables of the node, its connections and its callers keep their
\* Go types; a socket has one of the three states of its life.
TypeOK ==
    /\ pool \in Seq(Conns)
    /\ closed \in BOOLEAN
    /\ sock \in [Conns -> SockStates]
    /\ stamp \in [Conns -> Nat]
    /\ pending \in [Conns -> Nat]
    /\ wire \in [Conns -> Seq(Requests)]
    /\ inbox \in [Conns -> Seq(Requests)]
    /\ pc \in [Clients -> PcStates]
    /\ held \in [Clients -> Conns \cup {NoConn}]
    /\ kind \in [Clients -> Kinds \cup {"do"}]
    /\ call \in [Clients -> Nat]
    /\ got \in [Clients -> Seq(Requests)]
    /\ touched \in [Clients -> BOOLEAN]
    /\ result \in [Clients -> Results]
    /\ now \in Nat

\* A caller has a connection from the moment getConn returns one until it
\* releases or closes it.
HeldOK == \A c \in Clients : held[c] # NoConn <=> pc[c] \in {"send", "recv", "release"}

\* A redisConn is not safe for concurrent use, so it has one owner: no
\* connection is twice in node.conns, in the list while a goroutine uses it,
\* or in the hands of two goroutines, whatever the order of getConn,
\* releaseConn, the expiry loop and shutdown.
SingleOwner ==
    /\ \A i, j \in 1..Len(pool) : i # j => pool[i] # pool[j]
    /\ \A c \in Clients : held[c] # NoConn => held[c] \notin Pooled
    /\ \A c, d \in Clients : c # d /\ held[c] # NoConn => held[c] # held[d]

\* A connection in the list can serve a new command at once: its socket is
\* open, it owes no reply and none is under way. releaseConn tests
\* conn.pending only, which receive decrements before it has read the
\* reply, so every failing receive has to close the connection itself.
PooledQuiet ==
    \A x \in Pooled :
        sock[x] = "open" /\ pending[x] = 0 /\ wire[x] = <<>> /\ inbox[x] = <<>>

\* A caller only ever reads the answers to its own commands, in order: a
\* reply that arrives after its reader timed out is never taken for the
\* reply to a later command, of this caller or of another.
RepliesMatch ==
    \A c \in Clients : \A i \in 1..Len(got[c]) : got[c][i] = Request(c, call[c], i)

\* ECONNTIMEOUT means that nothing was written: handleConnTimeout may send
\* the command again, to another node, without running it twice.
EconnUnsent == \A c \in Clients : result[c] = "econn" => ~touched[c]

\* Every open socket is idle in the list, in use, or dropped from the list
\* when it expired: no path of do, doRpushExpire, handleAsk, SlaveDo or doBatch
\* forgets to release or to close.
SocketsOwned ==
    \A x \in Conns : sock[x] = "open" => x \in Pooled \/ \E c \in Clients : held[c] = x

\* A node that has been shut down keeps no idle connection: a connection
\* that was borrowed, or being dialled, when shutdown ran is not put back.
ClosedDrained == closed => pool = <<>>

\* A step of getConn leaves its caller and the list with fresh connections.
GetConnFresh ==
    \A c \in Clients :
        pc[c] = "idle" /\ pc'[c] \in {"send", "dial"} =>
            /\ held'[c] # NoConn => Fresh(held'[c])
            /\ \A i \in 1..Len(pool') : Fresh(pool'[i])

\* getConn never hands out a pooled connection idle for aliveTime or more,
\* and leaves none in the list. The loop stops at the first fresh connection
\* from the Back, so this rests on the list being ordered by release time.
NoStaleConn == [][GetConnFresh]_vars

\* The strengthening that makes the properties above inductive. A connection
\* in the list or in use has an open socket:
OwnedOpen ==
    /\ \A x \in Pooled : sock[x] = "open"
    /\ \A c \in Clients : held[c] # NoConn => sock[held[c]] = "open"

\* the list, which is used only with an aliveTime, is ordered by release time:
PoolOrdered ==
    /\ pool # <<>> => AliveTime > 0
    /\ \A i \in 1..Len(pool) : stamp[pool[i]] <= now
    /\ \A i, j \in 1..Len(pool) : i <= j => stamp[pool[i]] >= stamp[pool[j]]

\* a connection that no caller has is silent:
UnheldQuiet ==
    \A x \in Conns : (\A c \in Clients : held[c] # x) =>
        pending[x] = 0 /\ wire[x] = <<>> /\ inbox[x] = <<>>

\* and one that a caller has carries the rest of that caller's pipeline, the
\* replies read, the replies to read and the commands to answer in a row.
Flight(c) ==
    LET x == held[c]
        n == PipelineLen(kind[c])
    IN  /\ pc[c] \in {"send", "release"} => pending[x] = 0 /\ wire[x] = <<>> /\ inbox[x] = <<>>
        /\ pc[c] \in {"dial", "send"} => got[c] = <<>>
        /\ pc[c] = "recv" =>
              /\ Len(got[c]) < n
              /\ pending[x] = n - Len(got[c])
              /\ Len(inbox[x]) + Len(wire[x]) = n - Len(got[c])
              /\ \A i \in 1..Len(inbox[x]) :
                    inbox[x][i] = Request(c, call[c], Len(got[c]) + i)
              /\ \A i \in 1..Len(wire[x]) :
                    wire[x][i] = Request(c, call[c], Len(got[c]) + Len(inbox[x]) + i)

InFlight == \A c \in Clients : Flight(c)

\* A call that has not sent yet has written nothing, and has no result while
\* it is under way.
CallFresh ==
    \A c \in Clients :
        /\ pc[c] \in {"dial", "send"} => ~touched[c]
        /\ pc[c] # "idle" => result[c] = "none"

\* Every call returns: no getConn, send, flush or receive blocks for ever.
CallReturns == \A c \in Clients : pc[c] # "idle" ~> pc[c] = "idle"

\* Once a node is shut down its sockets are all closed, and stay closed, as
\* soon as the calls under way are over, a dial that started before
\* shutdown and ended after it included.
ShutdownDrains == closed ~> [](\A x \in Conns : sock[x] # "open")
=============================================================================
