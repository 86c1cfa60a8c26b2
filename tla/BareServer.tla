----------------------------- MODULE BareServer -----------------------------
(***************************************************************************)
(* The network server (utils/bareneter): one goroutine that listens and    *)
(* accepts, one that handles each connection, and Close, called from any   *)
(* goroutine. The handler is the proxy's RequestHandleRESP, which closes   *)
(* its connection on every way out, panics included; what it does with     *)
(* commands is module LogProxy.                                            *)
(***************************************************************************)
EXTENDS Naturals, FiniteSets

CONSTANTS
    Clients,   \* client connections
    NoConn,
    Unix,      \* s.net = "unix"
    MayClose   \* whether the application calls Close

ASSUME ServerAssumption ==
    NoConn \notin Clients /\ Unix \in BOOLEAN /\ MayClose \in BOOLEAN

VARIABLES
    ln,       \* s.ln: "nil", "open", "closed"
    done,     \* s.done
    conns,    \* s.conns, empty when it is nil
    spc,      \* where the serving goroutine is
    cur,      \* the connection it has just accepted
    ret,      \* what ListenAndServe returned
    sock,     \* the socket of each connection
    hpc       \* where the goroutine of each connection is

serverVars == <<ln, done, conns, spc, cur, ret, sock, hpc>>

ServerInit ==
    /\ ln = "nil"
    /\ done = FALSE
    /\ conns = {}
    /\ spc = "listen"
    /\ cur = NoConn
    /\ ret = "none"
    /\ sock = [c \in Clients |-> "new"]
    /\ hpc = [c \in Clients |-> "none"]

-----------------------------------------------------------------------------
(* ListenServeAndSignal *)

Listen ==
    /\ spc = "listen"
    /\ ln' = "open"
    /\ spc' = IF Unix THEN "chmod" ELSE "accept"
    /\ UNCHANGED <<done, conns, cur, ret, sock, hpc>>

\* RmUnixFile or net.Listen fails.
ListenFail ==
    /\ spc = "listen"
    /\ spc' = "ended" /\ ret' = "err"
    /\ UNCHANGED <<ln, done, conns, cur, sock, hpc>>

\* ChmodUnixFile; if it fails the listener is left open.
Chmod ==
    /\ spc = "chmod"
    /\ \/ spc' = "accept" /\ UNCHANGED ret
       \/ spc' = "ended" /\ ret' = "err"
    /\ UNCHANGED <<ln, done, conns, cur, sock, hpc>>

-----------------------------------------------------------------------------
(* serve *)

Accept(c) ==
    /\ spc = "accept" /\ ln = "open"
    /\ sock[c] = "new"
    /\ sock' = [sock EXCEPT ![c] = "open"]
    /\ cur' = c
    /\ spc' = "insert"
    /\ UNCHANGED <<ln, done, conns, ret, hpc>>

Insert ==
    /\ spc = "insert"
    /\ conns' = conns \cup {cur}
    /\ spc' = "ask"
    /\ UNCHANGED <<ln, done, cur, ret, sock, hpc>>

\* s.accept says yes: go handle(s, c).
Spawn ==
    /\ spc = "ask"
    /\ hpc' = [hpc EXCEPT ![cur] = "handler"]
    /\ cur' = NoConn
    /\ spc' = "accept"
    /\ UNCHANGED <<ln, done, conns, ret, sock>>

\* s.accept says no (the proxy's does only if it panics): the connection is
\* taken out of the map, under s.mu, and then closed.
TurnAway ==
    /\ spc = "ask"
    /\ conns' = conns \ {cur}
    /\ spc' = "refuse"
    /\ UNCHANGED <<ln, done, cur, ret, sock, hpc>>

\* Mutant: a refused connection is forgotten, not closed.
RefuseOpen ==
    /\ spc = "refuse"
    /\ cur' = NoConn
    /\ spc' = "accept"
    /\ UNCHANGED <<ln, done, conns, ret, sock, hpc>>

RefuseConn ==
    /\ spc = "refuse"
    /\ sock' = [sock EXCEPT ![cur] = "closed"]
    /\ cur' = NoConn
    /\ spc' = "accept"
    /\ UNCHANGED <<ln, done, conns, ret, hpc>>

\* Accept fails: the listener is closed, or the process is out of
\* descriptors; either ends the loop.
AcceptFail ==
    /\ spc = "accept"
    /\ ret' = IF done THEN "nil" ELSE "err"
    /\ spc' = "teardown"
    /\ UNCHANGED <<ln, done, conns, cur, sock, hpc>>

\* Mutant: the accepted connections are left to themselves.
TeardownListener ==
    /\ spc = "teardown"
    /\ ln' = "closed"
    /\ conns' = {}
    /\ spc' = "ended"
    /\ UNCHANGED <<done, cur, ret, sock, hpc>>

\* The deferred function: the listener and every connection of the map are
\* closed, under s.mu.
Teardown ==
    /\ spc = "teardown"
    /\ ln' = "closed"
    /\ sock' = [c \in Clients |-> IF c \in conns THEN "closed" ELSE sock[c]]
    /\ conns' = {}
    /\ spc' = "ended"
    /\ UNCHANGED <<done, cur, ret, hpc>>

-----------------------------------------------------------------------------
(* Close and handle *)

\* Close; before s.ln is set it only returns an error.
Close ==
    /\ MayClose /\ ln # "nil"
    /\ done' = TRUE
    /\ ln' = "closed"
    /\ UNCHANGED <<conns, spc, cur, ret, sock, hpc>>

\* The handler returns, for a reason of its own (end of the stream, a bad or
\* refused command) or because its socket was closed under it.
HandlerReturns(c) ==
    /\ hpc[c] = "handler"
    /\ sock' = [sock EXCEPT ![c] = "closed"]
    /\ hpc' = [hpc EXCEPT ![c] = "cleanup"]
    /\ UNCHANGED <<ln, done, conns, spc, cur, ret>>

\* The deferred function of handle, under s.mu: the map and the closed
\* callback (the proxy's only logs).
Cleanup(c) ==
    /\ hpc[c] = "cleanup"
    /\ conns' = conns \ {c}
    /\ hpc' = [hpc EXCEPT ![c] = "gone"]
    /\ UNCHANGED <<ln, done, spc, cur, ret, sock>>

\* Mutant: a connection is entered in the map once its goroutine runs.
ServeSpawnsFirst ==
    \/ Listen \/ ListenFail \/ Chmod \/ TurnAway \/ RefuseConn \/ AcceptFail \/ Teardown
    \/ /\ spc = "insert"
       /\ hpc' = [hpc EXCEPT ![cur] = "handler"]
       /\ spc' = "ask"
       /\ UNCHANGED <<ln, done, conns, cur, ret, sock>>
    \/ /\ spc = "ask"
       /\ conns' = conns \cup {cur}
       /\ cur' = NoConn
       /\ spc' = "accept"
       /\ UNCHANGED <<ln, done, ret, sock, hpc>>

Serve ==
    \/ Listen \/ ListenFail \/ Chmod
    \/ Insert \/ Spawn \/ TurnAway \/ RefuseConn \/ AcceptFail \/ Teardown

Handle(c) == HandlerReturns(c) \/ Cleanup(c)

ServerNext ==
    \/ Serve
    \/ \E c \in Clients : Accept(c) \/ Handle(c)
    \/ Close

ServerSpec == ServerInit /\ [][ServerNext]_serverVars

\* The serving goroutine never waits except in Accept, which a closed
\* listener ends. A handler waits for its client without a deadline, but a
\* read on a closed socket returns.
FairServerSpec ==
    /\ ServerSpec
    /\ WF_serverVars(spc # "accept" /\ Serve)
    /\ WF_serverVars(ln = "closed" /\ AcceptFail)
    /\ \A c \in Clients : WF_serverVars((hpc[c] = "cleanup" \/ sock[c] = "closed") /\ Handle(c))

-----------------------------------------------------------------------------
(* Properties *)

\* The variables keep their Go types.
ServerTypeOK ==
    /\ ln \in {"nil", "open", "closed"}
    /\ done \in BOOLEAN
    /\ conns \subseteq Clients
    /\ spc \in {"listen", "chmod", "accept", "insert", "ask", "refuse", "teardown", "ended"}
    /\ cur \in Clients \cup {NoConn}
    /\ cur # NoConn <=> spc \in {"insert", "ask", "refuse"}
    /\ ret \in {"none", "nil", "err"}
    /\ sock \in [Clients -> {"new", "open", "closed"}]
    /\ hpc \in [Clients -> {"none", "handler", "cleanup", "gone"}]

\* The map always leads to every open connection, except the one that the
\* serving goroutine itself is about to enter or to close: the teardown, which
\* that goroutine runs, misses none.
OpenTracked ==
    \A c \in Clients :
        sock[c] = "open" => c \in conns \/ (c = cur /\ spc \in {"insert", "refuse"})

\* What makes it inductive: a goroutine that is cleaning up has closed its
\* socket, and a socket has no goroutine before it is spawned.
HandlersClose ==
    /\ \A c \in Clients : hpc[c] \in {"cleanup", "gone"} => sock[c] = "closed"
    /\ \A c \in Clients : sock[c] = "new" => hpc[c] = "none"
    /\ \A c \in Clients : c = cur => hpc[c] = "none" /\ sock[c] # "new"

\* The map leads to no connection whose goroutine is over: an entry is made
\* before the goroutine starts, which takes it out, so the map does not grow
\* with connections that are gone, however soon they go.
MapServed ==
    \A c \in conns : (c = cur /\ spc = "ask") \/ hpc[c] \in {"handler", "cleanup"}

\* "Already Accepted connections will be closed": after Close, the serving
\* goroutine ends, and every connection accepted before or meanwhile is closed
\* and its goroutine over.
CloseStops ==
    done ~> /\ spc = "ended"
            /\ \A c \in Clients : sock[c] # "open" /\ hpc[c] \in {"none", "gone"}
=============================================================================
