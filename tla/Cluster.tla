------------------------------ MODULE Cluster -------------------------------
(***************************************************************************)
(* The cluster client (utils/rediscluster/cluster.go, multi.go): the slot  *)
(* table that Update installs and evicts nodes from, the updater goroutine *)
(* that Inform wakes, and the goroutines that run Do, SlaveDo, multiSet    *)
(* and multiGet, following MOVED, ASK and ECONNTIMEOUT.                    *)
(*                                                                         *)
(* A *redisNode is a record [addr, role, gen]: two objects for one address *)
(* differ in gen. Its pool is module ConnPool, reduced here to "shut down  *)
(* or not". The sections that rwLock protects are single actions. The      *)
(* redis servers are external: they agree on the topology at all times,    *)
(* and it changes under the client's feet.                                 *)
(***************************************************************************)
EXTENDS Integers, Sequences, FiniteSets

CONSTANTS
    Clients,     \* goroutines that call the cluster
    Slots,       \* hash slots (kClusterSlots of them)
    Addrs,       \* addresses of redis servers
    NoAddr,      \* no server
    NoNode,      \* the nil *redisNode
    Ops,         \* kinds of calls: subset of {"rpush", "cmd", "slave", "mset", "mget"}
    SlaveReads,  \* options.SlaveOperateRate > 0
    MayClose,    \* whether the application calls Close
    InitOwner,   \* initial master of each slot
    InitMaster,  \* initial master of each replica, NoAddr for a master
    MaxChanges,  \* bound: topology changes
    MaxFaults    \* bound: transient network faults

ASSUME ClusterAssumption ==
    /\ NoAddr \notin Addrs
    /\ Ops \subseteq {"rpush", "cmd", "slave", "mset", "mget"}
    /\ SlaveReads \in BOOLEAN /\ MayClose \in BOOLEAN
    /\ InitMaster \in [Addrs -> Addrs \cup {NoAddr}]
    /\ InitOwner \in [Slots -> Addrs]
    /\ MaxChanges \in Nat /\ MaxFaults \in Nat

Roles == {"master", "slave"}
Nodes == [addr : Addrs, role : Roles, gen : Nat]

ASSUME NoNodeAssumption == NoNode \notin Nodes

VARIABLES
    owner,       \* EXTERNAL: master of each slot, NoAddr if unassigned
    moving,      \* EXTERNAL: where a slot is migrating to, or NoAddr
    master,      \* EXTERNAL: master of each replica, NoAddr for a master
    up,          \* EXTERNAL: the servers that run
    changes,     \* topology changes so far
    faults,      \* transient faults so far
    slots,       \* cluster.slots
    slaveslots,  \* cluster.slaveslots, a set of nodes for each slot
    nodes,       \* cluster.nodes, NoNode where the map has no entry
    slaveNodes,  \* cluster.slaveNodes
    made,        \* nodes created so far for each role and address
    shut,        \* the nodes on which shutdown was called
    closed,      \* cluster.closed
    recent,      \* less than a second has passed since cluster.updateTime
    upc,         \* where the updater goroutine is
    msg,         \* the node of the message it received
    snap,        \* the topology it fetched
    pc,          \* where each client is
    op,          \* the call it runs
    slot,        \* slot of the key
    node,        \* the node Do first chose
    target,      \* the node it is talking to
    stage,       \* the call site it is talking from
    reply,       \* the last reply
    effects,     \* what the servers did for the call
    ret          \* what the last call returned

serverVars == <<owner, moving, master, up, changes>>
tableVars  == <<slots, slaveslots, nodes, slaveNodes, made, shut, closed>>
updVars    == <<recent, upc, msg, snap>>
callVars   == <<pc, op, slot, node, target, stage, reply, effects, ret>>
vars       == <<serverVars, faults, tableVars, updVars, callVars>>

-----------------------------------------------------------------------------
(* Replies and topologies *)

ReplyKinds == {"none", "ok", "moved", "ask", "down", "econn", "err"}
Reply(k, a) == [k |-> k, to |-> a]

\* "first"  Do, SlaveDo, handleSetTask, handleGetTask: the node of the slot
\* "move"   handleMove: the node MOVED names
\* "ask"    handleAsk: the node ASK names
\* "any"    handleConnTimeout: a random other node
\* "last"   handleConnTimeout: the node that one names
Stages == {"first", "move", "ask", "any", "last"}

PcStates == {"idle", "conn", "exec", "expire", "reply", "lookup", "panic"}

\* "nil" is a nil reply with a nil error, "redis" an error reply of redis.
Rets == {"none", "ok", "err", "down", "redis", "nil"}

\* EXTERNAL: the answer to CLUSTER SLOTS.
Topology ==
    [s \in Slots |-> [m |-> owner[s],
                      r |-> {a \in up : owner[s] # NoAddr /\ master[a] = owner[s]}]]

\* What Update has parsed before it asks.
NoTopology == [s \in Slots |-> [m |-> NoAddr, r |-> {}]]
Topologies == [Slots -> [m : Addrs \cup {NoAddr}, r : SUBSET Addrs]]

\* EXTERNAL: what server a may answer to a command on slot s.
Replies(a, s, asking, readonly) ==
    IF \E t \in Slots : owner[t] = NoAddr THEN {Reply("down", NoAddr)}
    ELSE IF owner[s] = a
    THEN {Reply("ok", NoAddr)} \cup {Reply("ask", b) : b \in {moving[s]} \ {NoAddr}}
    ELSE IF (asking /\ moving[s] = a) \/ (readonly /\ master[a] = owner[s])
    THEN {Reply("ok", NoAddr)}
    ELSE {Reply("moved", owner[s])}

-----------------------------------------------------------------------------
(* Update and the updater goroutine *)

\* Mutant: no test ("TODO: Is full coverage really needed?").
AnyCoverage(topo) == TRUE

\* nslots == kClusterSlots
Covered(topo) == \A s \in Slots : topo[s].m # NoAddr

Masters(topo) == {topo[s].m : s \in Slots} \ {NoAddr}
Replicas(topo) == UNION {topo[s].r : s \in Slots}

\* The map after an update that lists the addresses A: known nodes are kept,
\* the others created.
Kept(map, A, role) ==
    [a \in Addrs |->
        IF a \notin A THEN NoNode
        ELSE IF map[a] # NoNode THEN map[a]
        ELSE [addr |-> a, role |-> role, gen |-> made[role][a]]]

InMap(map) == {map[a] : a \in Addrs} \ {NoNode}

\* Mutant: the nodes that left the topology are deleted, not shut down.
NotEvicted(map, A) == {}

\* The nodes whose updateTime is not the one of this update.
Evicted(map, A) == {map[a] : a \in Addrs \ A} \ {NoNode}

Created(map, A) == {a \in A : map[a] = NoNode}

\* The nodes of the masters of the slots.
InstallSlots(topo, map) ==
    [s \in Slots |-> IF topo[s].m = NoAddr THEN slots[s] ELSE map[topo[s].m]]

\* The table after a successful Update, under rwLock.
Install(topo) ==
    LET M  == Masters(topo)
        R  == Replicas(topo)
        nm == Kept(nodes, M, "master")
        ns == Kept(slaveNodes, R, "slave")
    IN  /\ nodes' = nm
        /\ slaveNodes' = ns
        /\ slots' = InstallSlots(topo, nm)
        /\ slaveslots' = [s \in Slots |-> {ns[a] : a \in topo[s].r}]
        /\ shut' = shut \cup Evicted(nodes, M) \cup Evicted(slaveNodes, R)
        /\ made' = [role \in Roles |->
                      [a \in Addrs |->
                         IF a \in (IF role = "master" THEN Created(nodes, M)
                                                      ELSE Created(slaveNodes, R))
                         THEN made[role][a] + 1 ELSE made[role][a]]]

\* A transient network fault.
Fault == faults < MaxFaults /\ faults' = faults + 1

FetchOk ==
    /\ upc = "fetch"
    /\ msg # NoNode /\ msg \notin shut /\ msg.addr \in up
    /\ Covered(Topology)
    /\ snap' = Topology
    /\ upc' = "apply"
    /\ UNCHANGED <<serverVars, faults, tableVars, recent, msg, callVars>>

FetchFail ==
    /\ upc = "fetch"
    /\ \/ /\ \/ msg = NoNode
             \/ msg # NoNode /\ (msg \in shut \/ msg.addr \notin up)
             \/ ~Covered(Topology)
          /\ UNCHANGED faults
       \/ Fault
    /\ upc' = "loop"
    /\ UNCHANGED <<serverVars, tableVars, recent, msg, snap, callVars>>

Apply ==
    /\ upc = "apply"
    /\ Install(snap)
    /\ recent' = TRUE
    /\ upc' = "loop"
    /\ UNCHANGED <<serverVars, faults, closed, msg, snap, callVars>>

\* Back to the receive of handleUpdate; the message and the topology go.
UpdaterLoop ==
    /\ upc = "loop"
    /\ upc' = "wait"
    /\ msg' = NoNode
    /\ snap' = NoTopology
    /\ UNCHANGED <<serverVars, faults, tableVars, recent, callVars>>

\* One second has passed since the last update.
WindowPasses ==
    /\ recent
    /\ recent' = FALSE
    /\ UNCHANGED <<serverVars, faults, tableVars, upc, msg, snap, callVars>>

\* Inform: the send succeeds only if the updater is at its receive, and
\* handleUpdate drops a message of the second that follows an update. Only
\* the updater moves updateTime, so the outcome is settled here.
Inform(n) ==
    IF upc = "wait" /\ ~recent
    THEN upc' = "fetch" /\ msg' = n
    ELSE UNCHANGED <<upc, msg>>

\* The choice of a random master other than the one given, NoNode if the
\* map is empty.
RandomNode(n) ==
    LET all    == InMap(nodes)
        others == {r \in all : r.addr # n.addr}
    IN  IF others # {} THEN others ELSE IF all # {} THEN all ELSE {NoNode}

\* UpdateSlotsByRandomMasterNode: the heartbeat of NewCluster, and the
\* goroutine SlaveDo starts when a slot has no replica.
Heartbeat ==
    /\ SlaveReads
    /\ \E r \in (IF InMap(nodes) = {} THEN {NoNode} ELSE InMap(nodes)) : Inform(r)
    /\ UNCHANGED <<serverVars, faults, tableVars, recent, snap, callVars>>

-----------------------------------------------------------------------------
(* The beginning of a call: getNodeByKey, getAnRandomSlaveNodeByKey *)

\* The nodes a call may start with; multiSet and multiGet do not test closed.
FirstNodes(o, s) ==
    IF o \in {"mset", "mget"} THEN {slots[s]}
    ELSE IF closed THEN {}
    ELSE IF o = "slave" /\ slaveslots[s] # {} THEN slaveslots[s]
    ELSE {slots[s]}

Start(c, o, s) ==
    /\ pc[c] = "idle"
    /\ slot' = [slot EXCEPT ![c] = s]
    /\ stage' = [stage EXCEPT ![c] = "first"]
    /\ reply' = [reply EXCEPT ![c] = Reply("none", NoAddr)]
    /\ effects' = [effects EXCEPT ![c] = <<>>]
    /\ IF FirstNodes(o, s) = {}
       THEN /\ ret' = [ret EXCEPT ![c] = "err"]
            /\ UNCHANGED <<pc, op, node, target>>
       ELSE \E r \in FirstNodes(o, s) :
               /\ op' = [op EXCEPT ![c] = o]
               /\ node' = [node EXCEPT ![c] = r]
               /\ target' = [target EXCEPT ![c] = r]
               /\ pc' = [pc EXCEPT ![c] = "conn"]
               /\ ret' = [ret EXCEPT ![c] = "none"]
    /\ UNCHANGED <<serverVars, faults, tableVars, updVars>>

-----------------------------------------------------------------------------
(* One exchange with the target node *)

Got(c, r) == reply' = [reply EXCEPT ![c] = r] /\ pc' = [pc EXCEPT ![c] = "reply"]

GetConnOk(c) ==
    /\ pc[c] = "conn"
    /\ target[c] \notin shut /\ target[c].addr \in up
    /\ pc' = [pc EXCEPT ![c] = "exec"]
    /\ UNCHANGED <<serverVars, faults, tableVars, updVars,
                   op, slot, node, target, stage, reply, effects, ret>>

\* node.do and doRpushExpire answer ECONNTIMEOUT; handleAsk and SlaveDo,
\* which call getConn themselves, return the error.
NoConnReply(c) ==
    IF stage[c] = "ask" \/ (stage[c] = "first" /\ op[c] = "slave")
    THEN Reply("err", NoAddr) ELSE Reply("econn", NoAddr)

GetConnFail(c) ==
    /\ pc[c] = "conn"
    /\ \/ (target[c] \in shut \/ target[c].addr \notin up) /\ UNCHANGED faults
       \/ Fault
    /\ Got(c, NoConnReply(c))
    /\ UNCHANGED <<serverVars, tableVars, updVars,
                   op, slot, node, target, stage, effects, ret>>

\* Do runs RPUSH key value expire with doRpushExpire, which sends RPUSH key
\* value and EXPIRE key expire in one pipeline; every other call site passes
\* the arguments as they are to do.
Pipelined(c) == op[c] = "rpush" /\ stage[c] = "first"

\* EXTERNAL: what the server appends to the list.
Pushed(c) == IF op[c] # "rpush" \/ Pipelined(c) THEN <<"val">> ELSE <<"val", "ttl">>

ServerReplies(c) ==
    Replies(target[c].addr, slot[c], stage[c] = "ask",
            op[c] = "slave" /\ stage[c] = "first" /\ target[c].role = "slave")

\* The server runs the command and the reply comes back.
Exec(c) ==
    /\ pc[c] = "exec"
    /\ target[c].addr \in up
    /\ \E r \in ServerReplies(c) :
         /\ reply' = [reply EXCEPT ![c] = r]
         /\ effects' = [effects EXCEPT ![c] = IF r.k = "ok" THEN @ \o Pushed(c) ELSE @]
    /\ pc' = [pc EXCEPT ![c] = IF Pipelined(c) THEN "expire" ELSE "reply"]
    /\ UNCHANGED <<serverVars, faults, tableVars, updVars,
                   op, slot, node, target, stage, ret>>

\* The reply is lost; the command may have been run all the same.
ExecLost(c) ==
    /\ pc[c] = "exec"
    /\ IF target[c].addr \in up
       THEN /\ Fault
            /\ \E r \in ServerReplies(c) :
                 effects' = [effects EXCEPT ![c] =
                               IF r.k = "ok" THEN @ \o Pushed(c) ELSE @]
       ELSE UNCHANGED <<faults, effects>>
    /\ Got(c, Reply("err", NoAddr))
    /\ UNCHANGED <<serverVars, tableVars, updVars, op, slot, node, target, stage, ret>>

\* EXPIRE, the second command of the pipeline; its reply is thrown away.
Expire(c) ==
    /\ pc[c] = "expire"
    /\ target[c].addr \in up
    /\ \E r \in ServerReplies(c) :
         effects' = [effects EXCEPT ![c] = IF r.k = "ok" THEN Append(@, "expire") ELSE @]
    /\ pc' = [pc EXCEPT ![c] = "reply"]
    /\ UNCHANGED <<serverVars, faults, tableVars, updVars,
                   op, slot, node, target, stage, reply, ret>>

ExpireLost(c) ==
    /\ pc[c] = "expire"
    /\ IF target[c].addr \in up THEN Fault ELSE UNCHANGED faults
    /\ Got(c, Reply("err", NoAddr))
    /\ UNCHANGED <<serverVars, tableVars, updVars,
                   op, slot, node, target, stage, effects, ret>>

-----------------------------------------------------------------------------
(* What the call does with the reply *)

\* multiSet converts the reply with String: nil and error replies are errors.
\* The variables of the call go with it.
Return(c, v) ==
    /\ pc' = [pc EXCEPT ![c] = "idle"]
    /\ ret' = [ret EXCEPT ![c] =
                 IF op[c] = "mset" /\ v \in {"nil", "redis"} THEN "err" ELSE v]
    /\ node' = [node EXCEPT ![c] = NoNode]
    /\ target' = [target EXCEPT ![c] = NoNode]
    /\ stage' = [stage EXCEPT ![c] = "first"]
    /\ reply' = [reply EXCEPT ![c] = Reply("none", NoAddr)]
    /\ op' = [op EXCEPT ![c] = "cmd"]
    /\ UNCHANGED <<slot, effects>>

Replied(c, k) == pc[c] = "reply" /\ reply[c].k = k

\* The switch of Do, of its MOVED loop, of SlaveDo and of handleSetTask;
\* handleGetTask has none.
Switch(c) == stage[c] \in {"first", "move"} /\ op[c] # "mget"

ReplyOk(c) ==
    /\ Replied(c, "ok")
    /\ IF stage[c] = "any" THEN Inform(target[c]) ELSE UNCHANGED <<upc, msg>>
    /\ Return(c, "ok")
    /\ UNCHANGED <<serverVars, faults, tableVars, recent, snap>>

\* Mutant: a failed exchange is tried again on another node.
ReplyErrRetries(c) ==
    /\ Replied(c, "err")
    /\ \E r \in RandomNode(node[c]) \ {NoNode} : target' = [target EXCEPT ![c] = r]
    /\ stage' = [stage EXCEPT ![c] = "any"]
    /\ pc' = [pc EXCEPT ![c] = "conn"]
    /\ UNCHANGED <<serverVars, faults, tableVars, updVars,
                   op, slot, node, reply, effects, ret>>

\* An error: Do, handleAsk and handleConnTimeout return it; in the MOVED
\* loop checkReply(nil) is kRespOK and Do returns nil, nil.
ReplyErr(c) ==
    /\ Replied(c, "err")
    /\ Return(c, IF stage[c] = "move" THEN "nil" ELSE "err")
    /\ UNCHANGED <<serverVars, faults, tableVars, updVars>>

\* Mutant: the update routine is not informed.
HandleMoveQuietly(c) ==
    /\ Replied(c, "moved") /\ Switch(c)
    /\ stage' = [stage EXCEPT ![c] = "move"]
    /\ pc' = [pc EXCEPT ![c] = "lookup"]
    /\ UNCHANGED <<serverVars, faults, tableVars, updVars,
                   op, slot, node, target, reply, effects, ret>>

HandleMove(c) ==
    /\ Replied(c, "moved") /\ Switch(c)
    /\ Inform(node[c])
    /\ stage' = [stage EXCEPT ![c] = "move"]
    /\ pc' = [pc EXCEPT ![c] = "lookup"]
    /\ UNCHANGED <<serverVars, faults, tableVars, recent, snap,
                   op, slot, node, target, reply, effects, ret>>

HandleAsk(c) ==
    /\ Replied(c, "ask") /\ Switch(c)
    /\ stage' = [stage EXCEPT ![c] = "ask"]
    /\ pc' = [pc EXCEPT ![c] = "lookup"]
    /\ UNCHANGED <<serverVars, faults, tableVars, updVars,
                   op, slot, node, target, reply, effects, ret>>

\* Mutant: the same node is tried again until it answers.
HandleConnTimeoutAgain(c) ==
    /\ Replied(c, "econn") /\ Switch(c)
    /\ pc' = [pc EXCEPT ![c] = "conn"]
    /\ UNCHANGED <<serverVars, faults, tableVars, updVars,
                   op, slot, node, target, stage, reply, effects, ret>>

\* With an empty map randomNode is nil and randomNode.do panics.
HandleConnTimeout(c) ==
    /\ Replied(c, "econn") /\ Switch(c)
    /\ \E r \in RandomNode(node[c]) :
         IF r = NoNode
         THEN /\ pc' = [pc EXCEPT ![c] = "panic"]
              /\ UNCHANGED target
         ELSE /\ pc' = [pc EXCEPT ![c] = "conn"]
              /\ target' = [target EXCEPT ![c] = r]
    /\ stage' = [stage EXCEPT ![c] = "any"]
    /\ UNCHANGED <<serverVars, faults, tableVars, updVars,
                   op, slot, node, reply, effects, ret>>

\* UpdateSlotsInfoByRandomNode, then Cluster_Down_Error.
ClusterDown(c) ==
    /\ Replied(c, "down") /\ Switch(c)
    /\ \E r \in RandomNode(node[c]) : Inform(r)
    /\ Return(c, "down")
    /\ UNCHANGED <<serverVars, faults, tableVars, recent, snap>>

\* handleConnTimeout: MOVED back to the node that did not answer is an error,
\* MOVED to another one is followed.
TimeoutMoved(c) ==
    /\ Replied(c, "moved") /\ stage[c] = "any"
    /\ IF reply[c].to = node[c].addr
       THEN /\ Return(c, "err")
            /\ UNCHANGED <<upc, msg>>
       ELSE /\ Inform(target[c])
            /\ stage' = [stage EXCEPT ![c] = "last"]
            /\ pc' = [pc EXCEPT ![c] = "lookup"]
            /\ UNCHANGED <<op, slot, node, target, reply, effects, ret>>
    /\ UNCHANGED <<serverVars, faults, tableVars, recent, snap>>

\* An error reply that nothing follows: handleConnTimeout ignores replies
\* other than MOVED, handleGetTask all of them; the last exchange of
\* handleAsk and handleConnTimeout is returned as it is.
ReplyFinal(c) ==
    /\ pc[c] = "reply"
    /\ \/ /\ op[c] = "mget" \/ stage[c] = "any"
          /\ reply[c].k \in IF op[c] = "mget" THEN {"moved", "ask", "down", "econn"}
                                              ELSE {"ask", "down", "econn"}
          /\ Return(c, "err")
       \/ /\ stage[c] \in {"ask", "last"}
          /\ reply[c].k \in {"moved", "ask", "down", "econn"}
          /\ Return(c, "redis")
    /\ UNCHANGED <<serverVars, faults, tableVars, updVars>>

\* getNodeByAddr; in the MOVED loop its error is lost as in ReplyErr.
Lookup(c) ==
    /\ pc[c] = "lookup"
    /\ IF closed \/ nodes[reply[c].to] = NoNode
       THEN Return(c, IF stage[c] = "move" THEN "nil" ELSE "err")
       ELSE /\ target' = [target EXCEPT ![c] = nodes[reply[c].to]]
            /\ pc' = [pc EXCEPT ![c] = "conn"]
            /\ UNCHANGED <<op, slot, node, stage, reply, effects, ret>>
    /\ UNCHANGED <<serverVars, faults, tableVars, updVars>>

\* Close; the replicas' nodes are left alone. Called once.
Close ==
    /\ MayClose /\ ~closed
    /\ shut' = shut \cup InMap(nodes)
    /\ nodes' = [a \in Addrs |-> NoNode]
    /\ closed' = TRUE
    /\ UNCHANGED <<serverVars, faults, slots, slaveslots, slaveNodes, made,
                   updVars, callVars>>

-----------------------------------------------------------------------------
(* EXTERNAL: the redis servers. The topology changes MaxChanges times. *)

Change == changes < MaxChanges /\ changes' = changes + 1

\* A slot starts migrating to another master, and has migrated.
Migrate(s, b) ==
    /\ Change
    /\ owner[s] # NoAddr /\ moving[s] = NoAddr
    /\ master[b] = NoAddr /\ b # owner[s]
    /\ moving' = [moving EXCEPT ![s] = b]
    /\ UNCHANGED <<owner, master, up>>

Migrated(s) ==
    /\ moving[s] # NoAddr
    /\ owner' = [owner EXCEPT ![s] = moving[s]]
    /\ moving' = [moving EXCEPT ![s] = NoAddr]
    /\ UNCHANGED <<master, up, changes>>

\* Replica b takes over from its master a, which has crashed or is demoted.
Failover(a, b) ==
    /\ Change
    /\ master[b] = a /\ b \in up
    /\ owner' = [s \in Slots |-> IF owner[s] = a THEN b ELSE owner[s]]
    /\ moving' = [s \in Slots |-> IF a \in {owner[s], moving[s]} THEN NoAddr ELSE moving[s]]
    /\ master' = [x \in Addrs |-> IF x = b THEN NoAddr
                                  ELSE IF a \in {x, master[x]} THEN b ELSE master[x]]
    /\ up' \in {up, up \ {a}}

\* A server stops or runs again; a slot is left without a master or gets one.
Crash(a) ==
    /\ Change
    /\ a \in up
    /\ up' = up \ {a}
    /\ UNCHANGED <<owner, moving, master>>

Restart(a) ==
    /\ a \notin up
    /\ up' = up \cup {a}
    /\ UNCHANGED <<owner, moving, master, changes>>

Unassign(s) ==
    /\ Change
    /\ owner[s] # NoAddr
    /\ owner' = [owner EXCEPT ![s] = NoAddr]
    /\ moving' = [moving EXCEPT ![s] = NoAddr]
    /\ UNCHANGED <<master, up>>

Assign(s, b) ==
    /\ owner[s] = NoAddr /\ master[b] = NoAddr
    /\ owner' = [owner EXCEPT ![s] = b]
    /\ UNCHANGED <<moving, master, up, changes>>

Servers ==
    /\ \/ \E s \in Slots, b \in Addrs : Migrate(s, b) \/ Assign(s, b)
       \/ \E s \in Slots : Migrated(s) \/ Unassign(s)
       \/ \E a, b \in Addrs : Failover(a, b)
       \/ \E a \in Addrs : Crash(a) \/ Restart(a)
    /\ UNCHANGED <<faults, tableVars, updVars, callVars>>

-----------------------------------------------------------------------------
\* NewCluster: the first Update has succeeded.
Init ==
    /\ owner = InitOwner
    /\ moving = [s \in Slots |-> NoAddr]
    /\ master = InitMaster
    /\ up = Addrs
    /\ changes = 0
    /\ faults = 0
    /\ snap = Topology
    /\ LET first(A, role) == [a \in Addrs |->
                                IF a \in A THEN [addr |-> a, role |-> role, gen |-> 0]
                                           ELSE NoNode]
       IN  /\ nodes = first(Masters(Topology), "master")
           /\ slaveNodes = first(Replicas(Topology), "slave")
    /\ slots = [s \in Slots |-> nodes[owner[s]]]
    /\ slaveslots = [s \in Slots |-> {slaveNodes[a] : a \in snap[s].r}]
    /\ made = [role \in Roles |->
                 [a \in Addrs |->
                    IF (IF role = "master" THEN nodes[a] ELSE slaveNodes[a]) = NoNode
                    THEN 0 ELSE 1]]
    /\ shut = {}
    /\ closed = FALSE
    /\ recent = TRUE
    /\ upc = "loop"
    /\ msg = NoNode
    /\ pc = [c \in Clients |-> "idle"]
    /\ op = [c \in Clients |-> "cmd"]
    /\ slot \in [Clients -> Slots]
    /\ node = [c \in Clients |-> NoNode]
    /\ target = [c \in Clients |-> NoNode]
    /\ stage = [c \in Clients |-> "first"]
    /\ reply = [c \in Clients |-> Reply("none", NoAddr)]
    /\ effects = [c \in Clients |-> <<>>]
    /\ ret = [c \in Clients |-> "none"]

Updater == FetchOk \/ FetchFail \/ Apply \/ UpdaterLoop

Proceed(c) ==
    \/ GetConnOk(c) \/ GetConnFail(c)
    \/ Exec(c) \/ ExecLost(c) \/ Expire(c) \/ ExpireLost(c)
    \/ ReplyOk(c) \/ ReplyErr(c)
    \/ HandleMove(c) \/ HandleAsk(c) \/ HandleConnTimeout(c) \/ ClusterDown(c)
    \/ TimeoutMoved(c) \/ ReplyFinal(c) \/ Lookup(c)

\* A panic ends the process.
Running == \A c \in Clients : pc[c] # "panic"

Next ==
    /\ Running
    /\ \/ Updater \/ WindowPasses \/ Heartbeat
       \/ \E c \in Clients : Proceed(c) \/ \E o \in Ops, s \in Slots : Start(c, o, s)
       \/ Close
       \/ Servers

Spec == Init /\ [][Next]_vars

\* The goroutines keep running: exchanges end by their timeouts, the updater
\* serves its channel, time passes. Each client keeps using every slot; that
\* is an assumption on the traffic.
FairSpec ==
    /\ Spec
    /\ WF_vars(Running /\ Updater)
    /\ WF_vars(Running /\ WindowPasses)
    /\ \A c \in Clients :
          /\ WF_vars(Running /\ Proceed(c))
          /\ \A o \in Ops, s \in Slots : SF_vars(Running /\ Start(c, o, s))

-----------------------------------------------------------------------------
(* Properties *)

\* The variables keep their Go types: the tables hold nodes, a call holds
\* nodes and a reply.
TypeOK ==
    /\ owner \in [Slots -> Addrs \cup {NoAddr}]
    /\ moving \in [Slots -> Addrs \cup {NoAddr}]
    /\ master \in [Addrs -> Addrs \cup {NoAddr}]
    /\ up \subseteq Addrs
    /\ changes \in Nat /\ faults \in Nat
    /\ slots \in [Slots -> Nodes]
    /\ slaveslots \in [Slots -> SUBSET Nodes]
    /\ nodes \in [Addrs -> Nodes \cup {NoNode}]
    /\ slaveNodes \in [Addrs -> Nodes \cup {NoNode}]
    /\ made \in [Roles -> [Addrs -> Nat]]
    /\ shut \subseteq Nodes
    /\ closed \in BOOLEAN /\ recent \in BOOLEAN
    /\ upc \in {"loop", "wait", "fetch", "apply"}
    /\ msg \in Nodes \cup {NoNode}
    /\ snap \in Topologies
    /\ pc \in [Clients -> PcStates]
    /\ op \in [Clients -> Ops \cup {"cmd"}]
    /\ slot \in [Clients -> Slots]
    /\ node \in [Clients -> Nodes \cup {NoNode}]
    /\ target \in [Clients -> Nodes \cup {NoNode}]
    /\ stage \in [Clients -> Stages]
    /\ reply \in [Clients -> [k : ReplyKinds, to : Addrs \cup {NoAddr}]]
    /\ effects \in [Clients -> Seq({"val", "ttl", "expire"})]
    /\ ret \in [Clients -> Rets]

\* Until Close, every slot leads to a live master that the address map also
\* leads to, and every replica offered to readers is live too: Update never
\* shuts down a node that a slot still points to, whatever partial or
\* repeated topologies it is given.
SlotsServable ==
    /\ ~closed => \A s \in Slots :
                     /\ slots[s].role = "master"
                     /\ nodes[slots[s].addr] = slots[s]
    /\ \A s \in Slots : \A r \in slaveslots[s] : slaveNodes[r.addr] = r
    /\ (InMap(nodes) \cup InMap(slaveNodes)) \cap shut = {}

\* No redisNode is lost with its connections: every node Update ever created
\* is still in its map or has been shut down, exactly once either way.
NoOrphans ==
    \A a \in Addrs : \A role \in Roles : \A g \in 0..(made[role][a] - 1) :
        LET n == [addr |-> a, role |-> role, gen |-> g]
        IN  (n \in shut) # (n \in InMap(nodes) \cup InMap(slaveNodes))

\* However a call is redirected (MOVED, ASK, a timeout and a random node,
\* several of these in turn) and whichever replies are lost, the servers run
\* its command at most once.
AtMostOnce ==
    \A c \in Clients : Cardinality({i \in 1..Len(effects[c]) : effects[c][i] = "val"}) <= 1

\* The third argument of RPUSH is the time to live; it is never appended to
\* the list.
TTLNotPushed ==
    \A c \in Clients : \A i \in 1..Len(effects[c]) : effects[c][i] # "ttl"

\* Every call returns: the MOVED loop of Do ends.
CallReturns == \A c \in Clients : pc[c] # "idle" ~> pc[c] = "idle"

\* The client and the servers agree on the slots.
Synced == \A s \in Slots : slots[s].addr = owner[s]

\* Some master the client knows is running. When all of them are gone (the
\* only master of a cluster has failed over) handleConnTimeout asks the dead
\* node again and returns without Inform: nothing ever refreshes the table.
KnowsARunningMaster == \E a \in up : nodes[a] # NoNode

\* Once every slot has a running master for good, and the client still knows
\* a running one, the slot table becomes that topology, although Inform may
\* drop its message, the update window may throttle it and the node asked
\* may be gone.
Converges ==
    <>[](/\ \A s \in Slots : owner[s] \in up /\ moving[s] = NoAddr
         /\ KnowsARunningMaster) => <>[]Synced
=============================================================================
