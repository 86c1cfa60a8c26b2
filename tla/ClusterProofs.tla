---------------------------- MODULE ClusterProofs ----------------------------
(***************************************************************************)
(* Proofs about the cluster client, for any clients, slots and addresses   *)
(* and any number of topology changes and faults: its types, the           *)
(* consistency of the slot table, the fate of every node ever created, and *)
(* that no command is run twice.                                           *)
(***************************************************************************)
EXTENDS Cluster, FiniteSetTheorems, SequenceTheorems, TLAPS

-----------------------------------------------------------------------------
(* Types *)

\* A redirection names an address, and a client looks up only what a
\* redirection has named.
Redirected ==
    \A c \in Clients :
        /\ reply[c].k \in {"moved", "ask"} => reply[c].to \in Addrs
        /\ pc[c] = "lookup" => reply[c].k \in {"moved", "ask"}

Typed == TypeOK /\ Redirected

\* A server that owns a slot, or is about to, is a server.
LEMMA RepliesTyped ==
    ASSUME TypeOK, NEW a, NEW s \in Slots, NEW asking \in BOOLEAN, NEW readonly \in BOOLEAN,
           NEW r \in Replies(a, s, asking, readonly)
    PROVE  /\ r \in [k : ReplyKinds, to : Addrs \cup {NoAddr}]
           /\ r.k \in {"moved", "ask"} => r.to \in Addrs
<1>1. CASE \E t \in Slots : owner[t] = NoAddr
    BY <1>1 DEF Replies, Reply, ReplyKinds
<1>2. CASE ~\E t \in Slots : owner[t] = NoAddr
    <2>1. owner[s] \in Addrs /\ moving[s] \in Addrs \cup {NoAddr}
        BY <1>2 DEF TypeOK
    <2> QED
        BY <1>2, <2>1 DEF Replies, Reply, ReplyKinds
<1> QED
    BY <1>1, <1>2

\* What the servers report is a topology.
LEMMA TopologyTyped ==
    ASSUME owner \in [Slots -> Addrs \cup {NoAddr}], up \subseteq Addrs
    PROVE  Topology \in Topologies
BY DEF Topology, Topologies

\* An update keeps or creates a node for every address that it lists.
LEMMA KeptTyped ==
    ASSUME NEW map \in [Addrs -> Nodes \cup {NoNode}], NEW A, NEW role \in Roles,
           made \in [Roles -> [Addrs -> Nat]]
    PROVE  /\ Kept(map, A, role) \in [Addrs -> Nodes \cup {NoNode}]
           /\ \A a \in Addrs : Kept(map, A, role)[a] # NoNode <=> a \in A
           /\ \A a \in Addrs \cap A : Kept(map, A, role)[a] \in Nodes
<1>1. \A a \in Addrs : [addr |-> a, role |-> role, gen |-> made[role][a]] \in Nodes
    BY DEF Nodes
<1> QED
    BY <1>1, NoNodeAssumption DEF Kept

\* Installing a topology keeps the types of the table.
LEMMA InstallTyped ==
    ASSUME TypeOK, Install(snap)
    PROVE  /\ slots' \in [Slots -> Nodes]
           /\ slaveslots' \in [Slots -> SUBSET Nodes]
           /\ nodes' \in [Addrs -> Nodes \cup {NoNode}]
           /\ slaveNodes' \in [Addrs -> Nodes \cup {NoNode}]
           /\ made' \in [Roles -> [Addrs -> Nat]]
           /\ shut' \subseteq Nodes
<1> USE DEF TypeOK
<1> DEFINE M == Masters(snap)
           R == Replicas(snap)
           nm == Kept(nodes, M, "master")
           ns == Kept(slaveNodes, R, "slave")
<1>1. /\ nm \in [Addrs -> Nodes \cup {NoNode}]
      /\ \A a \in Addrs \cap M : nm[a] \in Nodes
    BY KeptTyped, "master" \in Roles DEF Roles
<1>2. /\ ns \in [Addrs -> Nodes \cup {NoNode}]
      /\ \A a \in Addrs \cap R : ns[a] \in Nodes
    BY KeptTyped, "slave" \in Roles DEF Roles
<1>3. \A s \in Slots : /\ snap[s].m \in Addrs \cup {NoAddr}
                       /\ snap[s].m # NoAddr => snap[s].m \in M
                       /\ snap[s].r \subseteq Addrs \cap R
    BY DEF Topologies, Masters, Replicas
<1> HIDE DEF nm, ns
<1>4. nodes' = nm /\ slaveNodes' = ns
    BY DEF Install, nm, ns
<1>5. slots' \in [Slots -> Nodes]
    <2>1. slots' = InstallSlots(snap, nm)
        BY DEF Install, nm
    <2> QED
        BY <1>1, <1>3, <2>1 DEF InstallSlots
<1>6. slaveslots' \in [Slots -> SUBSET Nodes]
    <2>1. slaveslots' = [s \in Slots |-> {ns[a] : a \in snap[s].r}]
        BY DEF Install, ns
    <2>2. \A s \in Slots : {ns[a] : a \in snap[s].r} \subseteq Nodes
        BY <1>2, <1>3
    <2> QED
        BY <2>1, <2>2
<1>7. shut' \subseteq Nodes
    BY NoNodeAssumption DEF Install, Evicted
<1>8. made' \in [Roles -> [Addrs -> Nat]]
    BY DEF Install
<1> QED
    BY <1>1, <1>2, <1>4, <1>5, <1>6, <1>7, <1>8

\* A random node is a node, or none.
LEMMA RandomTyped == TypeOK => \A n : RandomNode(n) \subseteq Nodes \cup {NoNode}
<1> SUFFICES ASSUME TypeOK, NEW n
             PROVE  RandomNode(n) \subseteq Nodes \cup {NoNode}
    OBVIOUS
<1>1. InMap(nodes) \subseteq Nodes
    BY DEF TypeOK, InMap
<1> QED
    BY <1>1 DEF RandomNode

\* The types of the variables of the calls.
CallTypes ==
    /\ pc \in [Clients -> PcStates]
    /\ op \in [Clients -> Ops \cup {"cmd"}]
    /\ slot \in [Clients -> Slots]
    /\ node \in [Clients -> Nodes \cup {NoNode}]
    /\ target \in [Clients -> Nodes \cup {NoNode}]
    /\ stage \in [Clients -> Stages]
    /\ reply \in [Clients -> [k : ReplyKinds, to : Addrs \cup {NoAddr}]]
    /\ effects \in [Clients -> Seq({"val", "ttl", "expire"})]
    /\ ret \in [Clients -> Rets]

\* The end of a call keeps the types of the calls.
LEMMA ReturnTyped ==
    ASSUME CallTypes, Redirected, NEW c \in Clients, NEW v \in Rets, Return(c, v)
    PROVE  CallTypes' /\ Redirected'
<1>1. CallTypes'
    BY DEF CallTypes, Return, Reply, ReplyKinds, PcStates, Stages, Rets
<1>2. Redirected'
    BY DEF CallTypes, Redirected, Return, Reply
<1> QED
    BY <1>1, <1>2

\* Waking the updater keeps the types of the updater.
LEMMA InformTyped ==
    ASSUME TypeOK, NEW n \in Nodes \cup {NoNode}, Inform(n)
    PROVE  upc' \in {"loop", "wait", "fetch", "apply"} /\ msg' \in Nodes \cup {NoNode}
BY DEF TypeOK, Inform

\* A new cluster has done its first update.
LEMMA InitTyped == Init => Typed
<1> SUFFICES ASSUME Init
             PROVE  Typed
    OBVIOUS
<1> USE ClusterAssumption DEF Init
<1>1. snap \in Topologies
    BY TopologyTyped
<1>2. /\ \A a \in Addrs, role \in Roles : [addr |-> a, role |-> role, gen |-> 0] \in Nodes
      /\ "master" \in Roles /\ "slave" \in Roles
    BY DEF Nodes, Roles
<1>3. /\ nodes \in [Addrs -> Nodes \cup {NoNode}]
      /\ slaveNodes \in [Addrs -> Nodes \cup {NoNode}]
    BY <1>2
<1>4. \A a \in Addrs : /\ a \in Masters(Topology) => nodes[a] \in Nodes
                       /\ a \in Replicas(Topology) => slaveNodes[a] \in Nodes
    BY <1>2
<1>5. \A s \in Slots : owner[s] \in Masters(Topology) \cap Addrs
    BY DEF Masters, Topology
<1>6. slots \in [Slots -> Nodes]
    BY <1>4, <1>5
<1>7. slaveslots \in [Slots -> SUBSET Nodes]
    <2>1. \A s \in Slots : snap[s].r \subseteq Replicas(Topology) \cap Addrs
        BY <1>1 DEF Replicas, Topologies
    <2>2. \A s \in Slots : {slaveNodes[a] : a \in snap[s].r} \subseteq Nodes
        BY <1>4, <2>1
    <2> QED
        BY <2>2
<1>8. made \in [Roles -> [Addrs -> Nat]]
    OBVIOUS
<1>9. TypeOK
    <2>1. /\ owner \in [Slots -> Addrs \cup {NoAddr}]
          /\ moving \in [Slots -> Addrs \cup {NoAddr}]
          /\ master \in [Addrs -> Addrs \cup {NoAddr}]
          /\ up \subseteq Addrs
          /\ changes \in Nat /\ faults \in Nat
        OBVIOUS
    <2>2. CallTypes
        BY DEF CallTypes, Reply, ReplyKinds, PcStates, Stages, Rets
    <2> QED
        BY <1>1, <1>3, <1>6, <1>7, <1>8, <2>1, <2>2 DEF TypeOK, CallTypes
<1>10. Redirected
    BY DEF Redirected, Reply
<1> QED
    BY <1>9, <1>10 DEF Typed

\* Every step of a client keeps the types.
LEMMA ProceedTyped ==
    ASSUME Typed, NEW c \in Clients, Proceed(c)
    PROVE  Typed'
<1> USE DEF Typed, TypeOK, Redirected, serverVars, tableVars, updVars
<1>1. CASE GetConnOk(c)
    BY <1>1 DEF GetConnOk, PcStates
<1>2. CASE GetConnFail(c)
    BY <1>2 DEF GetConnFail, Got, NoConnReply, Fault, Reply, ReplyKinds, PcStates
<1>3. CASE Exec(c)
    <2>1. \A r \in ServerReplies(c) :
             /\ r \in [k : ReplyKinds, to : Addrs \cup {NoAddr}]
             /\ r.k \in {"moved", "ask"} => r.to \in Addrs
        BY RepliesTyped DEF ServerReplies
    <2>2. Pushed(c) \in Seq({"val", "ttl", "expire"})
        BY <<"val">> \in Seq({"val", "ttl", "expire"}),
           <<"val", "ttl">> \in Seq({"val", "ttl", "expire"}) DEF Pushed
    <2> QED
        BY <1>3, <2>1, <2>2 DEF Exec, PcStates, ReplyKinds
<1>4. CASE ExecLost(c)
    <2>1. \A r \in ServerReplies(c) :
             /\ r \in [k : ReplyKinds, to : Addrs \cup {NoAddr}]
             /\ r.k \in {"moved", "ask"} => r.to \in Addrs
        BY RepliesTyped DEF ServerReplies
    <2>2. Pushed(c) \in Seq({"val", "ttl", "expire"})
        BY <<"val">> \in Seq({"val", "ttl", "expire"}),
           <<"val", "ttl">> \in Seq({"val", "ttl", "expire"}) DEF Pushed
    <2>3. /\ faults' \in Nat
          /\ effects' \in [Clients -> Seq({"val", "ttl", "expire"})]
        <3>1. effects[c] \o Pushed(c) \in Seq({"val", "ttl", "expire"})
            BY <2>2
        <3>2. \/ effects' = [effects EXCEPT ![c] = effects[c] \o Pushed(c)]
              \/ effects' = [effects EXCEPT ![c] = effects[c]]
              \/ effects' = effects
            BY <1>4 DEF ExecLost
        <3>3. effects' \in [Clients -> Seq({"val", "ttl", "expire"})]
            BY <3>1, <3>2
        <3> QED
            BY <1>4, <3>3 DEF ExecLost, Fault
    <2> QED
        BY <1>4, <2>3 DEF ExecLost, PcStates, Got, Reply, ReplyKinds
<1>5. CASE Expire(c)
    BY <1>5 DEF Expire, PcStates
<1>6. CASE ExpireLost(c)
    BY <1>6 DEF ExpireLost, Fault, Got, Reply, ReplyKinds, PcStates
<1>7. CASE ReplyOk(c)
    BY <1>7 DEF ReplyOk, Replied, Inform, Return, Reply, ReplyKinds, PcStates, Stages, Rets
<1>8. CASE ReplyErr(c)
    BY <1>8 DEF ReplyErr, Replied, Return, Reply, ReplyKinds, PcStates, Stages, Rets
<1>9. CASE HandleMove(c)
    BY <1>9 DEF HandleMove, Replied, Switch, Inform, PcStates, Stages
<1>10. CASE HandleAsk(c)
    BY <1>10 DEF HandleAsk, Replied, Switch, PcStates, Stages
<1>11. CASE HandleConnTimeout(c)
    <2>1. PICK r \in RandomNode(node[c]) :
             IF r = NoNode THEN pc' = [pc EXCEPT ![c] = "panic"] /\ UNCHANGED target
             ELSE /\ pc' = [pc EXCEPT ![c] = "conn"]
                  /\ target' = [target EXCEPT ![c] = r]
        BY <1>11 DEF HandleConnTimeout
    <2>2. r \in Nodes \cup {NoNode}
        BY RandomTyped
    <2>3. target' \in [Clients -> Nodes \cup {NoNode}]
        BY <2>1, <2>2
    <2>4. /\ pc' \in [Clients -> PcStates]
          /\ \A d \in Clients : pc'[d] = "lookup" => pc[d] = "lookup"
        BY <2>1 DEF PcStates
    <2>5. /\ stage' = [stage EXCEPT ![c] = "any"]
          /\ UNCHANGED <<serverVars, faults, tableVars, updVars,
                          op, slot, node, reply, effects, ret>>
        BY <1>11 DEF HandleConnTimeout
    <2> QED
        BY <2>3, <2>4, <2>5 DEF Stages
<1>12. CASE ClusterDown(c)
    BY RandomTyped, <1>12 DEF ClusterDown, Replied, Switch, Inform, Return, Reply, ReplyKinds, PcStates, Stages, Rets
<1>13. CASE TimeoutMoved(c)
    <2>1. CASE Return(c, "err") /\ UNCHANGED <<upc, msg>>
        BY <1>13, <2>1, ReturnTyped DEF TimeoutMoved, CallTypes, Rets
    <2>2. CASE /\ Inform(target[c])
               /\ stage' = [stage EXCEPT ![c] = "last"]
               /\ pc' = [pc EXCEPT ![c] = "lookup"]
               /\ UNCHANGED <<op, slot, node, target, reply, effects, ret>>
        <3>1. upc' \in {"loop", "wait", "fetch", "apply"} /\ msg' \in Nodes \cup {NoNode}
            BY <2>2, InformTyped
        <3> QED
            BY <1>13, <2>2, <3>1 DEF TimeoutMoved, Replied, PcStates, Stages
    <2> QED
        BY <1>13, <2>1, <2>2 DEF TimeoutMoved
<1>14. CASE ReplyFinal(c)
    <2>1. PICK v \in {"err", "redis"} : Return(c, v)
        BY <1>14 DEF ReplyFinal
    <2> QED
        BY <1>14, <2>1, ReturnTyped DEF ReplyFinal, CallTypes, Rets
<1>15. CASE Lookup(c)
    <2>1. CASE closed \/ nodes[reply[c].to] = NoNode
        <3>1. PICK v \in {"err", "nil"} : Return(c, v)
            BY <1>15, <2>1 DEF Lookup
        <3> QED
            BY <1>15, <3>1, ReturnTyped DEF Lookup, CallTypes, Rets
    <2>2. CASE ~(closed \/ nodes[reply[c].to] = NoNode)
        BY <1>15, <2>2 DEF Lookup, PcStates
    <2> QED
        BY <2>1, <2>2
<1> QED
    BY <1>1, <1>2, <1>3, <1>4, <1>5, <1>6, <1>7, <1>8, <1>9, <1>10, <1>11, <1>12, <1>13, <1>14, <1>15 DEF Proceed

\* Every step keeps the types.
LEMMA NextTyped == Typed /\ [Next]_vars => Typed'
<1> SUFFICES ASSUME Typed, [Next]_vars
             PROVE  Typed'
    OBVIOUS
<1> USE DEF Typed, TypeOK, Redirected, serverVars, tableVars, updVars, callVars
<1>1. CASE FetchOk
    BY <1>1, TopologyTyped DEF FetchOk
<1>2. CASE FetchFail
    BY <1>2 DEF FetchFail, Fault
<1>3. CASE Apply
    BY <1>3, InstallTyped DEF Apply
<1>4. CASE UpdaterLoop
    BY <1>4 DEF UpdaterLoop, NoTopology, Topologies
<1>5. CASE WindowPasses
    BY <1>5 DEF WindowPasses
<1>6. CASE Heartbeat
    <2>1. PICK r \in (IF InMap(nodes) = {} THEN {NoNode} ELSE InMap(nodes)) : Inform(r)
        BY <1>6 DEF Heartbeat
    <2>2. r \in Nodes \cup {NoNode}
        BY DEF InMap
    <2> QED
        BY <1>6, <2>1, <2>2, InformTyped DEF Heartbeat
<1>7. ASSUME NEW c \in Clients, Proceed(c)
      PROVE  Typed'
    BY <1>7, ProceedTyped
<1>8. ASSUME NEW c \in Clients, NEW o \in Ops, NEW s \in Slots, Start(c, o, s)
      PROVE  Typed'
    <2>1. CASE FirstNodes(o, s) = {}
        <3>1. ret' = [ret EXCEPT ![c] = "err"] /\ UNCHANGED <<pc, op, node, target>>
            BY <1>8, <2>1 DEF Start
        <3>2. /\ slot' = [slot EXCEPT ![c] = s]
              /\ stage' = [stage EXCEPT ![c] = "first"]
              /\ reply' = [reply EXCEPT ![c] = Reply("none", NoAddr)]
              /\ effects' = [effects EXCEPT ![c] = <<>>]
              /\ UNCHANGED <<serverVars, faults, tableVars, updVars>>
              /\ pc[c] = "idle"
            BY <1>8 DEF Start
        <3> QED
            BY <3>1, <3>2 DEF Stages, Reply, ReplyKinds, Rets
    <2>2. CASE FirstNodes(o, s) # {}
        <3>1. PICK r \in FirstNodes(o, s) :
                 /\ op' = [op EXCEPT ![c] = o]
                 /\ node' = [node EXCEPT ![c] = r]
                 /\ target' = [target EXCEPT ![c] = r]
                 /\ pc' = [pc EXCEPT ![c] = "conn"]
                 /\ ret' = [ret EXCEPT ![c] = "none"]
            BY <1>8, <2>2 DEF Start
        <3>2. r \in Nodes
            BY DEF FirstNodes
        <3> QED
            BY <1>8, <3>1, <3>2 DEF Start, Stages, PcStates, Reply, ReplyKinds, Rets
    <2> QED
        BY <2>1, <2>2
<1>9. CASE Close
    BY <1>9, NoNodeAssumption DEF Close, InMap
<1>10. CASE Servers
    <2> DEFINE ServerTypes ==
            /\ owner \in [Slots -> Addrs \cup {NoAddr}]
            /\ moving \in [Slots -> Addrs \cup {NoAddr}]
            /\ master \in [Addrs -> Addrs \cup {NoAddr}]
            /\ up \subseteq Addrs
            /\ changes \in Nat
    <2>1. ServerTypes'
        <3>1. ASSUME NEW s \in Slots, NEW b \in Addrs, Migrate(s, b) \/ Assign(s, b)
              PROVE  ServerTypes'
            <4>1. CASE Migrate(s, b)
                BY <4>1 DEF Change, Migrate
            <4>2. CASE Assign(s, b)
                BY <4>2 DEF Assign
            <4> QED
                BY <3>1, <4>1, <4>2
        <3>2. ASSUME NEW s \in Slots, Migrated(s) \/ Unassign(s)
              PROVE  ServerTypes'
            <4>1. CASE Migrated(s)
                BY <4>1 DEF Migrated
            <4>2. CASE Unassign(s)
                BY <4>2 DEF Change, Unassign
            <4> QED
                BY <3>2, <4>1, <4>2
        <3>3. ASSUME NEW a \in Addrs, NEW b \in Addrs, Failover(a, b)
              PROVE  ServerTypes'
            <4>1. owner' \in [Slots -> Addrs \cup {NoAddr}]
                BY <3>3 DEF Failover
            <4>2. moving' \in [Slots -> Addrs \cup {NoAddr}]
                BY <3>3 DEF Failover
            <4>3. master' \in [Addrs -> Addrs \cup {NoAddr}]
                BY <3>3 DEF Failover
            <4>4. up' \subseteq Addrs /\ changes' \in Nat
                BY <3>3 DEF Failover, Change
            <4> QED
                BY <4>1, <4>2, <4>3, <4>4
        <3>4. ASSUME NEW a \in Addrs, Crash(a) \/ Restart(a)
              PROVE  ServerTypes'
            <4>1. CASE Crash(a)
                BY <4>1 DEF Change, Crash
            <4>2. CASE Restart(a)
                BY <4>2 DEF Restart
            <4> QED
                BY <3>4, <4>1, <4>2
        <3> QED
            BY <1>10, <3>1, <3>2, <3>3, <3>4 DEF Servers
    <2>2. UNCHANGED <<faults, tableVars, updVars, callVars>>
        BY <1>10 DEF Servers
    <2> QED
        BY <2>1, <2>2
<1>11. CASE UNCHANGED vars
    BY <1>11 DEF vars
<1> QED
    BY <1>1, <1>2, <1>3, <1>4, <1>5, <1>6, <1>7, <1>8, <1>9, <1>10, <1>11
    DEF Next, Updater

\* Types hold in every state of the cluster.
LEMMA AlwaysTyped == Spec => []Typed
<1>1. Init => Typed
    BY InitTyped
<1>2. Typed /\ [Next]_vars => Typed'
    BY NextTyped
<1> QED
    BY <1>1, <1>2, PTL DEF Spec

\* NewCluster, Update, the updater and every path of Do, SlaveDo, multiSet
\* and multiGet keep the types of their variables; in particular every slot
\* has a node and every redirection that is followed names an address.
THEOREM TypeCorrect == Spec => []TypeOK
<1>1. Typed => TypeOK
    BY DEF Typed
<1> QED
    BY <1>1, AlwaysTyped, PTL

-----------------------------------------------------------------------------
(* The slot table *)

\* The node that is created g-th for an address and a role.
Made(a, role, g) == [addr |-> a, role |-> role, gen |-> g]

\* A map of nodes of one role, the numbers n of nodes made for it and the set
\* S of nodes that are shut down fit together: the map has the latest node of
\* an address or none, it has none that is shut down, and every node ever
\* made is in one of the two.
Accounted(map, n, role, S) ==
    /\ \A a \in Addrs : map[a] # NoNode => map[a] = Made(a, role, n[a] - 1)
    /\ \A x \in S : x.role = role => x.gen < n[x.addr]
    /\ \A x \in InMap(map) : x \notin S
    /\ \A a \in Addrs : \A g \in 0..(n[a] - 1) :
          Made(a, role, g) \in S \cup InMap(map)

\* Update goes on only with a topology that covers all slots.
SnapCovered == upc = "apply" => Covered(snap)

\* Until Close every slot points into the map of the masters, and every set of
\* replicas into that of the slaves.
Pointed ==
    /\ ~closed => \A s \in Slots : \E a \in Addrs : slots[s] = nodes[a] /\ nodes[a] # NoNode
    /\ \A s \in Slots : \A r \in slaveslots[s] :
          \E a \in Addrs : r = slaveNodes[a] /\ slaveNodes[a] # NoNode

TableInv ==
    /\ Accounted(nodes, made["master"], "master", shut)
    /\ Accounted(slaveNodes, made["slave"], "slave", shut)
    /\ SnapCovered /\ Pointed

\* The two roles.
LEMMA RolesAre == "master" \in Roles /\ "slave" \in Roles
                      /\ \A r \in Roles : r = "master" \/ r = "slave"
BY DEF Roles

\* The nodes of a map.
LEMMA InMapIs ==
    ASSUME NEW map, NEW x
    PROVE  x \in InMap(map) <=> \E a \in Addrs : x = map[a] /\ map[a] # NoNode
BY DEF InMap

\* The fields of a node, which it is made of.
LEMMA MadeFields ==
    ASSUME NEW a, NEW role, NEW g
    PROVE  Made(a, role, g).addr = a /\ Made(a, role, g).role = role /\ Made(a, role, g).gen = g
BY DEF Made

\* The nodes of a map that is accounted for have its role and are filed
\* under their addresses.
LEMMA RoleOf ==
    ASSUME NEW map, NEW n, NEW role, NEW S, Accounted(map, n, role, S)
    PROVE  /\ \A x \in InMap(map) : x.role = role
           /\ \A a \in Addrs : map[a] # NoNode => map[a].addr = a /\ map[a].role = role
<1>1. \A a \in Addrs : map[a] # NoNode => map[a].addr = a /\ map[a].role = role
    <2>1. \A a \in Addrs : map[a] # NoNode => map[a] = Made(a, role, n[a] - 1)
        BY DEF Accounted
    <2> QED
        BY <2>1, MadeFields
<1>2. ASSUME NEW x \in InMap(map)
      PROVE  x.role = role
    <2>1. PICK a \in Addrs : x = map[a] /\ map[a] # NoNode
        BY InMapIs
    <2> QED
        BY <1>1, <2>1
<1> QED
    BY <1>1, <1>2

\* The invariant says that the table is servable ...
LEMMA TableServable == TableInv => SlotsServable
<1> SUFFICES ASSUME TableInv
             PROVE  SlotsServable
    OBVIOUS
<1>1. /\ \A a \in Addrs : nodes[a] # NoNode => nodes[a].addr = a /\ nodes[a].role = "master"
      /\ \A a \in Addrs : slaveNodes[a] # NoNode => slaveNodes[a].addr = a
    BY RoleOf DEF TableInv
<1>2. (InMap(nodes) \cup InMap(slaveNodes)) \cap shut = {}
    BY DEF TableInv, Accounted
<1>3. ASSUME ~closed, NEW s \in Slots
      PROVE  slots[s].role = "master" /\ nodes[slots[s].addr] = slots[s]
    <2>1. PICK a \in Addrs : slots[s] = nodes[a] /\ nodes[a] # NoNode
        BY <1>3 DEF TableInv, Pointed
    <2> QED
        BY <1>1, <2>1
<1>4. ASSUME NEW s \in Slots, NEW r \in slaveslots[s]
      PROVE  slaveNodes[r.addr] = r
    <2>1. PICK a \in Addrs : r = slaveNodes[a] /\ slaveNodes[a] # NoNode
        BY DEF TableInv, Pointed
    <2> QED
        BY <1>1, <2>1
<1> QED
    BY <1>2, <1>3, <1>4 DEF SlotsServable

\* ... and that no node is forgotten.
LEMMA TableAccounts == TableInv => NoOrphans
<1> SUFFICES ASSUME TableInv, NEW a \in Addrs, NEW role \in Roles,
                    NEW g \in 0..(made[role][a] - 1)
             PROVE  (Made(a, role, g) \in shut)
                        # (Made(a, role, g) \in InMap(nodes) \cup InMap(slaveNodes))
    BY DEF NoOrphans, Made
<1>1. /\ \A x \in InMap(nodes) : x.role = "master" /\ x \notin shut
      /\ \A x \in InMap(slaveNodes) : x.role = "slave" /\ x \notin shut
    <2>1. /\ \A x \in InMap(nodes) : x.role = "master"
          /\ \A x \in InMap(slaveNodes) : x.role = "slave"
        BY RoleOf DEF TableInv
    <2>2. /\ \A x \in InMap(nodes) : x \notin shut
          /\ \A x \in InMap(slaveNodes) : x \notin shut
        BY DEF TableInv, Accounted
    <2> QED
        BY <2>1, <2>2
<1>2. Made(a, role, g).role = role
    BY MadeFields
<1>3. CASE role = "master"
    BY <1>1, <1>2, <1>3 DEF TableInv, Accounted
<1>4. CASE role = "slave"
    BY <1>1, <1>2, <1>4 DEF TableInv, Accounted
<1> QED
    BY <1>3, <1>4, RolesAre

\* Nodes of another role may be shut down.
LEMMA OtherRole ==
    ASSUME NEW map, NEW n, NEW role, NEW S, NEW T,
           Accounted(map, n, role, S), \A x \in T : x.role # role
    PROVE  Accounted(map, n, role, S \cup T)
<1>1. \A x \in InMap(map) : x \notin T
    BY RoleOf
<1> QED
    BY <1>1 DEF Accounted

\* A map that is emptied has all its nodes shut down.
LEMMA Emptied ==
    ASSUME NEW map, NEW n, NEW role, NEW S,
           Accounted(map, n, role, S),
           \A a \in Addrs : map[a] # NoNode => n[a] \in Nat
    PROVE  Accounted([a \in Addrs |-> NoNode], n, role, S \cup InMap(map))
<1>1. ASSUME NEW x \in InMap(map)
      PROVE  x.gen < n[x.addr]
    <2>1. PICK a \in Addrs : x = map[a] /\ map[a] # NoNode
        BY InMapIs
    <2>2. x = Made(a, role, n[a] - 1) /\ n[a] \in Nat
        BY <2>1 DEF Accounted
    <2> QED
        BY <2>2 DEF Made
<1>2. InMap([a \in Addrs |-> NoNode]) = {}
    BY DEF InMap
<1> QED
    BY <1>1, <1>2 DEF Accounted

\* The numbers of nodes made after an update that lists the addresses A.
MadeNow(map, n, A) ==
    [a \in Addrs |-> IF a \in Created(map, A) THEN n[a] + 1 ELSE n[a]]

\* An update keeps a map accounted for: kept and created nodes are filed, the
\* others are shut down, and none is forgotten.
LEMMA Updated ==
    ASSUME NEW role \in Roles, NEW A \in SUBSET Addrs, NEW S \in SUBSET Nodes,
           NEW map \in [Addrs -> Nodes \cup {NoNode}],
           made \in [Roles -> [Addrs -> Nat]],
           Accounted(map, made[role], role, S)
    PROVE  /\ Accounted(Kept(map, A, role), MadeNow(map, made[role], A), role,
                        S \cup Evicted(map, A))
           /\ \A x \in Evicted(map, A) : x.role = role
<1> DEFINE n1   == made[role]
           n2   == MadeNow(map, n1, A)
           new  == Kept(map, A, role)
           gone == Evicted(map, A)
<1>1. \A a \in Addrs : /\ n1[a] \in Nat
                       /\ n2[a] = IF a \in A /\ map[a] = NoNode THEN n1[a] + 1 ELSE n1[a]
    BY DEF MadeNow, Created
<1>2. \A a \in Addrs : Made(a, role, n1[a]) # NoNode
    BY <1>1, NoNodeAssumption DEF Nodes, Made
<1>3. \A a \in Addrs : new[a] = IF a \notin A THEN NoNode
                                ELSE IF map[a] # NoNode THEN map[a] ELSE Made(a, role, n1[a])
    BY DEF Kept, Made
<1> HIDE DEF n1, n2, new
<1>4. \A a \in Addrs : new[a] # NoNode <=> a \in A
    BY <1>2, <1>3
<1>5. \A a \in Addrs : map[a] # NoNode => map[a] = Made(a, role, n1[a] - 1)
    BY DEF Accounted, n1
<1>6. ASSUME NEW a \in Addrs, new[a] # NoNode
      PROVE  new[a] = Made(a, role, n2[a] - 1)
    <2>1. a \in A
        BY <1>4, <1>6
    <2>2. CASE map[a] # NoNode
        BY <1>1, <1>3, <1>5, <2>1, <2>2
    <2>3. CASE map[a] = NoNode
        <3>1. n2[a] - 1 = n1[a]
            BY <1>1, <2>1, <2>3
        <3> QED
            BY <1>3, <2>1, <2>3, <3>1
    <2> QED
        BY <2>2, <2>3
<1>7. ASSUME NEW x \in gone
      PROVE  \E a \in Addrs \ A : x = map[a] /\ x = Made(a, role, n1[a] - 1)
    <2>1. PICK a \in Addrs \ A : x = map[a] /\ map[a] # NoNode
        BY DEF Evicted
    <2> QED
        BY <1>5, <2>1
<1>8. ASSUME NEW x \in gone
      PROVE  x.role = role /\ x.gen < n2[x.addr]
    <2>1. PICK a \in Addrs \ A : x = Made(a, role, n1[a] - 1)
        BY <1>7
    <2> QED
        BY <1>1, <2>1 DEF Made
<1>9. ASSUME NEW x \in S, x.role = role
      PROVE  x.gen < n1[x.addr]
    BY <1>9 DEF Accounted, n1
<1>10. ASSUME NEW x \in InMap(new)
       PROVE  x \notin S /\ x \notin gone
    <2>1. PICK a \in Addrs : x = new[a] /\ new[a] # NoNode
        BY InMapIs
    <2>2. a \in A /\ x = Made(a, role, n2[a] - 1)
        BY <1>4, <1>6, <2>1
    <2>3. x \notin gone
        BY <1>7, <2>2 DEF Made
    <2>4. CASE map[a] # NoNode
        <3>1. x \in InMap(map)
            BY <1>3, <2>1, <2>2, <2>4, InMapIs
        <3> QED
            BY <2>3, <3>1 DEF Accounted
    <2>5. CASE map[a] = NoNode
        <3>1. x = Made(a, role, n1[a])
            BY <1>3, <2>1, <2>2, <2>5
        <3> QED
            BY <1>1, <1>9, <2>3, <3>1 DEF Made
    <2> QED
        BY <2>4, <2>5
<1>11. ASSUME NEW a \in Addrs, NEW g \in 0..(n2[a] - 1)
       PROVE  Made(a, role, g) \in (S \cup gone) \cup InMap(new)
    <2>1. CASE g = n2[a] - 1 /\ a \in A
        <3>1. new[a] = Made(a, role, g) /\ new[a] # NoNode
            BY <1>4, <1>6, <2>1
        <3> QED
            BY <3>1, InMapIs
    <2>2. CASE ~(g = n2[a] - 1 /\ a \in A)
        <3>1. g \in 0..(n1[a] - 1)
            <4>1. /\ n1[a] \in Nat
                  /\ n2[a] = IF a \in A /\ map[a] = NoNode THEN n1[a] + 1 ELSE n1[a]
                BY <1>1
            <4>2. n2[a] \in Int /\ g \in 0..(n2[a] - 1)
                BY <4>1
            <4>3. CASE a \in A
                <5>1. n2[a] \in {n1[a], n1[a] + 1} /\ g # n2[a] - 1
                    BY <2>2, <4>1, <4>3
                <5> QED
                    BY <4>1, <4>2, <5>1
            <4>4. CASE a \notin A
                BY <4>1, <4>2, <4>4
            <4> QED
                BY <4>3, <4>4
        <3>2. Made(a, role, g) \in S \cup InMap(map)
            BY <3>1 DEF Accounted, n1
        <3>3. CASE Made(a, role, g) \in InMap(map)
            <4>1. PICK b \in Addrs : map[b] = Made(a, role, g) /\ map[b] # NoNode
                BY <3>3, InMapIs
            <4>2. b = a /\ g = n1[a] - 1
                BY <1>5, <4>1 DEF Made
            <4>3. a \notin A
                BY <1>1, <2>2, <4>1, <4>2
            <4> QED
                BY <4>1, <4>2, <4>3 DEF Evicted
        <3> QED
            BY <3>2, <3>3
    <2> QED
        BY <2>1, <2>2
<1>12. ASSUME NEW x \in S, x.role = role
       PROVE  x.gen < n2[x.addr]
    <2>1. x.addr \in Addrs /\ x.gen \in Nat
        BY DEF Nodes
    <2> QED
        BY <1>1, <1>9, <1>12, <2>1
<1>13. \A x \in S \cup gone : x.role = role => x.gen < n2[x.addr]
    BY <1>8, <1>12
<1>14. \A x \in InMap(new) : x \notin S \cup gone
    BY <1>10
<1>15. Accounted(new, n2, role, S \cup gone)
    BY <1>6, <1>13, <1>14, <1>11 DEF Accounted
<1> QED
    BY <1>8, <1>15 DEF n1, n2, new

\* A map of first nodes is accounted for.
LEMMA FirstMap ==
    ASSUME NEW role \in Roles, NEW A \in SUBSET Addrs, NEW map, NEW n,
           \A a \in Addrs : map[a] = IF a \in A THEN Made(a, role, 0) ELSE NoNode,
           \A a \in Addrs : n[a] = IF a \in A THEN 1 ELSE 0
    PROVE  Accounted(map, n, role, {})
<1>1. \A a \in Addrs : Made(a, role, 0) # NoNode
    BY NoNodeAssumption DEF Nodes, Made
<1>2. \A a \in Addrs : map[a] # NoNode => map[a] = Made(a, role, n[a] - 1)
    <2> SUFFICES ASSUME NEW a \in Addrs, map[a] # NoNode
                 PROVE  map[a] = Made(a, role, n[a] - 1)
        OBVIOUS
    <2>1. a \in A /\ n[a] - 1 = 0
        OBVIOUS
    <2> QED
        BY <2>1
<1>3. ASSUME NEW a \in Addrs, NEW g \in 0..(n[a] - 1)
      PROVE  Made(a, role, g) \in {} \cup InMap(map)
    <2>1. n[a] = IF a \in A THEN 1 ELSE 0
        OBVIOUS
    <2>2. a \in A /\ g = 0
        BY <2>1
    <2>3. map[a] = Made(a, role, g) /\ map[a] # NoNode
        BY <1>1, <2>2
    <2> QED
        BY <2>3, InMapIs
<1> QED
    BY <1>2, <1>3 DEF Accounted

\* The table after the first update.
LEMMA InitTable == Init => TableInv
<1> SUFFICES ASSUME Init
             PROVE  TableInv
    OBVIOUS
<1> DEFINE M == Masters(Topology)
           R == Replicas(Topology)
<1>1. M \in SUBSET Addrs /\ R \in SUBSET Addrs
    BY TopologyTyped, InitTyped DEF Typed, TypeOK, Topologies, Masters, Replicas
<1>2. /\ \A a \in Addrs : nodes[a] = IF a \in M THEN Made(a, "master", 0) ELSE NoNode
      /\ \A a \in Addrs : slaveNodes[a] = IF a \in R THEN Made(a, "slave", 0) ELSE NoNode
    BY DEF Init, Made
<1>3. \A a \in Addrs, role \in Roles : Made(a, role, 0) # NoNode
    BY NoNodeAssumption DEF Nodes, Made
<1>4. \A a \in Addrs : /\ nodes[a] = NoNode <=> a \notin M
                       /\ slaveNodes[a] = NoNode <=> a \notin R
    BY <1>2, <1>3, RolesAre
<1>5. \A a \in Addrs : /\ made["master"][a] = IF a \in M THEN 1 ELSE 0
                       /\ made["slave"][a] = IF a \in R THEN 1 ELSE 0
    <2>1. made = [role \in Roles |->
                     [a \in Addrs |->
                        IF (IF role = "master" THEN nodes[a] ELSE slaveNodes[a]) = NoNode
                        THEN 0 ELSE 1]]
        BY DEF Init
    <2>2. \A a \in Addrs : /\ made["master"][a] = IF nodes[a] = NoNode THEN 0 ELSE 1
                           /\ made["slave"][a] = IF slaveNodes[a] = NoNode THEN 0 ELSE 1
        BY <2>1, RolesAre
    <2> QED
        BY <1>4, <2>2
<1> HIDE DEF M, R
<1>6. Accounted(nodes, made["master"], "master", {})
    BY <1>1, <1>2, <1>5, FirstMap, RolesAre
<1>7. Accounted(slaveNodes, made["slave"], "slave", {})
    BY <1>1, <1>2, <1>5, FirstMap, RolesAre
<1>8. \A s \in Slots : owner[s] \in M /\ owner[s] \in Addrs
    BY ClusterAssumption DEF Init, Masters, Topology, M
<1>9. \A s \in Slots : slots[s] = nodes[owner[s]]
    BY DEF Init
<1>10. ASSUME NEW s \in Slots, NEW r \in slaveslots[s]
       PROVE  \E a \in Addrs : r = slaveNodes[a] /\ slaveNodes[a] # NoNode
    <2>1. slaveslots[s] = {slaveNodes[a] : a \in Topology[s].r}
        BY DEF Init
    <2>2. PICK a \in Topology[s].r : r = slaveNodes[a]
        BY <2>1
    <2>3. a \in R
        BY DEF Replicas, R
    <2> QED
        BY <1>1, <1>4, <2>2, <2>3
<1>11. Pointed
    BY <1>4, <1>8, <1>9, <1>10 DEF Pointed
<1>12. SnapCovered /\ shut = {}
    BY DEF SnapCovered, Init
<1> QED
    BY <1>6, <1>7, <1>11, <1>12 DEF TableInv

\* From a table that is accounted for and a topology that covers all slots,
\* Update installs such a table.
LEMMA InstallTable ==
    ASSUME TypeOK, TableInv, Covered(snap), Install(snap)
    PROVE  /\ Accounted(nodes, made["master"], "master", shut)'
           /\ Accounted(slaveNodes, made["slave"], "slave", shut)'
           /\ Pointed'
<1> DEFINE M  == Masters(snap)
           R  == Replicas(snap)
           gm == Evicted(nodes, M)
           gs == Evicted(slaveNodes, R)
<1>1. M \in SUBSET Addrs /\ R \in SUBSET Addrs
    BY DEF TypeOK, Topologies, Masters, Replicas
<1>2. /\ nodes' = Kept(nodes, M, "master")
      /\ slaveNodes' = Kept(slaveNodes, R, "slave")
      /\ shut' = (shut \cup gm) \cup gs
    BY DEF Install
<1>3. /\ made'["master"] = MadeNow(nodes, made["master"], M)
      /\ made'["slave"] = MadeNow(slaveNodes, made["slave"], R)
    <2>1. "master" # "slave"
        OBVIOUS
    <2> QED
        BY <2>1, RolesAre DEF Install, MadeNow
<1>4. /\ Accounted(nodes, made["master"], "master", shut)
      /\ Accounted(slaveNodes, made["slave"], "slave", shut)
      /\ made \in [Roles -> [Addrs -> Nat]]
      /\ shut \in SUBSET Nodes
      /\ nodes \in [Addrs -> Nodes \cup {NoNode}]
      /\ slaveNodes \in [Addrs -> Nodes \cup {NoNode}]
    BY DEF TypeOK, TableInv
<1> HIDE DEF M, R
<1>5. /\ Accounted(nodes', made'["master"], "master", shut \cup gm)
      /\ \A x \in gm : x.role = "master"
    <2>1. /\ Accounted(Kept(nodes, M, "master"), MadeNow(nodes, made["master"], M),
                       "master", shut \cup gm)
          /\ \A x \in gm : x.role = "master"
        BY <1>1, <1>4, Updated, RolesAre
    <2> QED
        BY <1>2, <1>3, <2>1
<1>6. /\ Accounted(slaveNodes', made'["slave"], "slave", shut \cup gs)
      /\ \A x \in gs : x.role = "slave"
    <2>1. /\ Accounted(Kept(slaveNodes, R, "slave"), MadeNow(slaveNodes, made["slave"], R),
                       "slave", shut \cup gs)
          /\ \A x \in gs : x.role = "slave"
        BY <1>1, <1>4, Updated, RolesAre
    <2> QED
        BY <1>2, <1>3, <2>1
<1> HIDE DEF gm, gs
<1>7. /\ \A x \in gm : x.role # "slave"
      /\ \A x \in gs : x.role # "master"
    BY <1>5, <1>6
<1>8. Accounted(nodes', made'["master"], "master", (shut \cup gm) \cup gs)
    BY <1>5, <1>7, OtherRole
<1>9. Accounted(slaveNodes', made'["slave"], "slave", (shut \cup gs) \cup gm)
    BY <1>6, <1>7, OtherRole
<1>10. (shut \cup gs) \cup gm = shut'
    BY <1>2
<1>11. /\ Accounted(nodes, made["master"], "master", shut)'
       /\ Accounted(slaveNodes, made["slave"], "slave", shut)'
    <2>1. /\ Accounted(nodes', made'["master"], "master", shut')
          /\ Accounted(slaveNodes', made'["slave"], "slave", shut')
        BY <1>2, <1>8, <1>9, <1>10
    <2> QED
        BY <2>1 DEF Accounted, InMap
<1>12. /\ \A a \in M : nodes'[a] # NoNode
       /\ \A a \in R : slaveNodes'[a] # NoNode
    BY <1>1, <1>2, <1>4, RolesAre, KeptTyped
<1>13. \A s \in Slots : /\ snap[s].m \in Addrs /\ snap[s].m \in M
                        /\ \A a \in snap[s].r : a \in Addrs /\ a \in R
    BY DEF TypeOK, Topologies, Covered, Masters, Replicas, M, R
<1>14. \A s \in Slots : /\ slots'[s] = nodes'[snap[s].m]
                        /\ slaveslots'[s] = {slaveNodes'[a] : a \in snap[s].r}
    BY <1>13 DEF Install, InstallSlots, Covered
<1>15. Pointed'
    BY <1>12, <1>13, <1>14 DEF Pointed
<1> QED
    BY <1>11, <1>15

\* Close shuts the masters' nodes down and empties their map.
LEMMA CloseTable ==
    ASSUME TypeOK, TableInv, Close
    PROVE  TableInv'
<1>1. /\ shut' = shut \cup InMap(nodes)
      /\ nodes' = [a \in Addrs |-> NoNode]
      /\ closed' = TRUE
      /\ UNCHANGED <<slots, slaveslots, slaveNodes, made, upc, snap>>
    BY DEF Close, updVars
<1>2. /\ Accounted(nodes, made["master"], "master", shut)
      /\ Accounted(slaveNodes, made["slave"], "slave", shut)
      /\ SnapCovered /\ Pointed
    BY DEF TableInv
<1>3. \A a \in Addrs : nodes[a] # NoNode => made["master"][a] \in Nat
    BY RolesAre DEF TypeOK
<1>4. Accounted(nodes', made["master"], "master", shut')
    <2>1. Accounted([a \in Addrs |-> NoNode], made["master"], "master", shut \cup InMap(nodes))
        BY <1>2, <1>3, Emptied
    <2> QED
        BY <1>1, <2>1
<1>5. Accounted(slaveNodes, made["slave"], "slave", shut')
    <2>1. \A x \in InMap(nodes) : x.role # "slave"
        BY <1>2, RoleOf
    <2>2. Accounted(slaveNodes, made["slave"], "slave", shut \cup InMap(nodes))
        BY <1>2, <2>1, OtherRole
    <2> QED
        BY <1>1, <2>2
<1>6. /\ Accounted(nodes, made["master"], "master", shut)'
      /\ Accounted(slaveNodes, made["slave"], "slave", shut)'
    BY <1>1, <1>4, <1>5 DEF Accounted, InMap
<1>7. SnapCovered'
    BY <1>1, <1>2 DEF SnapCovered, Covered
<1>8. Pointed'
    BY <1>1, <1>2 DEF Pointed
<1> QED
    BY <1>6, <1>7, <1>8 DEF TableInv

\* The other steps leave the table alone, and at most drop the topology.
LEMMA OtherTable ==
    ASSUME TableInv, UNCHANGED tableVars,
           upc' = "apply" => upc = "apply" /\ snap' = snap
    PROVE  TableInv'
<1>1. SnapCovered'
    BY DEF TableInv, SnapCovered, Covered
<1>2. Pointed'
    BY DEF TableInv, Pointed, tableVars
<1>3. /\ Accounted(nodes, made["master"], "master", shut)'
      /\ Accounted(slaveNodes, made["slave"], "slave", shut)'
    BY DEF TableInv, Accounted, InMap, tableVars
<1> QED
    BY <1>1, <1>2, <1>3 DEF TableInv

\* A step of a call, a heartbeat or the servers gives Update no topology.
LEMMA CallTable ==
    ASSUME NEW c \in Clients, Proceed(c)
    PROVE  UNCHANGED tableVars /\ snap' = snap /\ (upc' = "apply" => upc = "apply")
<1>1. CASE GetConnOk(c) \/ GetConnFail(c) \/ Exec(c) \/ ExecLost(c) \/ Expire(c) \/ ExpireLost(c)
    BY <1>1 DEF GetConnOk, GetConnFail, Exec, ExecLost, Expire, ExpireLost, updVars
<1>2. CASE ReplyErr(c) \/ HandleAsk(c) \/ HandleConnTimeout(c) \/ ReplyFinal(c) \/ Lookup(c)
    BY <1>2 DEF ReplyErr, HandleAsk, HandleConnTimeout, ReplyFinal, Lookup, updVars
<1>3. CASE ReplyOk(c) \/ HandleMove(c) \/ TimeoutMoved(c) \/ ClusterDown(c)
    <2>1. upc' = "apply" => upc = "apply"
        BY <1>3 DEF ReplyOk, HandleMove, TimeoutMoved, ClusterDown, Inform
    <2> QED
        BY <1>3, <2>1 DEF ReplyOk, HandleMove, TimeoutMoved, ClusterDown
<1> QED
    BY <1>1, <1>2, <1>3 DEF Proceed

\* Every step keeps the table accounted for.
LEMMA NextTable == TypeOK /\ TableInv /\ [Next]_vars => TableInv'
<1> SUFFICES ASSUME TypeOK, TableInv, [Next]_vars
             PROVE  TableInv'
    OBVIOUS
<1>1. CASE FetchOk
    <2>1. /\ UNCHANGED tableVars
          /\ snap' = Topology /\ Covered(Topology)
        BY <1>1 DEF FetchOk
    <2>2. SnapCovered'
        BY <2>1 DEF SnapCovered, Covered
    <2>3. Pointed'
        BY <2>1 DEF TableInv, Pointed, tableVars
    <2>4. /\ Accounted(nodes, made["master"], "master", shut)'
          /\ Accounted(slaveNodes, made["slave"], "slave", shut)'
        BY <2>1 DEF TableInv, Accounted, InMap, tableVars
    <2> QED
        BY <2>2, <2>3, <2>4 DEF TableInv
<1>2. CASE FetchFail \/ UpdaterLoop
    <2>1. UNCHANGED tableVars /\ upc' # "apply"
        BY <1>2 DEF FetchFail, UpdaterLoop
    <2> QED
        BY <2>1, OtherTable
<1>3. CASE Apply
    <2>1. Covered(snap) /\ Install(snap) /\ upc' = "loop"
        BY <1>3 DEF Apply, TableInv, SnapCovered
    <2>2. SnapCovered'
        BY <2>1 DEF SnapCovered
    <2> QED
        BY <2>1, <2>2, InstallTable DEF TableInv
<1>4. CASE WindowPasses
    BY <1>4, OtherTable DEF WindowPasses
<1>5. CASE Heartbeat
    <2>1. UNCHANGED tableVars /\ snap' = snap /\ (upc' = "apply" => upc = "apply")
        BY <1>5 DEF Heartbeat, Inform
    <2> QED
        BY <2>1, OtherTable
<1>6. ASSUME NEW c \in Clients, Proceed(c)
      PROVE  TableInv'
    BY <1>6, CallTable, OtherTable
<1>7. ASSUME NEW c \in Clients, NEW o \in Ops, NEW s \in Slots, Start(c, o, s)
      PROVE  TableInv'
    BY <1>7, OtherTable DEF Start, updVars
<1>8. CASE Close
    BY <1>8, CloseTable
<1>9. CASE Servers
    BY <1>9, OtherTable DEF Servers, updVars
<1>10. CASE UNCHANGED vars
    BY <1>10, OtherTable DEF vars, updVars
<1> QED
    BY <1>1, <1>2, <1>3, <1>4, <1>5, <1>6, <1>7, <1>8, <1>9, <1>10 DEF Next, Updater

\* The table is accounted for in every state.
LEMMA AlwaysTable == Spec => []TableInv
<1>1. Init => TableInv
    BY InitTable
<1>2. TypeOK /\ TableInv /\ [Next]_vars => TableInv'
    BY NextTable
<1> QED
    BY <1>1, <1>2, TypeCorrect, PTL DEF Spec

\* Whatever partial, repeated or late topologies Update installs, and however
\* they are interleaved with calls and with Close: until Close every slot
\* leads to a node that is filed under its address as a master and is not
\* shut down, and every replica offered to readers is filed and alive.
THEOREM SlotsCorrect == Spec => []SlotsServable
BY AlwaysTable, TableServable, PTL

\* Every node that Update ever created is in its map or is shut down, never
\* both: no connection pool is forgotten, and none is closed while in use.
THEOREM NodesCorrect == Spec => []NoOrphans
BY AlwaysTable, TableAccounts, PTL

-----------------------------------------------------------------------------
(* The commands that the servers run for a call *)

Effects == {"val", "ttl", "expire"}

NoVal(e)  == \A i \in 1..Len(e) : e[i] # "val"
OneVal(e) == \A i, j \in 1..Len(e) : e[i] = "val" /\ e[j] = "val" => i = j

\* The places from which the command may still be sent: before an exchange,
\* or after one that ended without the command having been run.
MaySend(p, k) ==
    \/ p \in {"conn", "exec", "lookup"}
    \/ p \in {"expire", "reply"} /\ k \in {"moved", "ask", "down", "econn"}

\* A call that may still send its command has not had it run.
Once(e, p, k) == OneVal(e) /\ (MaySend(p, k) => NoVal(e))

OnceInv == \A c \in Clients : Once(effects[c], pc[c], reply[c].k)

\* Running the command once.
LEMMA PushOnce ==
    ASSUME NEW e \in Seq(Effects), NoVal(e),
           NEW t, t = <<"val">> \/ t = <<"val", "ttl">>
    PROVE  OneVal(e \o t)
<1>1. Len(e) \in Nat /\ \A i \in 1..Len(e) : e[i] \in Effects
    OBVIOUS
<1>2. CASE t = <<"val">>
    <2>1. t \in Seq(Effects) /\ Len(t) = 1 /\ t[1] = "val"
        BY <1>2 DEF Effects
    <2>2. Len(e \o t) = Len(e) + Len(t)
        BY <2>1, ConcatProperties
    <2>3. \A i \in 1..(Len(e) + Len(t)) :
             (e \o t)[i] = IF i <= Len(e) THEN e[i] ELSE t[i - Len(e)]
        BY <2>1, ConcatProperties
    <2>4. \A i \in 1..(Len(e) + 1) : (e \o t)[i] = "val" => i = Len(e) + 1
        BY <1>1, <2>1, <2>3 DEF NoVal
    <2> QED
        BY <1>1, <2>1, <2>2, <2>4 DEF OneVal
<1>3. CASE t = <<"val", "ttl">>
    <2>1. t \in Seq(Effects) /\ Len(t) = 2 /\ t[1] = "val" /\ t[2] = "ttl"
        BY <1>3 DEF Effects
    <2>2. Len(e \o t) = Len(e) + 2
        BY <2>1, ConcatProperties
    <2>3. \A i \in 1..(Len(e) + 2) : (e \o t)[i] = IF i <= Len(e) THEN e[i] ELSE t[i - Len(e)]
        BY <2>1, ConcatProperties
    <2>4. \A i \in 1..(Len(e) + 2) : (e \o t)[i] = "val" => i = Len(e) + 1
        <3> SUFFICES ASSUME NEW i \in 1..(Len(e) + 2), (e \o t)[i] = "val"
                     PROVE  i = Len(e) + 1
            OBVIOUS
        <3>1. CASE i <= Len(e)
            BY <1>1, <2>3, <3>1 DEF NoVal
        <3>2. CASE i = Len(e) + 2
            <4>1. (e \o t)[i] = t[2]
                <5>1. i - Len(e) = 2 /\ ~(i <= Len(e))
                    BY <1>1, <3>2
                <5> QED
                    BY <2>3, <5>1
            <4> QED
                BY <2>1, <4>1
        <3> QED
            BY <1>1, <3>1, <3>2
    <2> QED
        BY <2>2, <2>4 DEF OneVal
<1> QED
    BY <1>2, <1>3

\* Setting the time to live is not running the command.
LEMMA ExpireOnce ==
    ASSUME NEW e \in Seq(Effects)
    PROVE  /\ OneVal(e) => OneVal(Append(e, "expire"))
           /\ NoVal(e) => NoVal(Append(e, "expire"))
<1>1. Len(e) \in Nat /\ Len(Append(e, "expire")) = Len(e) + 1
    OBVIOUS
<1>2. \A i \in 1..(Len(e) + 1) :
         Append(e, "expire")[i] = IF i <= Len(e) THEN e[i] ELSE "expire"
    OBVIOUS
<1>3. \A i \in 1..(Len(e) + 1) :
         Append(e, "expire")[i] = "val" => i \in 1..Len(e) /\ e[i] = "val"
    BY <1>1, <1>2
<1> QED
    BY <1>1, <1>3 DEF OneVal, NoVal

\* A call's step keeps the invariant if it does for that call alone.
LEMMA OnlyCall ==
    ASSUME TypeOK, OnceInv, NEW c \in Clients,
           \A d \in Clients \ {c} : effects'[d] = effects[d] /\ pc'[d] = pc[d] /\ reply'[d] = reply[d],
           Once(effects'[c], pc'[c], reply'[c].k)
    PROVE  OnceInv'
BY DEF OnceInv, Once, MaySend, OneVal, NoVal

\* The server's answer: the command has been run only if it is ok.
LEMMA RunOnce ==
    ASSUME TypeOK, NEW c \in Clients, pc[c] = "exec", OnceInv, NEW r,
           NEW e, e = IF r.k = "ok" THEN effects[c] \o Pushed(c) ELSE effects[c]
    PROVE  OneVal(e) /\ (r.k # "ok" => NoVal(e))
<1>1. OneVal(effects[c]) /\ NoVal(effects[c])
    BY DEF OnceInv, Once, MaySend
<1>2. effects[c] \in Seq(Effects)
    BY DEF TypeOK, Effects
<1>3. Pushed(c) = <<"val">> \/ Pushed(c) = <<"val", "ttl">>
    BY DEF Pushed
<1>4. CASE r.k = "ok"
    BY <1>1, <1>2, <1>3, <1>4, PushOnce
<1>5. CASE r.k # "ok"
    BY <1>1, <1>5
<1> QED
    BY <1>4, <1>5

\* A step of a call.
LEMMA ProceedOnce ==
    ASSUME TypeOK, OnceInv, NEW c \in Clients, Proceed(c)
    PROVE  OnceInv'
<1> DEFINE Same == \A d \in Clients \ {c} :
                      effects'[d] = effects[d] /\ pc'[d] = pc[d] /\ reply'[d] = reply[d]
           Done == Once(effects'[c], pc'[c], reply'[c].k)
<1>1. Once(effects[c], pc[c], reply[c].k)
    BY DEF OnceInv
<1>2. /\ effects \in [Clients -> Seq(Effects)]
      /\ DOMAIN pc = Clients /\ DOMAIN reply = Clients /\ DOMAIN effects = Clients
    BY DEF TypeOK, Effects
<1>3. CASE GetConnOk(c) \/ GetConnFail(c)
    <2>1. pc[c] = "conn" /\ effects' = effects
        BY <1>3 DEF GetConnOk, GetConnFail
    <2>2. OneVal(effects[c]) /\ NoVal(effects[c])
        BY <1>1, <2>1 DEF Once, MaySend
    <2>3. Done
        BY <2>1, <2>2 DEF Once
    <2>4. Same
        <3>1. CASE GetConnOk(c)
            BY <1>2, <3>1 DEF GetConnOk
        <3>2. CASE GetConnFail(c)
            BY <1>2, <3>2 DEF GetConnFail, Got
        <3> QED
            BY <1>3, <3>1, <3>2
    <2> QED
        BY <2>3, <2>4, OnlyCall
<1>4. CASE Exec(c)
    <2>1. PICK r \in ServerReplies(c) :
             /\ reply' = [reply EXCEPT ![c] = r]
             /\ effects' = [effects EXCEPT ![c] = IF r.k = "ok" THEN @ \o Pushed(c) ELSE @]
        BY <1>4 DEF Exec
    <2>2. /\ pc[c] = "exec"
          /\ pc' = [pc EXCEPT ![c] = IF Pipelined(c) THEN "expire" ELSE "reply"]
        BY <1>4 DEF Exec
    <2>3. OneVal(effects'[c]) /\ (r.k # "ok" => NoVal(effects'[c]))
        BY <1>2, <2>1, <2>2, RunOnce
    <2>4. reply'[c] = r /\ pc'[c] \in {"expire", "reply"}
        BY <1>2, <2>1, <2>2
    <2>5. Done
        BY <2>3, <2>4 DEF Once, MaySend
    <2>6. Same
        BY <1>2, <2>1, <2>2
    <2> QED
        BY <2>5, <2>6, OnlyCall
<1>5. CASE ExecLost(c)
    <2>1. pc[c] = "exec" /\ Got(c, Reply("err", NoAddr))
        BY <1>5 DEF ExecLost
    <2>2. reply'[c].k = "err" /\ pc'[c] = "reply"
        BY <1>2, <2>1 DEF Got, Reply
    <2>3. OneVal(effects[c])
        BY <1>1 DEF Once
    <2>4. /\ OneVal(effects'[c])
          /\ \A d \in Clients \ {c} : effects'[d] = effects[d]
        <3>1. CASE effects' = effects
            BY <2>3, <3>1
        <3>2. CASE effects' # effects
            <4>1. PICK r \in ServerReplies(c) :
                     effects' = [effects EXCEPT ![c] = IF r.k = "ok" THEN @ \o Pushed(c) ELSE @]
                BY <1>5, <3>2 DEF ExecLost
            <4> QED
                BY <1>2, <2>1, <4>1, RunOnce
        <3> QED
            BY <3>1, <3>2
    <2>5. Done
        BY <2>2, <2>4 DEF Once, MaySend
    <2>6. Same
        BY <1>2, <2>1, <2>4 DEF Got
    <2> QED
        BY <2>5, <2>6, OnlyCall
<1>6. CASE Expire(c)
    <2>1. PICK r \in ServerReplies(c) :
             effects' = [effects EXCEPT ![c] = IF r.k = "ok" THEN Append(@, "expire") ELSE @]
        BY <1>6 DEF Expire
    <2>2. /\ pc[c] = "expire" /\ reply' = reply
          /\ pc' = [pc EXCEPT ![c] = "reply"]
        BY <1>6 DEF Expire
    <2>3. effects'[c] = effects[c] \/ effects'[c] = Append(effects[c], "expire")
        BY <1>2, <2>1
    <2>4. /\ OneVal(effects[c]) => OneVal(effects'[c])
          /\ NoVal(effects[c]) => NoVal(effects'[c])
        BY <1>2, <2>3, ExpireOnce
    <2>5. Done
        BY <1>1, <1>2, <2>2, <2>4 DEF Once, MaySend
    <2>6. Same
        BY <1>2, <2>1, <2>2
    <2> QED
        BY <2>5, <2>6, OnlyCall
<1>7. CASE ExpireLost(c)
    <2>1. effects' = effects /\ Got(c, Reply("err", NoAddr))
        BY <1>7 DEF ExpireLost
    <2>2. Done
        BY <1>1, <1>2, <2>1 DEF Once, MaySend, Got, Reply
    <2>3. Same
        BY <1>2, <2>1 DEF Got
    <2> QED
        BY <2>2, <2>3, OnlyCall
<1>8. ASSUME NEW v, Return(c, v)
      PROVE  OnceInv'
    <2>1. effects' = effects /\ pc'[c] = "idle"
        BY <1>2, <1>8 DEF Return
    <2>2. Done
        BY <1>1, <2>1 DEF Once, MaySend
    <2>3. Same
        BY <1>2, <1>8, <2>1 DEF Return
    <2> QED
        BY <2>2, <2>3, OnlyCall
<1>9. ASSUME reply[c].k \in {"moved", "ask", "econn"}, pc[c] \in {"reply", "lookup"},
             effects' = effects, Same
      PROVE  OnceInv'
    <2>1. OneVal(effects[c]) /\ NoVal(effects[c])
        BY <1>1, <1>9 DEF Once, MaySend
    <2>2. Done
        BY <1>9, <2>1 DEF Once
    <2> QED
        BY <1>9, <2>2, OnlyCall
<1>10. CASE ReplyOk(c) \/ ReplyErr(c) \/ ClusterDown(c) \/ ReplyFinal(c)
    <2>1. \E v : Return(c, v)
        BY <1>10 DEF ReplyOk, ReplyErr, ClusterDown, ReplyFinal
    <2> QED
        BY <1>8, <2>1
<1>11. CASE HandleMove(c) \/ HandleAsk(c) \/ HandleConnTimeout(c)
    <2>1. reply[c].k \in {"moved", "ask", "econn"} /\ pc[c] = "reply"
        BY <1>11 DEF HandleMove, HandleAsk, HandleConnTimeout, Replied
    <2>2. effects' = effects /\ reply' = reply
        BY <1>11 DEF HandleMove, HandleAsk, HandleConnTimeout
    <2>3. \E v : pc' = [pc EXCEPT ![c] = v]
        <3>1. CASE HandleMove(c)
            BY <3>1 DEF HandleMove
        <3>2. CASE HandleAsk(c)
            BY <3>2 DEF HandleAsk
        <3>3. CASE HandleConnTimeout(c)
            BY <3>3 DEF HandleConnTimeout
        <3> QED
            BY <1>11, <3>1, <3>2, <3>3
    <2>4. Same
        BY <1>2, <2>2, <2>3
    <2> QED
        BY <1>9, <2>1, <2>2, <2>4
<1>12. CASE TimeoutMoved(c)
    <2>1. CASE reply[c].to = node[c].addr
        BY <1>8, <1>12, <2>1 DEF TimeoutMoved
    <2>2. CASE reply[c].to # node[c].addr
        <3>1. reply[c].k = "moved" /\ pc[c] = "reply"
            BY <1>12 DEF TimeoutMoved, Replied
        <3>2. effects' = effects /\ reply' = reply /\ pc' = [pc EXCEPT ![c] = "lookup"]
            BY <1>12, <2>2 DEF TimeoutMoved
        <3>3. Same
            BY <1>2, <3>2
        <3> QED
            BY <1>9, <3>1, <3>2, <3>3
    <2> QED
        BY <2>1, <2>2
<1>13. CASE Lookup(c)
    <2>1. CASE closed \/ nodes[reply[c].to] = NoNode
        BY <1>8, <1>13, <2>1 DEF Lookup
    <2>2. CASE ~(closed \/ nodes[reply[c].to] = NoNode)
        <3>1. pc[c] = "lookup"
            BY <1>13 DEF Lookup
        <3>2. effects' = effects /\ reply' = reply /\ pc' = [pc EXCEPT ![c] = "conn"]
            BY <1>13, <2>2 DEF Lookup
        <3>3. OneVal(effects[c]) /\ NoVal(effects[c])
            BY <1>1, <3>1 DEF Once, MaySend
        <3>4. Done
            BY <3>2, <3>3 DEF Once
        <3>5. Same
            BY <1>2, <3>2
        <3> QED
            BY <3>4, <3>5, OnlyCall
    <2> QED
        BY <2>1, <2>2
<1> QED
    BY <1>3, <1>4, <1>5, <1>6, <1>7, <1>10, <1>11, <1>12, <1>13 DEF Proceed

\* Every step keeps the invariant.
LEMMA NextOnce == TypeOK /\ OnceInv /\ [Next]_vars => OnceInv'
<1> SUFFICES ASSUME TypeOK, OnceInv, [Next]_vars
             PROVE  OnceInv'
    OBVIOUS
<1>1. ASSUME UNCHANGED <<effects, pc, reply>>
      PROVE  OnceInv'
    BY <1>1 DEF OnceInv
<1>2. CASE Updater
    BY <1>1, <1>2 DEF Updater, FetchOk, FetchFail, Apply, UpdaterLoop, callVars
<1>3. CASE WindowPasses \/ Heartbeat \/ Close \/ Servers
    BY <1>1, <1>3 DEF WindowPasses, Heartbeat, Close, Servers, callVars
<1>4. CASE UNCHANGED vars
    BY <1>1, <1>4 DEF vars, callVars
<1>5. ASSUME NEW c \in Clients, Proceed(c)
      PROVE  OnceInv'
    BY <1>5, ProceedOnce
<1>6. ASSUME NEW c \in Clients, NEW o \in Ops, NEW s \in Slots, Start(c, o, s)
      PROVE  OnceInv'
    <2>1. /\ effects' = [effects EXCEPT ![c] = <<>>]
          /\ reply' = [reply EXCEPT ![c] = Reply("none", NoAddr)]
          /\ pc' = pc \/ pc' = [pc EXCEPT ![c] = "conn"]
        BY <1>6 DEF Start
    <2>2. DOMAIN effects = Clients /\ DOMAIN reply = Clients /\ DOMAIN pc = Clients
        BY DEF TypeOK
    <2>3. Once(effects'[c], pc'[c], reply'[c].k)
        BY <2>1, <2>2 DEF Once, OneVal, NoVal
    <2>4. \A d \in Clients \ {c} : effects'[d] = effects[d] /\ pc'[d] = pc[d] /\ reply'[d] = reply[d]
        BY <2>1, <2>2
    <2> QED
        BY <2>3, <2>4, OnlyCall
<1> QED
    BY <1>2, <1>3, <1>4, <1>5, <1>6 DEF Next

LEMMA AlwaysOnce == Spec => []OnceInv
<1>1. Init => OnceInv
    BY DEF Init, OnceInv, Once, OneVal, MaySend, Reply
<1>2. TypeOK /\ OnceInv /\ [Next]_vars => OnceInv'
    BY NextOnce
<1> QED
    BY <1>1, <1>2, TypeCorrect, PTL DEF Spec

\* Along any chain of redirections, timeouts and lost replies, and whatever
\* the topology does meanwhile, the servers run the command of a call at most
\* once: Do, SlaveDo, multiSet and multiGet send it again only after an
\* answer that says it has not been run.
THEOREM RunAtMostOnce == Spec => []AtMostOnce
<1>1. OnceInv => AtMostOnce
    <2> SUFFICES ASSUME OnceInv, NEW c \in Clients
                 PROVE  Cardinality({i \in 1..Len(effects[c]) : effects[c][i] = "val"}) <= 1
        BY DEF AtMostOnce
    <2>0. \A i, j \in 1..Len(effects[c]) :
             effects[c][i] = "val" /\ effects[c][j] = "val" => i = j
        BY DEF OnceInv, Once, OneVal
    <2> DEFINE V == {i \in 1..Len(effects[c]) : effects[c][i] = "val"}
    <2>1. \A i, j \in V : i = j
        BY <2>0
    <2>2. CASE V = {}
        BY <2>2, FS_EmptySet
    <2>3. CASE V # {}
        <3>1. PICK i \in V : V = {i}
            BY <2>1, <2>3
        <3>2. Cardinality({i}) = 1
            BY FS_Singleton
        <3> HIDE DEF V
        <3>3. Cardinality(V) = 1
            BY <3>1, <3>2
        <3> QED
            BY <3>3 DEF V
    <2> QED
        BY <2>2, <2>3
<1> QED
    BY <1>1, AlwaysOnce, PTL

=============================================================================
