------------------------------- MODULE Batch --------------------------------
(***************************************************************************)
(* Batches of commands (utils/rediscluster/batch.go): Put sorts commands   *)
(* into one nodeBatch for each node, RunBatch runs a goroutine (doBatch)   *)
(* for each of them and puts the replies back into the order of the Puts.  *)
(*                                                                         *)
(* The slot table is replaced by Update (module Cluster) while commands    *)
(* are put. doBatch gets a connection (module ConnPool), sends a pipeline  *)
(* and reads its replies; a redirected command is followed as in module    *)
(* Cluster, of which only the outcome is kept here. A batch is run once.   *)
(***************************************************************************)
EXTENDS Integers, Sequences, FiniteSets

CONSTANTS
    Slots,       \* hash slots of the keys
    Masters,     \* nodes of type MASTER_NODE
    Slaves,      \* nodes of type SLAVE_NODE
    NoNode,      \* the nil *redisNode
    MaxCmds,     \* bound: commands put
    MaxUpdates   \* bound: updates of the slot table

ASSUME BatchAssumption ==
    /\ Masters \cap Slaves = {}
    /\ NoNode \notin Masters \cup Slaves
    /\ MaxCmds \in Nat /\ MaxUpdates \in Nat

VARIABLES
    master,   \* cluster.slots
    replica,  \* the replica of each slot that numSeed selects, NoNode if none
    updates,  \* updates of the table so far
    batches,  \* batch.batches
    index,    \* batch.index
    phase,    \* "put", "run" while RunBatch waits, "done"
    reply,    \* nodeCommand.reply of each command, in the order of the Puts
    ran,      \* HISTORY: how often the servers ran each command
    result    \* what RunBatch returned: an error and the replies

tableVars == <<master, replica, updates>>
vars      == <<tableVars, batches, index, phase, reply, ran, result>>

Nodes == Masters \cup Slaves

\* A command is known by the number of its Put.
Cmd == Len(index)

\* "nil" is also the reply of a command that has none.
ReplyKinds == {"nil", "ok", "redis", "down"}

\* node and use: the node the commands were put for and the one they are
\* sent to; n: replies received.
NodeBatches == [node : Nodes, master : Masters \cup {NoNode}, cmds : Seq(Nat),
                use : Nodes, pc : {"conn", "fallback", "send", "ready", "recv", "done"},
                n : Nat, err : BOOLEAN]

Init ==
    /\ master \in [Slots -> Masters]
    /\ replica \in [Slots -> Slaves \cup {NoNode}]
    /\ updates = 0
    /\ batches = <<>>
    /\ index = <<>>
    /\ phase = "put"
    /\ reply = <<>>
    /\ ran = <<>>
    /\ result = [err |-> FALSE, replies |-> <<>>]

-----------------------------------------------------------------------------
(* Put *)

\* GET of a batch in slave mode goes to a replica if the slot has one, and
\* remembers its master; everything else goes to the master.
NodeFor(s, slave) == IF slave /\ replica[s] # NoNode THEN replica[s] ELSE master[s]
MasterFor(s, slave) == IF slave /\ replica[s] # NoNode THEN master[s] ELSE NoNode

NewBatch(s, slave) ==
    [node |-> NodeFor(s, slave), master |-> MasterFor(s, slave), cmds |-> <<Cmd + 1>>,
     use |-> NodeFor(s, slave), pc |-> "conn", n |-> 0, err |-> FALSE]

\* slave is Put's isSlaveOperate, for a GET; FALSE for any other command.
Put(s, slave) ==
    /\ phase = "put"
    /\ Cmd < MaxCmds
    /\ LET same == {i \in 1..Len(batches) : batches[i].node = NodeFor(s, slave)}
       IN  IF same = {}
           THEN /\ batches' = Append(batches, NewBatch(s, slave))
                /\ index' = Append(index, Len(batches) + 1)
           ELSE LET i == CHOOSE i \in same : \A j \in same : i <= j
                IN  /\ batches' = [batches EXCEPT ![i].cmds = Append(@, Cmd + 1)]
                    /\ index' = Append(index, i)
    /\ reply' = Append(reply, "nil")
    /\ ran' = Append(ran, 0)
    /\ UNCHANGED <<tableVars, phase, result>>

\* EXTERNAL: the updater of module Cluster installs another table.
Retable(s, m, r) ==
    /\ phase = "put"
    /\ updates < MaxUpdates
    /\ updates' = updates + 1
    /\ master' = [master EXCEPT ![s] = m]
    /\ replica' = [replica EXCEPT ![s] = r]
    /\ UNCHANGED <<batches, index, phase, reply, ran, result>>

RunBatch ==
    /\ phase = "put"
    /\ phase' = "run"
    /\ UNCHANGED <<tableVars, batches, index, reply, ran, result>>

-----------------------------------------------------------------------------
(* doBatch, for the nodeBatch i *)

At(i, p) == phase = "run" /\ i \in 1..Len(batches) /\ batches[i].pc = p

Step(i, b) ==
    /\ batches' = [batches EXCEPT ![i] = b]
    /\ UNCHANGED <<tableVars, index, phase, result>>

\* The goroutine ends, with batch.err set or not; its locals go.
End(i, failed) ==
    Step(i, [batches[i] EXCEPT !.err = failed, !.pc = "done", !.use = batches[i].node, !.n = 0])

\* An error: batch.err is set and the connection closed.
Fail(i) == End(i, TRUE)

GetConnOk(i) ==
    /\ At(i, "conn") \/ At(i, "fallback")
    /\ Step(i, [batches[i] EXCEPT !.pc = "send"])
    /\ UNCHANGED <<reply, ran>>

\* A replica that cannot be reached is replaced by the master, once.
GetConnFail(i) ==
    /\ At(i, "conn")
    /\ IF batches[i].node \in Slaves /\ batches[i].master # NoNode
       THEN Step(i, [batches[i] EXCEPT !.use = batches[i].master, !.pc = "fallback"])
       ELSE Fail(i)
    /\ UNCHANGED <<reply, ran>>

\* Mutant: the replica is tried again, and so on.
FallbackAgain(i) ==
    /\ At(i, "fallback")
    /\ Step(i, [batches[i] EXCEPT !.use = batches[i].node, !.pc = "conn"])
    /\ UNCHANGED <<reply, ran>>

FallbackFail(i) ==
    /\ At(i, "fallback")
    /\ Fail(i)
    /\ UNCHANGED <<reply, ran>>

\* READONLY, to a replica, and the commands; flush.
SendOk(i) ==
    /\ At(i, "send")
    /\ Step(i, [batches[i] EXCEPT !.pc = IF batches[i].use \in Slaves THEN "ready" ELSE "recv"])
    /\ UNCHANGED <<reply, ran>>

\* The commands of the pipeline whose replies have not been read.
Unread(i) == {batches[i].cmds[k] : k \in (batches[i].n + 1)..Len(batches[i].cmds)}

\* The servers run the commands K.
Run(K) == ran' = [k \in DOMAIN ran |-> IF k \in K THEN ran[k] + 1 ELSE ran[k]]

\* Mutant: a pipeline that fails on a replica is sent to its master.
PipeFailRetries(i) ==
    /\ At(i, "send") \/ At(i, "ready") \/ At(i, "recv")
    /\ \E K \in SUBSET Unread(i) : Run(K)
    /\ IF batches[i].use \in Slaves
       THEN Step(i, [batches[i] EXCEPT !.use = batches[i].master, !.pc = "fallback"])
       ELSE Fail(i)
    /\ UNCHANGED reply

\* A write or a read fails, or READONLY is refused; the servers may have run
\* any of the commands that were on their way.
PipeFail(i) ==
    /\ At(i, "send") \/ At(i, "ready") \/ At(i, "recv")
    /\ \E K \in SUBSET Unread(i) : Run(K)
    /\ Fail(i)
    /\ UNCHANGED reply

ReadOnlyOk(i) ==
    /\ At(i, "ready")
    /\ Step(i, [batches[i] EXCEPT !.pc = "recv"])
    /\ UNCHANGED <<reply, ran>>

\* The next reply, after redirections if there are any: a reply; an error
\* reply; nil, with an error that nobody reads, if a redirection failed (the
\* command may have been run); CLUSTERDOWN.
Receive(i) ==
    /\ At(i, "recv")
    /\ batches[i].n < Len(batches[i].cmds)
    /\ LET k == batches[i].cmds[batches[i].n + 1]
       IN  /\ \E r \in ReplyKinds : reply' = [reply EXCEPT ![k] = r]
           /\ \/ reply'[k] \in {"ok", "nil"} /\ Run({k})
              \/ reply'[k] # "ok" /\ UNCHANGED ran
    /\ Step(i, [batches[i] EXCEPT !.n = @ + 1])

\* All replies are read: releaseConn.
Finish(i) ==
    /\ At(i, "recv")
    /\ batches[i].n = Len(batches[i].cmds)
    /\ End(i, FALSE)
    /\ UNCHANGED <<reply, ran>>

-----------------------------------------------------------------------------
(* The end of RunBatch *)

\* Mutant: the slice is not pushed on.
ConsumedFirst(j) == batches[index[j]].cmds[1]

\* The command whose reply RunBatch takes for position j: each use of a
\* nodeBatch consumes the first of its commands.
Consumed(j) == batches[index[j]].cmds[Cardinality({h \in 1..j : index[h] = index[j]})]

NilReply == [cmd |-> 0, kind |-> "nil"]

\* Mutant: one failed node blanks every reply.
PositionAny(j) ==
    IF (\E i \in 1..Len(batches) : batches[i].err) \/ reply[Consumed(j)] = "nil" THEN NilReply
    ELSE [cmd |-> Consumed(j), kind |-> reply[Consumed(j)]]

\* What is returned at position j: nil if its node failed.
Position(j) ==
    IF batches[index[j]].err \/ reply[Consumed(j)] = "nil" THEN NilReply
    ELSE [cmd |-> Consumed(j), kind |-> reply[Consumed(j)]]

\* CLUSTERDOWN for one command is the result of the whole batch.
Collect ==
    /\ phase = "run"
    /\ \A i \in 1..Len(batches) : batches[i].pc = "done"
    /\ result' = IF \E j \in 1..Len(index) : reply[Consumed(j)] = "down"
                 THEN [err |-> TRUE, replies |-> <<>>]
                 ELSE [err |-> FALSE, replies |-> [j \in 1..Len(index) |-> Position(j)]]
    /\ phase' = "done"
    /\ UNCHANGED <<tableVars, batches, index, reply, ran>>

DoBatch(i) ==
    \/ GetConnOk(i) \/ GetConnFail(i) \/ FallbackFail(i)
    \/ SendOk(i) \/ PipeFail(i) \/ ReadOnlyOk(i) \/ Receive(i) \/ Finish(i)

Next ==
    \/ \E s \in Slots, slave \in BOOLEAN : Put(s, slave)
    \/ \E s \in Slots, m \in Masters, r \in Slaves \cup {NoNode} : Retable(s, m, r)
    \/ RunBatch
    \/ \E i \in 1..Len(batches) : DoBatch(i)
    \/ Collect

Spec == Init /\ [][Next]_vars

\* Every goroutine goes on: dialling, writing and reading have timeouts.
FairSpec ==
    /\ Spec
    /\ \A i \in 1..MaxCmds : WF_vars(DoBatch(i))
    /\ WF_vars(Collect)

-----------------------------------------------------------------------------
(* Properties *)

\* The variables keep their Go types.
TypeOK ==
    /\ master \in [Slots -> Masters]
    /\ replica \in [Slots -> Slaves \cup {NoNode}]
    /\ updates \in Nat
    /\ batches \in Seq(NodeBatches)
    /\ index \in Seq(1..Len(batches))
    /\ phase \in {"put", "run", "done"}
    /\ reply \in Seq(ReplyKinds) /\ Len(reply) = Cmd
    /\ ran \in Seq(Nat) /\ Len(ran) = Cmd
    /\ result \in [err : BOOLEAN, replies : Seq([cmd : Nat, kind : ReplyKinds])]

\* A batch that returns has one reply for each command, and never the reply
\* to another command: scattering over the nodes by Put, with a table that
\* changes meanwhile, and gathering in RunBatch undo each other.
RepliesAligned ==
    phase = "done" /\ ~result.err =>
        /\ Len(result.replies) = Cmd
        /\ \A j \in 1..Cmd : result.replies[j].cmd \in {0, j}

\* The failure of one node, or of one redirection, costs no reply of the
\* other nodes.
FailureContained ==
    phase = "done" /\ ~result.err =>
        \A i \in 1..Len(batches) : ~batches[i].err =>
            \A k \in 1..Len(batches[i].cmds) :
                LET c == batches[i].cmds[k]
                IN  reply[c] # "nil" => result.replies[c] = [cmd |-> c, kind |-> reply[c]]

\* No command is run twice, a replica given up for its master included.
AtMostOnce == \A k \in 1..Len(ran) : ran[k] <= 1

\* RunBatch returns: no goroutine of it is waited for in vain.
BatchReturns == phase = "run" ~> phase = "done"
=============================================================================
