------------------------------- MODULE Multi --------------------------------
(***************************************************************************)
(* MSET, MSETNX and MGET (utils/rediscluster/multi.go): the keys of a call *)
(* are split into one task for each slot, under rwLock; a goroutine runs   *)
(* each task and then offers its end on an unbuffered channel; the caller  *)
(* takes them in order and aggregates the replies.                         *)
(*                                                                         *)
(* A task is known by the position of its first key. How a task follows    *)
(* redirections is module Cluster; only the outcome is kept here. Other    *)
(* clients may write the keys while the call runs.                         *)
(***************************************************************************)
EXTENDS Integers, Sequences, FiniteSets

CONSTANTS
    Keys,
    Slots,
    SlotOf,     \* hash
    Cmds,       \* the commands called
    MaxArgs,    \* bound: keys in a call
    MaxWrites   \* bound: writes of other clients

ASSUME MultiAssumption ==
    /\ SlotOf \in [Keys -> Slots]
    /\ Cmds \subseteq {"MSET", "MSETNX", "MGET"}
    /\ MaxArgs \in Nat \ {0} /\ MaxWrites \in Nat

VARIABLES
    store,    \* EXTERNAL: the value of each key, 0 if it does not exist
    writes,   \* writes of other clients so far
    cmd,
    args,     \* the keys; MSET and MSETNX set the key at position i to i
    tasks,    \* the tasks, a function on the positions of their first keys
    phase,    \* "idle", "wait" while the caller takes from the channels, "done"
    result,   \* what the caller gets
    left      \* HISTORY: what the call has written to each key, 0 if nothing

vars == <<store, writes, cmd, args, tasks, phase, result, left>>

\* The kinds of reply a task can end with: "nil" is (nil, nil) after a
\* redirection that failed, "err" any other error.
ReplyKinds == {"none", "string", "int", "list", "redis", "nil", "err"}

OfKind(k) == [kind |-> k, vals |-> <<>>]

Init ==
    /\ store \in [Keys -> {-1, 0}]
    /\ writes = 0
    /\ cmd \in Cmds
    /\ args = <<>>
    /\ tasks = <<>>
    /\ phase = "idle"
    /\ result = OfKind("none")
    /\ left = [k \in Keys |-> 0]

-----------------------------------------------------------------------------
(* Splitting *)

\* Mutant: the search for a task of the slot looks at the last one only.
LeaderLast(a, i) ==
    IF i > 1 /\ SlotOf[a[i - 1]] = SlotOf[a[i]]
    THEN CHOOSE j \in 1..i :
            /\ \A h \in j..i : SlotOf[a[h]] = SlotOf[a[i]]
            /\ j = 1 \/ SlotOf[a[j - 1]] # SlotOf[a[i]]
    ELSE i

\* The task that the key at position i of a is given to.
Leader(a, i) ==
    CHOOSE j \in 1..i : /\ SlotOf[a[j]] = SlotOf[a[i]]
                        /\ \A h \in 1..(j - 1) : SlotOf[a[h]] # SlotOf[a[i]]

Leaders(a) == {Leader(a, i) : i \in 1..Len(a)}

\* The positions of the keys of task t, as appended to its args.
Positions(a, t) ==
    LET upTo[n \in 0..Len(a)] ==
            IF n = 0 THEN <<>>
            ELSE IF Leader(a, n) = t THEN Append(upTo[n - 1], n) ELSE upTo[n - 1]
    IN  upTo[Len(a)]

Split(a) ==
    /\ phase = "idle"
    /\ args' = a
    /\ tasks' = [t \in Leaders(a) |-> [pos |-> Positions(a, t), pc |-> "run",
                                       reply |-> OfKind("none")]]
    /\ phase' = "wait"
    /\ UNCHANGED <<store, writes, cmd, result, left>>

\* An odd number of arguments, or a slot without a node: no task is started.
Reject(a) ==
    /\ phase = "idle"
    /\ args' = a
    /\ result' = OfKind("err")
    /\ phase' = "done"
    /\ UNCHANGED <<store, writes, cmd, tasks, left>>

-----------------------------------------------------------------------------
(* handleSetTask, handleGetTask *)

KeysOf(t) == {args[tasks[t].pos[n]] : n \in 1..Len(tasks[t].pos)}

\* The value a key gets from task t: a later pair wins.
Written(t, k) ==
    LET here == {n \in 1..Len(tasks[t].pos) : args[tasks[t].pos[n]] = k}
    IN  tasks[t].pos[CHOOSE n \in here : \A h \in here : h <= n]

\* EXTERNAL: the redis server runs the command of task t.
Sets(t) ==
    \/ cmd = "MSET"
    \/ cmd = "MSETNX" /\ \A k \in KeysOf(t) : store[k] = 0

Execute(t) ==
    IF Sets(t)
    THEN /\ store' = [k \in Keys |-> IF k \in KeysOf(t) THEN Written(t, k) ELSE store[k]]
         /\ left' = [k \in Keys |-> IF k \in KeysOf(t) THEN Written(t, k) ELSE left[k]]
    ELSE UNCHANGED <<store, left>>

Answer(t) ==
    CASE cmd = "MSET"   -> OfKind("string")
      [] cmd = "MSETNX" -> OfKind("int")
      [] cmd = "MGET"   -> [kind |-> "list",
                            vals |-> [n \in 1..Len(tasks[t].pos) |-> store[args[tasks[t].pos[n]]]]]

End(t, r) ==
    /\ tasks' = [tasks EXCEPT ![t].pc = "send", ![t].reply = r]
    /\ UNCHANGED <<writes, cmd, args, phase, result>>

TaskOk(t) ==
    /\ t \in DOMAIN tasks /\ tasks[t].pc = "run"
    /\ Execute(t)
    /\ End(t, Answer(t))

\* An error: of the server, of the network, or of a redirection, which MGET
\* does not follow. The command may have been run before its reply was lost.
TaskFail(t) ==
    /\ t \in DOMAIN tasks /\ tasks[t].pc = "run"
    /\ \/ /\ UNCHANGED <<store, left>>
          /\ End(t, OfKind("redis"))
       \/ /\ Execute(t) \/ UNCHANGED <<store, left>>
          /\ \E k \in IF cmd = "MGET" THEN {"err"} ELSE {"err", "nil"} : End(t, OfKind(k))

-----------------------------------------------------------------------------
(* The caller *)

\* Mutant: the caller does not receive from a task once it has an error.
TakenSome == \A t \in DOMAIN tasks : tasks[t].pc = "gone" \/ tasks[t].reply.kind = "err"

\* All the channels were received from.
Taken == \A t \in DOMAIN tasks : tasks[t].pc = "gone"

\* <-tasks[i].done, in order.
Take(t) ==
    /\ phase = "wait"
    /\ t \in DOMAIN tasks /\ tasks[t].pc = "send"
    /\ \A h \in DOMAIN tasks : h < t => tasks[h].pc = "gone"
    /\ tasks' = [tasks EXCEPT ![t].pc = "gone"]
    /\ UNCHANGED <<store, writes, cmd, args, phase, result, left>>

Finish(r) ==
    /\ phase = "wait" /\ Taken
    /\ result' = r
    /\ phase' = "done"
    /\ UNCHANGED <<store, writes, cmd, args, tasks, left>>

\* Mutant: only errors are looked at, not the replies.
StringsLax == \A t \in DOMAIN tasks : tasks[t].reply.kind # "err"

\* Every reply is a string: String fails on nil, error and integer replies.
Strings == \A t \in DOMAIN tasks : tasks[t].reply.kind = "string"

SetCollect ==
    /\ cmd \in {"MSET", "MSETNX"}
    /\ Finish(OfKind(IF Strings THEN "string" ELSE "err"))

\* The reply at position i: each use of a task consumes the first of its
\* replies.
Nth(i) ==
    tasks[Leader(args, i)].reply.vals[
        Cardinality({h \in 1..i : Leader(args, h) = Leader(args, i)})]

\* Values has made an error of every reply that is not a list.
GetCollect ==
    /\ cmd = "MGET"
    /\ Finish(IF \A t \in DOMAIN tasks : tasks[t].reply.kind = "list"
              THEN [kind |-> "list", vals |-> [i \in 1..Len(args) |-> Nth(i)]]
              ELSE OfKind("err"))

-----------------------------------------------------------------------------

\* EXTERNAL: another client writes a value that was never there before.
OtherWrites(k) ==
    /\ phase = "wait" /\ writes < MaxWrites
    /\ writes' = writes + 1
    /\ store' = [store EXCEPT ![k] = MaxArgs + writes + 1]
    /\ UNCHANGED <<cmd, args, tasks, phase, result, left>>

Calls == UNION {[1..n -> Keys] : n \in 1..MaxArgs}

Next ==
    \/ \E a \in Calls : Split(a) \/ Reject(a)
    \/ \E t \in 1..MaxArgs : TaskOk(t) \/ TaskFail(t) \/ Take(t)
    \/ SetCollect
    \/ GetCollect
    \/ \E k \in Keys : OtherWrites(k)

Spec == Init /\ [][Next]_vars

\* The goroutines and the caller go on: the network calls have timeouts.
FairSpec ==
    /\ Spec
    /\ \A t \in 1..MaxArgs : WF_vars(TaskOk(t) \/ TaskFail(t)) /\ WF_vars(Take(t))
    /\ WF_vars(SetCollect \/ GetCollect)

-----------------------------------------------------------------------------
(* Properties *)

\* The variables keep their Go types.
TypeOK ==
    /\ store \in [Keys -> Int] /\ left \in [Keys -> 0..MaxArgs]
    /\ writes \in 0..MaxWrites
    /\ cmd \in Cmds /\ args \in Calls \cup {<<>>}
    /\ \A t \in DOMAIN tasks :
          /\ t \in 1..Len(args)
          /\ tasks[t].pos \in Seq(1..Len(args))
          /\ tasks[t].pc \in {"run", "send", "gone"}
          /\ tasks[t].reply \in [kind : ReplyKinds, vals : Seq(Int)]
    /\ phase \in {"idle", "wait", "done"}
    /\ result \in [kind : ReplyKinds, vals : Seq(Int)]

\* An MSET that returns OK has left in every key the value of the last pair
\* that names it, whatever the interleaving of its tasks.
SetOk ==
    cmd = "MSET" /\ result.kind = "string" =>
        \A i \in 1..Len(args) :
            left[args[i]] = CHOOSE j \in 1..Len(args) :
                                /\ args[j] = args[i]
                                /\ \A h \in (j + 1)..Len(args) : args[h] # args[i]

\* An MGET that returns has a value for each key, one that the task of the key
\* read for it; keys of one slot are read together, so a key that is asked for
\* twice has one value even if it is written meanwhile.
GetAligned ==
    result.kind = "list" =>
        /\ Len(result.vals) = Len(args)
        /\ \A i, j \in 1..Len(args) : args[i] = args[j] => result.vals[i] = result.vals[j]
        /\ \A i \in 1..Len(args) : \E t \in DOMAIN tasks :
              \E n \in 1..Len(tasks[t].pos) :
                 tasks[t].pos[n] = i /\ result.vals[i] = tasks[t].reply.vals[n]

\* Every call returns, and none of its goroutines outlives it: a task that the
\* caller no longer waits for, because another one failed, would block for ever
\* on its unbuffered channel.
MultiReturns ==
    phase = "wait" ~> phase = "done" /\ \A t \in DOMAIN tasks : tasks[t].pc = "gone"
=============================================================================
