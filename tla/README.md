# A verification project for ipfs-nosql-frame

TLA+ models of the stateful core of the repository, checked with TLC on small
instances, and proofs with TLAPS, for every instance, of the safety properties of
every module. `PROJECT.json` lists the components, the runs, the mutants that show
that each property depends on the code it is about, the source lines of every
definition, the findings, the hazards and the theorems.

## The system

A side car ("SC") that listens for RESP clients on a TCP or unix socket and
forwards log lists to a redis cluster, under rules it polls from a configuration
service (MSP). It is built from these parts.

| Part | State | Operations | What is hard | Module |
|---|---|---|---|---|
| connection pool (`rediscluster/node.go`) | list of idle connections, `closed`, counters on a connection | `getConn`, `releaseConn`, `shutdown`, `do`, `doRpushExpire` | late replies, dial outside the mutex, expiry, shutdown at any time | `ConnPool` |
| cluster client (`cluster.go`) | slot table, maps of nodes, update channel | `Do`, `SlaveDo`, `Update`, `Inform`, redirections, `Close` | the table is replaced while calls use its nodes; lost update messages; retries | `Cluster` |
| multi-key commands (`multi.go`) | tasks | MSET, MSETNX, MGET | scatter, gather, unbuffered channels | `Multi` |
| batches (`batch.go`) | `batches`, `index` | `Put`, `RunBatch`, `doBatch` | table change between Puts, partial failure, fallback to the master | `Batch` |
| cache (`memorycacher/cache.go`) | items, janitor, callback | Set, Add, Replace, Get, Increment.., Delete, Flush, Load | check-then-act, callback outside the lock, dropped signals, wrap-around | `TTLMap`, `MemoryCache` |
| log proxy (`sc/resper.go`, `sc/filter`, `sc/metrics`) | rules, counters | RPUSH, LPOP, BLPOP, LLEN, PING, CLUSTERKEYNODE; rule monitor; ClearKey | rules change between three look-ups of one command; rounds that fail half-way | `LogProxy` |
| network server (`bareneter`) | listener, map of connections | accept, handle, `Close` | handlers racing with the teardown | `BareServer` |
| RESP codec (`resparse/credis`, `resparse/bufio2`) | buffers of reader and writer, sticky errors | `Decode`, `DecodeMultiBulk`, `Encode`, `Flush`, `NeedFlush` | chunks that end anywhere, lengths at their limits, writes that fail half-way, bytes that come with the end of the stream | `Resp`, `RespReader`, `RespWriter`, `RespCodec`, `RespStream`, `RespChannel` |
| HTTP gateways (`sc/traffic_*`) | route cache, listeners | incoming and outgoing requests, `handleRequestRoute` | stale routes, chains that change while they are walked, panics that end the process, a service that never answers | `Router` |
| start-up, configuration, logging | - | - | I/O and wiring | not modelled, see below |

They interact by calls: the server runs a handler for each connection
(`BareServer` -> `LogProxy`), which calls the cluster client (`LogProxy` ->
`Cluster`), which runs commands over the pool of a node (`Cluster`, `Multi`,
`Batch` -> `ConnPool`). A connection of a client is read through the decoder
(`LogProxy` -> `RespReader`). The outgoing gateway asks redis for the relation of
a request and keeps the answer in the cache (`Router` -> `TTLMap`, which
`MemoryCache` implements). Each module treats the part below as a choice among the
outcomes which that part's own module allows: for instance `Cluster` reduces a
pool to "a connection, or ECONNTIMEOUT with nothing written", which is what
`EconnUnsent` of `ConnPool` establishes, and "the exchange fails and the command
may or may not have been executed".

## The modules

**ConnPool.** One `redisNode` and the goroutines that borrow from it. A call is
`getConn` (expiry loop and `Back` under the mutex, dial outside), a pipeline of
`PipelineLen(kind)` commands, as many replies, `releaseConn`; any error shuts the
connection down. `wire` and `inbox` carry the requests and replies of a
connection; a request names its client, call and position, so a reply that
reaches the wrong call is visible. `Tick` is the clock, `Finalize` the runtime
closing a socket nobody refers to (connections that expire are dropped, not
closed). A goroutine that follows a redirection while it holds a connection acts
as two clients. The bytes of the protocol (`writeCommand`, `readReply` and what
they call) are abstracted to success or error.

**Cluster.** The table and its update (`FetchOk`, `Apply`), the updater goroutine
(`UpdaterLoop`, at most one update a second: `recent`, `WindowPasses`), `Inform`,
and one call after another for each client: `Start` picks the node, `GetConnOk`,
`Exec`, `Expire` run it, and one action for each case of `checkReply` follows.
A node is `[addr, role, gen]`: two objects for one address differ. The servers
(`owner`, `moving`, `master`, `up`) are external and agree with each other; they
migrate slots, fail over, crash, restart. `Inform` is one step (the message is
stamped before the select; a late select is a dropped message); the choice of a
random node and the `Inform` of `UpdateSlotsInfoByRandomNode` are one step; the
goroutine `SlaveDo` starts is covered by `Heartbeat`; `Close` is called once.

**Multi.** `Split` is the section under `rwLock`; a task (`TaskOk`, `TaskFail`)
is a goroutine that ends by offering on its channel; `Take` is the caller's
receive, in order; `SetCollect` and `GetCollect` aggregate. Other clients write
meanwhile.

**Batch.** `Put` against a table that `Retable` changes between Puts, one
`doBatch` goroutine for each nodeBatch, `Collect` for the loop that restores the
order. `numSeed` picks one replica for each slot of a table. A redirection is
reduced to its outcome. A batch is run once (running it again panics).

**MemoryCache and TTLMap.** Every operation of `cache` is one action for each
critical section. `TTLMap` says what a cache with expiring items promises: the
visible items change only by complete operations, a read returns what is there
and not expired, arithmetic keeps the expiration, no operation sees an expired
item. `MemoryCache` implements it through `View`, the items not expired. The answer
of Set, Add and Replace says which of them it was, so that an Add that stores over a
visible item is no step of `TTLMap`. Integers of w bits wrap at `Half` = 2^(w-1). An
item is known by its key and the number of the write that stored it, so that the
reports of the callback can be counted. `Load` is not bounded by the limit, so the
run and the theorem of `LimitOvershoot` leave it out.

**LogProxy.** The maps of rules are functions on the keys they list, as the Go maps
are (`Nothing` stands for what no map has). The monitor (`FetchOk`, `FetchFail`,
`BuildOk`, `BuildFail`), one action for each look-up and step of a command, counters,
`ClearKey` in its three steps. The cluster, the limiter and the MSP are external. The
`LLEN`s of one round are taken together; a failed round (`BuildFail`) stands for the
key without node and the limiter that cannot be created. `ReportData` and
`ReportMetrics` only read the counters and are left out. RPUSH names a key, pops may
also name a shard of `sc_log`. Two variables are history: `during` has what the rules
have said of the key of a command while it ran, `lapsed` the keys that were unlisted at
some time of the current round of `ClearKey`; `Record` keeps them, and no step of the
program reads them.

**BareServer.** The serving goroutine, one handler for each connection, `Close`.
The handler closes its connection on every way out, as `RequestHandleRESP` does.

**Resp, RespReader, RespWriter, RespCodec, RespStream, RespChannel.** One end of a
connection encodes, the other decodes, and `wire` holds the bytes between them.
`Resp` has what both ends use: the values, the integers (`Itoa`, `Btoi64`, in a small
base so that a length of two digits belongs to a short payload), the lines and words
of a text, and the calls of the buffered writer that `encodeResp` makes for a value
(`Calls`). `RespReader` is the buffered reader and the decoder: every read of the
connection is a step that brings any number of bytes (`Fill`, `DirectRead`), fails
(`ReadFails`) or returns bytes and the end of the stream together (`ReadsLast`); the
decoder's steps (`ReadType`, `ReadText`, `ReadInt`, `CopyBody`, ...) use the buffer,
and `frames` is the stack of the arrays being decoded. `RespWriter` makes the calls,
one step for each (`Put`, `WriteDirect`, `WriteFull`, which may fail after some
bytes), under the FlushEncoder. `RespCodec` puts them together; in some behaviours a
peer that need not keep to the protocol takes the place of the encoder and `wire`
starts with its bytes. Its constants `Byte` and `Values` are the bytes and values
there are.

Two specifications say what this promises. `RespStream` has the same encoder and
decoder without any buffer: what is written is at the end of the stream at once, and
a line, a number or a bulk is taken from the front in one step when it is there.
`RespCodec` implements it with `Unread`, the bytes of both buffers and of the wire in
a row, for the stream, and `BodyLen` for the bulk being read. `RespChannel` knows
values only: they arrive whole, in order, up to some point.

**Router.** A handler accepts a request, asks the cache (`CacheGet`), then
looks up each hop of the request in redis (`Send`, `Hget`, `Receive`), stores the
target (`Store`) and forwards the request (`Forward`, `Done`). Relations are
changed by others at any moment (`Publish`), so `rel` is read at one time and used
at another; `left` remembers what was replaced and when. A request has one of the
five forms that the code tells apart: rejected before the token is looked at,
with a token that panics, refused for its token, direct, or over a chain. `Panic`
ends the process, with its cache, and `Start` begins it again with the listeners
that come up. The cache is `TTLMap`, by INSTANCE. `AcceptFixed` is the incoming
gateway, and the outgoing one in gateway mode. Time passes (`Tick`) only while
handlers wait; `ReadTimeout` bounds one call of redis.

`MCCluster`, `MCMulti`, `MCRouter` and `MCLogProxy` define the values of constants that a
`.cfg` cannot write (functions and records), `MCMemoryCache` the symmetry of
clients and keys for the run without liveness, `MCRespCodec` the programs and
streams of `RespCodec` and the grammar it is compared with; a `.cfg` changes no definition. The
other modules are run as they are.

## Runs

Deadlock is checked where the system never stops; runs with bounded calls that
end say `CHECK_DEADLOCK FALSE`, because the environment may stop. The type
invariants of `ConnPool` and `MemoryCache`, which say who holds a connection and how
wide an integer is, are checked by ConnPool and MemoryCacheOps; those of the other
modules are part of what is proved.

| Run | Bounds | Shows |
|---|---|---|
| ConnPool | 2 clients, 2 connections, keepAlive 2, 2 calls of any kind each, clock 2 | a connection has one owner (`SingleOwner`), replies reach the call that asked (`RepliesMatch`), ECONNTIMEOUT means nothing was written (`EconnUnsent`), no socket leaks (`SocketsOwned`), a shut node empties (`ShutdownDrains`), expired connections are not handed out (`NoStaleConn`), calls end (`CallReturns`) |
| ClusterTable | 3 servers, 2 slots, 2 topology changes or crashes, `Close`; MSET, MGET, replica reads | `SlotsServable`, `NoOrphans` |
| ClusterLive | the same servers, 1 transient fault, RPUSH, fair | `AtMostOnce`, `CallReturns`, `Converges` |
| Multi | 3 keys in 2 slots, 3 arguments with repetitions, 1 foreign write, fair | `SetOk`, `GetAligned`; a call returns and leaves no goroutine blocked on its channel (`MultiReturns`) |
| Batch | 1 slot, 2 masters, 1 replica, 3 commands, 1 table change, fair | `RepliesAligned`, `FailureContained`, `AtMostOnce`, `BatchReturns` |
| MemoryCache | 2 clients, 2 keys, limit 1, 3 writes; Set, Add, Delete, DeleteExpired, OnEvicted and the janitor | `LimitOvershoot`, `ReportedOnce`, `RefinesTTLMap` |
| MemoryCacheOps | 1 client, 1 key, the other operations, integers of 2 bits, fair | `RefinesTTLMap`, `ExpiredCollected` |
| LogProxy | 1 connection, 2 commands of any kind, rules that change, fair | what becomes of an RPUSH is what the rules said while it ran, although it reads them three times (`RpushJudged`); a failed round withdraws nothing (`KeepsRules`), what is served is published (`RulesPublished`); counters of unlisted keys go (`UnlistedForgotten`) and those of listed ones stay (`CountersKept`) |
| RespCodec | reader's buffer of 5 bytes, writer's of 3, bulks of 3 bytes, arrays of 2, integers in base 2; 6 programs of up to 3 values, and every prefix and every one-byte change of 5 streams; reads and writes that fail | what is decoded is what was encoded or what a grammar of the whole stream says (`RefinesChannel`), the decoder gives up exactly where the grammar does (`RejectsExactly`), the buffers are transparent (`RefinesStream`), what is flushed arrives (`FlushedArrives`) |
| Router | 2 handlers, 2 requests, 2 services, a chain of two hops, 1 change of a relation, clock 3, lifetime and time-out of 1 tick, fair | a request goes only to a host that redis led to over every hop of its route not too long ago (`StaleBounded`); no request is left hanging by the router (`Routed`) |
| BareServer | 3 connections on a unix socket, `Close`, fair | the map leads to every open connection (`OpenTracked`) and to none that is gone (`MapServed`); `Close` ends everything (`CloseStops`) |

The bounds are the smallest in which the races can happen: two goroutines for one
pool or cache, and calls enough to reuse what the other one released; two slots so
that a table may cover one and not the other; two topology changes so that a
redirection can be outdated when it is followed; three commands so that two share a
node and one does not, with a table change in between; three arguments so that a
slot is left and returned to; a limit of one so that two writers exceed it; two
commands so that the second meets rules the first did not. The buffers of the codec
are shorter than the longest line and the longest value and no multiple of them, so
that every line and every bulk is cut at every place, and bulks are read both
through the buffer and past it. The clock of the router goes on for a tick after
the route of a direct request that was stored as late as possible has expired. What is proved (see
Proofs) holds without these bounds.

`Converges` has the premise that a master known to the client runs. Without it
the property fails: with a single known master that fails over,
`handleConnTimeout` asks the dead node again and informs nobody.

`StaleBounded` says "a request of the same route", because a hit of the cache
looks at nothing else: the token of the request is not read then, and a request
whose own token would be refused is forwarded if another one filled the cache.

### The run that finds a disagreement

ClusterRpushTTL checks a statement of a comment that the code does not keep: a
redirected RPUSH pushes the expiration time as an element of the list and sets no
expiration. `PROJECT.json` quotes the comment under `findings`.

### Other behaviour to know of

The models contain these too; no run is spent on them, and the passing runs are
set up, or their properties stated, so that they are not hidden by accident.

- `Do` returns nil, nil for a command that was not executed, if the last step of a
  chain of MOVED redirections fails (`HandleMove` and what follows it in `Cluster`):
  `checkReply` takes the nil for a final reply.
- If the limiter of a key cannot be created, the round of the rule monitor is
  abandoned with `respData` already replaced; if the MSP does not answer from then
  on, no rule is published, not even the proxy's own. `RulesPublished` is stated for
  a MSP that answers again.
- The slot may move between the RPUSH and the EXPIRE of `doRpushExpire`: the list
  is left without expiration and the caller sees no error.
- `Close` shuts only the nodes of `cluster.nodes`; replica nodes stay open. A call
  that times out after it finds no random node and dereferences nil: the
  runs that check calls do not close the client.
- MSETNX always reports an error, since its integer reply is read as a string:
  `SetOk` is about MSET.
- A node that cannot be reached gives nil replies in a batch and no error.
- `Set` of an existing key is ignored by a full cache; a full cache without
  janitor, and `OnEvicted(nil)` between the test of the callback and its call,
  panic.
- The limit of `sc_log` is not applied to the shards it is spread over, and a rule
  without warning length drops every push.
- The reader's `fill` drops bytes that come together with an error, so the last
  values before the end of a TLS stream may be lost (`ReadsLast`); `dropped` marks
  the behaviours in which it happens and the properties of RespCodec leave it open.
- An encoder that fails keeps what it has buffered: values encoded before a value
  of an unknown type never reach the peer. Text that holds a line feed is written
  as it is.
- A listener on a unix socket is not started if its file does not exist yet, and
  the error of `ListenAndServe` is ignored (`Start` may leave out any listener).
  Both goroutines that start listeners write the same `err` of `main`.
- In gateway mode the outgoing gateway sets an empty path. `checkChains` compares a
  channel with strings, so one that is missing or a number passes.
- A token of fewer than seven bytes, one that does not parse, and a direct call with
  an empty stack make the handler panic, and nothing recovers: the process ends
  (`TokenPanics`).
- The HTTP client waits for a response without limit: `Routed` says nothing of a
  request once it has gone out.
- `ClearKey` may delete the counter of a key that was listed again since it took
  its copy of the rules.

### Fairness

- ConnPool, Batch, Multi: weak fairness of every goroutine's next step. `sc.go` passes
  the timeouts of dial, write and read from the configuration. The client sets a
  deadline only for a timeout that is positive (`node.go:197`, `209`, `221`), so
  `CallReturns`, `MultiReturns` and `BatchReturns` hold where all three are configured
  and not zero; with a zero read timeout a call waits for as long as the server does.
- Cluster: weak fairness of the updater, of the passing of its one-second window
  and of calls under way; strong fairness of `Start` for each slot in the run of
  `Converges`, which says that traffic to every slot goes on, because the client
  learns of a change only through traffic.
- MemoryCache: strong fairness of `JanitorTick`: the ticker's channel is buffered
  and `select` picks among ready cases at random.
- LogProxy: the monitor's loop goes on, the limiter's redis is not down for ever nor
  is a key without node for ever, handlers and `ClearKey`'s goroutine go on;
  `FairMSPSpec` adds that the MSP is not down for ever. `ClearKey` is started only
  with `InfluxDBConf.Enable` (`sc.go:197-218`): without it nothing clears the counters,
  and `UnlistedForgotten` does not hold.
- RespCodec: both ends go on with what they can do, the end of a closed stream is
  noticed, and the user of the encoder flushes at the end. Nothing is assumed of
  errors, nor of bytes that would come with the end of the stream.
- Router: handlers go on, and a call of redis ends by its reply or by its time-outs.
  The process need not be started again and services need not answer.
- BareServer: the serving goroutine goes on except in `Accept`, which a closed
  listener ends; a handler is only assumed to return once its socket is closed,
  since clients are read from without deadline.

## Proofs

Each theorem holds for all values of the constants that satisfy the module's named
assumption, which says no more than what the constants are (disjoint sets of names,
natural numbers, a number of goroutines that is finite where they are counted); TLC
evaluates it in every run. One theorem, `LimitCorrect`, has a hypothesis of its own.
Hardly any property is inductive: each proof is of a stronger invariant,
which TLC was given first, and then per action.

| Module | Run's properties proved | Inductive invariant |
|---|---|---|
| `ConnPoolProofs` | `TypeOK`, `SingleOwner`, `RepliesMatch`, `EconnUnsent`, `SocketsOwned`, `NoStaleConn` | layers, see below |
| `ClusterProofs` | `SlotsServable`, `NoOrphans`, `AtMostOnce`; also `TypeOK` | `Typed`; `TableInv`; `OnceInv` |
| `BatchProofs` | `RepliesAligned`, `FailureContained`, `AtMostOnce` | `Inv`: `TypeOK`, `Layout`, `Once`, `Gathered` |
| `MultiProofs` | `SetOk`, `GetAligned` | `Inv` |
| `MemoryCacheProofs` | `TypeOK`, `LimitOvershoot`, `ReportedOnce`, `RefinesTTLMap` | `Typed`; `Limited`; `Fresh`, `Apart`, `Told` |
| `LogProxyProofs` | `RpushJudged`, `CountersKept`, `KeepsRules`; of `BareServer`: `OpenTracked`, `MapServed` | `Inv`: `FilterOK`, `ReportOK`, `ConnOK`, `Handler` of every connection; `ServerInv`: `ServerTypeOK`, `HandlersClose` and the two |
| `RespCodecProofs` | `RefinesStream`; also `TypeOK` and `IntRoundTrip` | `Inv`: `Shared`; `ReaderOK` (`BufferOK`, `DecoderOK`, `Framed`, `ReaderInv`); `WriterTypeOK`, `WriterInv` |
| `RouterProofs` | `StaleBounded` | `Inv`: `Typed`, `CacheKnown`, `HandlerKnows` of every handler |

**The pool.** `TypeInv` (types, and `HeldOK`: who holds a connection at which point of
a call), `OwnerInv` (`SingleOwner` and `OwnedOpen`: a connection that is held or pooled
has its socket open, hence no fresh connection can be one of these), `FlightInv`
(`UnheldQuiet` and `InFlight`: what a client has read, what is to be read and what is
to be answered on its connection together are the commands of its current call, in a
row) and `CallInv` (`CallFresh`: before the first write nothing is touched), each from
the ones before. `InFlight` is what makes `RepliesMatch` inductive: a connection is
released only when `pending` is zero, and then nothing can arrive on it any more.
`FreshCorrect` rests on `PoolOrdered`, the order of the list by release time, without
which the expiry loop could stop before an expired connection.

**The server.** A goroutine that is cleaning up has closed its socket, so taking it
out of the map loses no open connection. An entry is made before its goroutine is
started, which is the only one to end it, so no entry outlives its goroutine.

**The cluster client.** `SlotsServable` and `NoOrphans` hold because of each other:
`TableInv` says that the nodes an update is about to install are filed under their
addresses (`Pointed`), that the snapshot it works from covers every slot
(`SnapCovered`, the test of `Update` that a partial CLUSTER SLOTS is refused), and that
every node is in its map or shut down (`Accounted`). `OnceInv` says of each place of a
call whether its command may have been run: only an answer that says it was not, or a
connection that was never written to, leads to another attempt.

**Batches.** `Layout` says that `index` and the `cmds` of the nodeBatches are one
numbering: the n-th position that points to a nodeBatch is its n-th command. So
taking the first reply left of each nodeBatch, position by position, restores the
order of the Puts (`Gathered`), and a nodeBatch that failed takes nothing from others.

**Multi-key commands.** The invariant relates the tasks to the arguments: a task has
the positions of one slot, in order, and the values it is to write. The proof needs
facts about `Positions`, the loop that appends them, for sequences of any length, that
is, induction over data. The induction theorems of the library take an operator as
parameter, which the provers cannot instantiate; `MultiProofs` uses the well-founded
order of the naturals instead, which is stated of sets: a set of naturals that is not
empty has a least element (`Smallest`), so there is no least number up to which the
loop is wrong (`Induction`, `GrownExists`, `PositionsIs`).

**The cache.** Seven shapes cover all steps (`StepShapes`), and each invariant is shown
shape by shape. `LimitCorrect` counts the items together with the goroutines between
the test of the limit and the store; its hypothesis is that no file is loaded.
`ReportedCorrect` follows the identity of an item: it is younger than the writes to
come (`Fresh`) and in one place only, a goroutine that stores it, the map, or the items
removed (`Apart`); so what two goroutines are about to report is disjoint (`Told`).
It holds whatever handlers are set, `nil` included; the panic that this may cause ends
the behaviour. `ViewCorrect` maps each operation to one of `TTLMap`; cleaning is a
stutter because the time it read is not in the future (`Placed`), so that what has
expired by then has expired now.

**The log proxy.** `FilterOK` says which keys `respData` lists at each place of the
monitor. `KeepsRules` is an action property and follows from it: a round that fails
leaves the rules alone, and one that succeeds lists what was served last. `Handler`
says, at each place of an RPUSH, what the rules must have said since it started: after
the first look-up that they listed the key, after the second what `GetFilterRule`
returned, after the third that the list had no limit. The rules may have changed since;
the history only grows while the command runs, so none of it is lost (`Remembers`,
`Waits`). A refusal for the limit is about the key and not about a shard, because no
rule lists a shard. `ReportOK` says that the keys `ClearKey` is about to delete were
unlisted during the round; a counter made meanwhile is never taken for a missing one,
so only the deletion removes counters, and `CountersKept` follows.

**The router.** A cached route has an expiry that is not over its lifetime away, and
redis finished leading to its target not earlier than the lifetime and one time-out
before that expiry (`CacheKnown`). What a handler holds is, at each place of its walk,
what redis led to, hop by hop, within the time of its look-ups (`HandlerKnows`, by
`Reached`, `Held` and `Known`). The walk has as many hops as its route: the induction
over hops is the one of the steps.

**The codec.** `StreamCorrect` says that no size of a buffer, cutting of the bytes
into reads and writes, or time of a flush can be told from what is decoded. Behind the
invariant is one equation: the stream is what the reader holds (collected bytes and the
window of its buffer) followed by what is still to come (the wire and the writer's
buffer). A `Fill`, a `DirectRead`, a `CopyBody` that is not the last and a flush move
bytes along it and are stutters; a step of the decoder takes a prefix of what it holds
and is one step of `RespStream`. For a line this needs that what was collected has no
newline (`ReaderInv`), so that the one found in the buffer is the first of the stream;
for the line of a number, that it is rejected if and only if the stream has none in its
first `N` bytes, although the buffer may hold fewer of them at that moment; for the end of
the stream, that a reader under a decoder that has not failed has reached it only if
nothing is left to read. On the other side, an encoder that has failed or closed has
nothing more to write, and one that closes, or counts no unflushed values, has nothing
in its buffer (`WriterInv`): the bytes that an error cuts off are at the end of the
stream, never within. `TypeCorrect` bounds what a peer can make the decoder allocate.
`IntRoundTrip` is about the recursive functions of the digits, for integers of any
size: `Induction` again, and the existence of each function.

Proof attempts changed the models in these places. `Cluster` had `CASE` expressions
with arms that overlap, of which TLC takes the first and the semantics any: they are
conditionals now. The rule maps of `LogProxy` were total functions with a mark for
absent keys, which hid what `KeepsRules` is about. `Positions` of `Multi` was a library
operator and is the loop of the code now. In `MemoryCache` a `Load` gave one identity
to several items, the values were bounded by the width even for a float, and `TTLMap`
bounded the expirations; all three were right only in the instance that TLC ran. The
modules of the codec had recursive operators for digits and words and a `LOCAL
INSTANCE` of the library, out of the provers' reach: they are recursive functions now,
the place of a newline is an operator of its own (`FirstLF`), and what bytes and values
are is said by constants with an assumption.

Only model-checked: the liveness properties (`CallReturns`, `ShutdownDrains`,
`Converges`, `MultiReturns`, `BatchReturns`, `ExpiredCollected`, `RulesPublished`,
`UnlistedForgotten`, `FlushedArrives`, `Routed`, `CloseStops`), which are out of the
prover's reach, and `RejectsExactly` and `RefinesChannel`: the grammar of whole streams
that they compare the decoder with (`MCRespCodec`) is made of recursive operators,
which the provers cannot use. `RefinesStream` is the part of them that is about
buffers; what is left is about the decoder on a plain stream.

## Not modelled

- The parsers `respecho/RedisFastParser`, `respecho/RedSHandle/parser.go` and
  `BufReader` are not used by the program, and `respecho/RedResp` is a copy of a
  library; of this part only the writer of `RedSHandle` is used, which formats the
  replies of `LogProxy`.
- Reply conversion with reflection (`reply.go`, `Scan` and the numeric ones): single
  values, no state. The `String` and `Values` that `multi.go` uses are in `Multi`.
- Start-up except for the listeners, configuration, TLS, logging, `ReportData`,
  `ReportMetrics` and the senders of alerts and events, which only read what the models
  have: I/O and wiring. The loop that asks for a certificate
  (`StartTLSConn`) repeats without end, with growing pauses, before anything else runs.
- The sharded cache is unexported and unused. Key hashing (`crc16.go`) is a constant
  function of the models. The pool of buffers of `bufio2` is not used by the program:
  `NewDecoderSize` allocates one.
- HTTP details: headers, the rewriting of addresses, the pool of fasthttp.

## Plan

1. Done: ConnPool, Cluster, Multi, Batch, MemoryCache with TTLMap, LogProxy,
   BareServer, the codec against RespStream and RespChannel, the Router on TTLMap;
   proofs of the safety properties of all of them.
2. Next proofs: the Router's steps on its cache as steps of `TTLMap`, so that the
   theorem of the cache carries over to its user; the round trip of whole values (what
   is decoded is a prefix of what was encoded) on `RespStream`, from `IntRoundTrip` and
   an induction over values, which `StreamCorrect` would carry over to the buffers.
3. Then: an abstract specification of the cluster client ("each command is executed
   at most once and a reply means it was") that `Cluster` refines in the absence of
   the finding; a composition of `LogProxy` with the outcomes of `Cluster`.
