# A verification of Yarc

Yarc is a C++ client library for Redis. This directory holds TLA+ specifications of its core, the TLC
configurations that model-check them on small instances, and theorems about them that TLAPS has checked for every
value of the constants. Paths below are relative to the repository; a line like `sc:33` is a line of
`Source/yarc_simple_client.cpp`; likewise `cc` is `yarc_cluster_client.cpp`, `cl` `yarc_cluster.cpp`, `ps` `yarc_pubsub.cpp`,
`pd` `yarc_protocol_data.cpp`, `re` `yarc_reducer.cpp` and `cp` `yarc_connection_pool.cpp`.

The **Windows build** is the reference. On Linux `Semaphore::Increment` is empty and `Decrement` returns no value
(`yarc_semaphore.h`), and `Thread::Sleep` does nothing: the Linux `SimpleClient` has no defined behaviour to
specify beyond that. Where the two builds differ in something the model shows, this page says so.

## 1. The system

| Component | State it keeps | Operations | Who it talks to |
|---|---|---|---|
| **SimpleClient** | unsent, sent and served request lists, message list, `numRequestsInFlight`, the semaphore, `socketStream`, `thread` | `Update`, `Flush`, `MakeRequestAsync/Sync`, `MakeTransactionRequestAsync/Sync`, `CancelAsyncRequest`, `Destroy` with recycling, the reception thread `ThreadFunc` | the program (callbacks), its own thread (the lists), the pool, the socket |
| **ClientInterface** | the push-data callback | `MakeRequestSync`, `RegisterPushDataCallback` | calls the virtual functions of the clients |
| **SocketStream, ByteStream** | the socket handle | `Connect`, `Disconnect`, `IsConnected`, `ReadBuffer`, `WriteBuffer`, `ReadBufferNow`, `WriteBufferNow` | the network |
| **ThreadSafeList, Semaphore, Mutex, Thread** | a list and its mutex, a kernel semaphore, a thread and its exit state | add, remove, find; increment, decrement; spawn, wait | used by SimpleClient |
| **ConnectionPool** | idle streams by address | `CheckoutSocketStream`, `CheckinSocketStream` | shared by all clients |
| **PubSub** | the subscription map, an input and an output client | `Subscribe`, `Unsubscribe`, `Publish`, `Update` | two SimpleClients, their callbacks |
| **ClusterClient** | configuration state, nodes with slot ranges, requests with states | `Update`, `MakeRequestAsync`, redirections (`HandleError`), `ProcessClusterConfig` | one SimpleClient per node; ReductionObject |
| **ReductionObject** | a delete flag per list node | `ReduceList` | runs ClusterClient's requests and nodes, Cluster's migrations |
| **Cluster, Migration** | server processes, migration state | `SetupCluster`, `Update`, `Migration::Reduce` | one SimpleClient per node |
| **ProtocolData** | a tree of RESP values | parse, print, classify, hash slot of a command | the streams |
| DynamicArray, LinkedList, CRC16, Misc, Process | | | helpers |
| YarcTester, TestClient | | | programs that exercise the library against a live server |

**How they interact.** A program makes requests and calls `Update` from its main loop. `Update` connects through
the pool, starts the reception thread, prints the unsent requests to the socket and calls the callbacks of the
served ones. The reception thread parses what arrives and moves the head of the sent list to the served list. The
two threads share the lists (a mutex each), the semaphore, the `sock` field of the stream and the life of the
thread; `numRequestsInFlight`, `socketStream` and `callback` fields have no lock. PubSub, ClusterClient and Cluster
are single-threaded state machines on top: everything they do happens inside an `Update`, or inside a callback
that an `Update` calls.

**What is hard.**

* The response may arrive before `PrintTree` has returned; the match of response and request is by position only,
  so one response too many or too few shifts every later one on the connection.
* A connection may be lost at any point of `Update`, and the reception thread may exit at any point.
* `CancelAsyncRequest` searches three lists one after the other while the reader moves the request between them.
* Synchronous calls give up after a time while their request is under way, and their callback refers to locals.
* The purge of the sent list and `numRequestsInFlight` are separate pieces of state.
* Callbacks make requests of their own.
* In ClusterClient, a request waits for a callback that may never come, and nodes are deleted while in use.
* A stream passes from a client that ends to the pool and the next client, while the old reader may still run.
* PubSub's map, the commands in two clients and the server's subscriptions are three views of one thing.
* A slot that moves is described by two nodes' marks and beliefs, changed by separate commands that may fail.
* The parser has no way to find the next value again if it reads one byte too many or too few of this one.

**What makes each component correct.** SimpleClient: the three lists are one queue in the order of the requests; a
callback gets its own response, once, in order, and not after a successful cancel; the semaphore counts the served
list; the reader has a stream; `Update` returns; every request is resolved; a transaction stays on one connection.
ConnectionPool: a stream has one owner, and the next owner finds no response on it that is not its own. PubSub: what
the map says is subscribed is so at the server or on its way, and stays so in the end. ClusterClient: a request runs once, on a node that owns
its slot, and is answered in the end; no node or request is used after it was deleted. ReductionObject: every
pass knows whether the node it stands on is still there, and the links agree. Cluster: every slot is assigned,
every key is found wherever one starts to ask, and a migration ends. ProtocolData: a value is parsed to its end and
no further, printing and parsing agree, and a key has the slot the cluster computes. `PROJECT.json` lists, under `hazards`, the lines where each of these could go wrong.

## 2. What is modelled

| Module | What it is |
|---|---|
| `RequestQueue` | the abstract promise of a client: one queue of requests, answered from its head with their own responses; waiting ones may be silenced; an unbroken run of them is dropped with a connection |
| `SimpleClient` | the main thread, the reception thread, socket, network and server, one step per access to shared state |
| `ClusterClient` | the configuration states, the nodes, the requests and their redirections, one step per state change in `Update`, with a Redis cluster that moves slots, gossips and loses connections around it |
| `ConnectionPool` | the pool's lists and the life of the streams, as actions for the modules that use it |
| `ClientTeardown` | a client from `Create` to its destructor, with recycling, its reader and the pool; clients one after the other (EXTENDS `ConnectionPool`) |
| `PubSub` | the subscription map over two clients, with the server's subscriptions |
| `ReductionList` | `LinkedList` link by link, and the nested passes of `ReduceList` over it |
| `Cluster` | setting up a cluster, and the states of a migration among masters that gossip and redirect |
| `HashSlot` | the hash slot as the code computes it and as the cluster defines it (pure operators) |
| `ProtocolData` | words of a command, printing and parsing of values, and a session that uses them (EXTENDS `HashSlot`) |
| `SimpleClientProofs` | theorems about `SimpleClient`: types, the semaphore, the stream, the responses |
| `SimpleClientQueueProofs` | ... about its lists as one queue, and that it implements `RequestQueue` (EXTENDS `SimpleClientProofs`) |
| `SimpleClientWireProofs` | ... about what it writes to a connection and what comes back (EXTENDS `SimpleClientQueueProofs`) |
| `ClusterClientProofs`, `ClientTeardownProofs`, `ReductionListProofs`, `ClusterProofs`, `PubSubProofs` | the theorems about those modules |
| `MC...` | the values TLC needs: kinds of replies, nodes and slots, addresses, keys, replies |

What composes with what: `SimpleClient` implements `RequestQueue`, and the modules above it rely on a client as that
queue: `ClusterClient` (one per node), `PubSub` (two, which also lose their connections) and `Cluster` (one per master).
`ClientTeardown` looks at the same client as `SimpleClient` with coarser steps of `Update` and finer ones of the end.

### How SimpleClient corresponds to the code

A request is its `requestID`. The lists hold IDs; a request that has been given a response is a record `[id,
reply]`, where `reply` is the request *the server* was answering. That one field is what lets a property say that
the response in a callback is the right one.

| Variables | Code |
|---|---|
| `unsent`, `sent`, `served`, `messages` | the four lists (`messages` only as a count) |
| `cur`, `hand` | the request popped by `Update` whose callback runs; the request popped by the reader and not yet on the served list |
| `nextRequestID`, `inFlight`, `sem` | `Request::nextRequestID`, `numRequestsInFlight`, the semaphore's count |
| `pc`, `op`, `syncID`, `printing`, `cancel` | where the main thread is in `Update`, `CancelAsyncRequest`, `Flush` or `MakeRequestSync`, and their locals |
| `thread`, `item` | `thread` is null (`none`), runs (where it is in `ThreadFunc`) or has exited with its object still there; `item` is `serverData` |
| `sock` | `socketStream` is null, its handle is open, or it is `INVALID_SOCKET` |
| `link`, `wire`, `answered`, `pushes` | external: the connection, the requests written to it that have no response read yet, how many of them the server has answered, messages published and not yet read |
| `noop` | requests whose callback `CancelAsyncRequest` replaced |
| `calls` | callbacks called, in order; it also stands for `requestServiced` |
| `cancelled`, `missed`, `purged`, `txns`, `carrier`, `conns`, `torn`, `misreads`, `pushed`, `resets`, `closes` | history for the properties (`carrier`: the connection a request was written to; `torn`: the connections on which the parser gave up on a value), and counts that the bounds apply to |

Main-thread steps, in the order of `Update` (`sc:111`): `UpdateConnect` / `UpdateNotConnected` (with the retry
delay: both are "nothing happens in this Update"), the post-connect callback (`pc = "connected"`, where the program
may make requests), `UpdateLive` / `UpdateLost` / `UpdateJoined` (the `IsConnected` test, the wait for the reader, the
purge), `UpdateSpawn` / `UpdateSpawnFails` / `UpdateThread`, `UpdateSend` and `UpdatePrint` per unsent request,
`UpdateTake` (Decrement), `UpdateServe` (RemoveHead and the callback, which runs until `UpdateDealloc`) per served
request, `UpdateMessage` and `UpdateDone`. `CancelUnsent`, `CancelSent`, `CancelServed` are the three searches, each
a step, twice over. `Flush` and `MakeRequestSync` are loops around `Update`: `op` says which one runs, and their
time may be over after any `Update`. The reader's steps are the loop test, the read of one value, and then the steps
of the branch for its kind: `ReaderPush`, or `ReaderDispatch`, `ReaderServe`, `ReaderSignal`.

The program's calls (`UserCode`) are possible between two Updates, in the post-connect callback, in the callback of a
request and in the push-data callback.

Abstractions: the bytes of a value are read in one step, since nothing can be interleaved with them on one
connection; `ReplyKinds` says how the reader classifies what answers a request: `plain` (a response), `pushlike` (an
array whose first element is the blob `message`, `sc:258-266`) or `rejected` (`ParseTree` gives up in the middle of it and the
thread exits). After a rejection the next Updates replace the thread on the *same* stream (`sc:158-175`), and what is left of
the value is read as further values: `ReaderMisreads` is any such read, of a response, a message or another rejection, taking
as much as it likes of what has come. `ProtocolData` says which values those are. A `SocketStream` whose
`recv` or `send` fails is marked `INVALID_SOCKET`. On a graceful close Windows' `recv` returns 0 and
`ReadBufferNow` calls it again: the reader has no step to take until something is written and the server resets
the connection.

### How ClusterClient corresponds to the code

ClusterClient is one thread; what interleaves with it are the nodes of the cluster. `RequestQueue` is what it relies on
of a node's `SimpleClient`: `queue[n]` holds the commands given to the client of `n`, in order, each with how far it
has come: unsent, sent, or the kind of reply the node gave.

| Variables | Code |
|---|---|
| `state`, `countdown`, `nodes`, `ranges`, `requestList` | `state`, `retryClusterConfigCountdown`, `clusterNodeList`, the slot ranges of its nodes (as the set of their slots), `requestList` |
| `rstate`, `redirects`, `target`, `answer` | of each request: `state`, `redirectCount`, `redirectAddress`, and what `responseData` is: ok, an error, or a redirection and to where |
| `queue` | the requests in the `SimpleClient` of each node |
| `pc`, `cur` | which list `Update` is reducing and where in it, whether the callback of a request is running |
| `broken` | the program is in undefined behaviour: a deleted client goes on (`freed`) or a null head is dereferenced (`null`) |
| `made`, `key`, `transactions` | what the program asked for |
| `owner`, `view`, `migrating`, `keyAt`, `asking`, `reported` | external: who owns a slot, whom each node believes to own it, to whom it is moving, where a key is, the ASKING flag of a connection, the last CLUSTER SLOTS report |
| `executed`, `delivered`, `moves`, `losses`, `errors` | history for the properties, and counts that the bounds apply to |

`Update` (`cc:41`) first reduces the nodes in the order of the list: `NodeSends` or `NodeNotConnected`, then one `Serve`
per answer that has come (`ServeRun` and `ServeAsking` are the callbacks of `cc:333` and `cc:409`, `ServeSlots` the one of
`cc:61`, `ProcessClusterConfig` included), then `NodeServed`. After that the switch on the state: `SwitchDirty`,
`SwitchPending`, `SwitchIncomplete`, or `SwitchStable` and then one `Reduce...` per request: `ReduceUnsent`,
`ReducePending`, and for a request that is ready `ReduceAsk`, `ReduceMoved` (both by `Redirect`, the common part of
`HandleError`), or `ReduceReady`, the callback, and `ReduceDelete`. `SwitchDirty` picks any node, as
`GetRandomClusterNode` does.

`Covered` states what `ClusterConfigHasFullSlotCoverage` computes: disjoint ranges combine to one that is everything
exactly if together they are everything. A transaction is one command, the EXEC: a node that cannot run it refuses
it with an error that is no redirection (the queued commands get the redirections, and the callback never sees
these). A node answers by what it believes: it runs what it owns and has, redirects with ASK for a key that has
moved already, with MOVED to the owner it believes in, and refuses if it knows none.

Two branches of the code are in the model and are never taken: `ReduceUnsent` without a node for the slot (requests
are reduced only under a full configuration, `ReducesConfigured`), and `ServeAsking` with a stale target (the callback
runs in the client of that very target, and is gone with it).

### How ConnectionPool and ClientTeardown correspond to the code

`pool[a]` is the list of idle streams of an address (`cp:44-90`), `sock` the state of a stream object (fresh, open,
`INVALID_SOCKET`, deleted) and `addr` the address it was connected to. `ClientTeardown` has one client at a time: `address`
(there is one), `stream`, `thread` (where the reader is: at its loop test, in `ParseTree` on the stream it was given,
past the loop, exited), `signal` (`threadExitSignal`), the three lists and `inFlight`. `Destroy` runs
`TryToRecycleConnection` (`Flushed` and `Recycle`, whose `Flush` and `PING` are loops around `Update` that `TimesOut` ends) and
the destructor in its order: `Disconnect`, `DeleteStream`, `Join`. What the reader does with a stream that is null or
deleted is undefined: `UseOfGone` lets the thread exit (the memory still says "disconnected") or the program crash, and
remembers it in `touched`. The server answers in order, closes or resets; idle pooled streams as well.

### How PubSub corresponds to the code

`subscribed[c]` is the entry of the map: absent, or its flag. Each of the two clients has `unsent` and `sent` commands and
a `link` that is down, up or broken; `PubSub::Update` (`ps:154`) queues the missing SUBSCRIBEs and then runs one `Update`
of each client, `ClientUpdate`, `ConnectFails`, `ClosedUpdate` or `LoseConnection`, in which the post-connect callback is `Resubscribe`
and the message list is dispatched by the map (`Callbacks`). A connection that the server closed (`link` is `closed`) stays as it is until
the client writes to it and has it reset: `ClosedUpdate` with nothing to send changes nothing. `Unsubscribe` takes the channel from the map and is then synchronous:
`pc = "sync"` until the answer has been served or `TimesOut` withdraws it. `Read` is the reception thread. External: what
is on the way (`wire`, `back`), the channels `server` holds the input connection to, and `Serve`. A published message is
the number of its publication.

### How ReductionList corresponds to the code

`list` holds what `LinkedList` holds: `head`, `tail`, `count`, and `next`, `prev` and `deleteFlag` of each node, addresses being
numbers. `passes` is the stack of `ReduceList` calls, with their locals: the node they stand on, `deleteFlag` and
`otherDeleteFlag`; a delete flag "points" to the pass whose local it is. Between a pass's call of `Reduce` and its return
(`ReduceReturns`, with the rest of the loop body and the next call) any node may be added or removed and another pass
begun. An address that is free may be given to the next node at once, also while passes still point to it: the write of
`re:25` (`GiveBack`) goes to whatever is there. `gone` and `reused` of a pass are history.

### How Cluster corresponds to the code

`pc`, `i` and `slot` say where `Setup` is; its steps are those its comments number. The files it writes and the process it
starts per node are one step that succeeds (`SpawnNode`) or makes it return false (`SetupFails`, also when CLUSTER NODES is not answered). `migration` is the one
object on `migrationList`, with its state and countdown; `request` its asynchronous request. `Update` runs the clients (the
request is sent, or its callback gives the migration its next state) and then `Reduce`, one action per state; the
synchronous requests inside a state are run, or fail without having run, or run with their answer lost. The
masters are external: `view` (whom each believes to own a slot), `claim` (who does by the latest epoch), their `migrating`
and `importing` marks, and `keyAt`. They answer commands as Redis does (`CanImport`, `CanMigrate`, `SetNode`; `Hop` for a key)
and hear of `claim` by `Gossip`. `Follow` is where a client gets by their answers within `MaxHops`. The tester keeps one migration at a time (`ClusterTestCase.cpp:104`), and so does `Begin`.

### How HashSlot and ProtocolData correspond to the code

`crc16tab`, `crc16` and `CalcKeyHashSlot` are the code's; `Xmodem` and `HashTag` say what the cluster specification says.
`Tokenize` is a round of the loop of `ParseCommand`. A value is a record with the fields of its class; what is on the
connection is a sequence of tokens, each what one loop of the parser reads (an unread rest is cut up further). A parser maps `[wire, errno]` to success or
not, the value, and what is left; `ChunkCounted`, `ItemParsed` and the like are its rest, once a part has been parsed. `errno` is state because `ParseCount` tests it (`pd:250`) and nothing resets it;
it is the reception thread's own, so the next thread begins with 0. When the parser rejects a value the thread exits, and the next Updates
replace it (`Respawn`, `sc:169`, `sc:158`): the connection is the same, and what is left of the value is read as further values or
rejected byte by byte, a thread for each (`torn`, `ParseDataType`). `Formatted` is the `vsprintf` of `ParseCommand`. A double is a number of
ten-millionths, so that `%f` loses something (`Rounded`). The server's side (`Send...`) gives for a value both what it means and how RESP3 writes it. The session types or builds
a command, sends it, and receives replies and pushed values until the parser rejects one.

## 3. The runs

| Run | Bounds | Properties | What it shows |
|---|---|---|---|
| `pipeline` | 3 requests (a transaction, for one), 1 cancel, 1 message, 1 reset | `TypeOK`, `SemaphoreBacked`, `PipelineInOrder`, `NothingVanishes`, `InFlightAccounts`, `CallbacksInOrder`, `CancelHonoured`, `TransactionNotSplit`, `ResponseMatches`, `ResponseAwaited`, `ReaderHasStream`, `ImplementsRequestQueue` | in every interleaving the lists are one ordered queue that loses nothing, the two counters agree with them, no EXEC reaches a connection its MULTI did not, callbacks get their own responses, the reader never touches a deleted stream, and the client implements `RequestQueue` |
| `shapes` | 3 requests (a transaction, for one), 1 reset, all reply kinds, 2 misread values | `MisreadsContained` | a response taken for a message can only shift later responses to *earlier* requests; after a rejection all may go wrong, on that connection alone |
| `liveness` | 2 requests, 1 reset, 1 close, fairness | `UpdateReturns`, `RequestsResolved` | no deadlock between Update, the reader and the socket; every request is resolved unless the server closed the connection for good |
| `teardown` | 2 servers, 3 streams, 2 clients, 1 request, 1 close or reset, fairness | `OneOwner`, `OwnResponses`, `DestroyReturns` | a stream is the client's or the pool's and nobody else reads it; the next client gets its own responses on it; the destructor does not wait for ever |
| `gone` | 1 client, no faults | `StreamOutlivesReader` fails | finding 2 |
| `pubsub` | 2 channels, 2 calls, 2 publications, 1 connection lost or closed, fairness | `MapAgreesWithServer`, `DeliveredInOrder`, `SubscribedAtLast` | the map's promise is kept by the commands under way; nothing is delivered twice or out of order; a channel that stays is subscribed in the end, unless its client sits on a closed connection |
| `redirects` | 2 nodes, 2 slots, 2 requests (1 a transaction), 2 moves, 1 loss, 1 refused query, gossip pending | `TypeOK` (of ClusterClient), `CallbackFindsRequest`, `CommandsAtListedNodes`, `OneQuery`, `ReducesConfigured`, `AnswersTrue` | whatever moves, is lost or goes stale, callbacks find their requests, nodes that are not listed have no commands, one query is under way, and no command runs twice |
| `answered` | 3 nodes (1 without slots), 3 slots, 2 requests, 1 orderly move to any node, gossip pending, fairness | `RequestsAnswered` | the client comes to know the cluster from one address, and its requests follow their slots, unless the command was forgotten with a deleted node (finding 1) |
| `forgotten` | 3 nodes, 2 requests, 1 orderly move, no faults | `PendingHasCallback` fails | finding 1 |
| `passes` | 4 nodes, 3 nested passes | `LinksAgree`, `PassKnowsItsNode` | no sequence of insertions, removals and passes breaks the list or leaves a pass on a node that is gone, also when addresses are used again |
| `migration` | 3 masters, 3 slaves, 7 slots, 2 keys, 2 migrations, 1 fault, fairness | `TypeOK` (of Cluster), `SetupComplete`, `KeysFound`, `MigrationEnds` | the slots are divided without a gap; redirections lead to the key at every moment of a migration; migrations end |
| `session` | 5 typed letters, keys of every byte and all patterns of up to 5 braces and letters, every two replies of all types | `WordsSplitAtSpaces`, `SlotAgreesWithServer`, `InStep`, `ParsesWhatWasSent`, `RejectsOnlyUnknown`, `PrintsWhatItParses` | words, slots, parsing and printing do what the server takes them to do, with the exceptions listed below |

**Why the bounds are enough.** Three requests let one be purged or served, one be at the head of a list and one
behind it, with `Update`, the reader and a cancel each at work on a different one: every adjacent pair of places in
the pipeline is occupied at once. One reset is a lost connection and a second connection after it, with requests
from before and after it alive together. A transaction is MULTI, one command and EXEC. A published message may come
between any two responses. In `shapes` the rest of a rejected value is read as two more values (`MaxMisreads`), so that a
second thread misreads what a first one left, and a reset brings a connection after that one. `pipeline` and `liveness` have plain
responses only, which is what their properties are about. The theorems in section 5 have no such bounds.

For ClusterClient, two requests for one key meet in every pair of request states; two moves take a slot away and
bring it back while its first redirection is still being followed, and leave a node with no slots and give it some
again. A client with `RetryUpdates` of 1 waits and then asks again, which is all the code does with 32. `redirects`
lets the program crash when a node deletes itself (section 4), so it does not check for deadlock.
An *orderly* move starts when all nodes agree, as `redis-cli` requires, and never takes a node's last slot; in `answered` it
may go to the node that has slots, or to the one that has none and that the client does not know.

A second client is what a recycled stream needs, a third stream what a lost one does; two servers keep the pool's lists
apart. Two calls on a channel are a subscription and its withdrawal, and one lost connection lets a subscription be
renewed; `pubsub` also passes with three calls, one publication and two losses, in more time. Four nodes
have a head, a tail and two between, and three passes let a middle one lend its flag and borrow one. Seven slots over
three masters leave a rest, as 16384 do; two migrations bring a slot back or take it on; two keys in one slot let one
be moved before the other. Tokens are independent of the length of what they hold, and a value of every type
comes before and after every other.

`teardown`, `gone` and `migration` do not check for deadlock: the program may crash or shut the cluster down for good.

**Fairness.** `FairSpec` of SimpleClient, used by `liveness`: weak fairness of `Update`: the program calls it in
its main loop, as the README of Yarc asks. Weak fairness of the steps of the main thread inside Update, Cancel,
Flush and synchronous calls, and of the reader: the operating system schedules both threads, no lock is held
across a step, callbacks return. Weak fairness of `ServerAnswer`: the server is alive while the connection is up.
Strong fairness of `UpdateConnect` and `UpdateSpawn`: of infinitely many attempts one succeeds; without it a client
that never gets a connection would refute everything. Nothing is assumed of resets, closes and messages, nor that
the program ever makes a call. `RequestsResolved` excuses the connection that the server closed and nobody writes
to any more (section 4).

`FairSpec` of ClusterClient, used by `answered`: weak fairness of `Update` and of its steps, for the same reasons;
strong fairness of `NodeSends` and `Serve` of each node: in an Update the connection may not be there yet and the
answer may not have come, but not so every time (what happens to a lost connection is left to the other runs); weak
fairness of the nodes' answers, and of the migration and the gossip, which come to an end: while a slot is half
moved, a request may be sent to and fro between its two owners, and the code waits for the end of it too
(`cc:376`). No fairness for losses, errors, or new moves.

`FairSpec` of ClientTeardown, used by `teardown`: weak fairness of the steps of Update, of Destroy and of the reader, and
strong fairness of `TimesOut`: `Flush` and the PING run out of their five seconds if they go on. None for the server: Destroy
must return whatever it does. `FairSpec` of PubSub: `Update` is called, its steps and the threads' are taken, synchronous calls
time out, the server serves, and of infinitely many attempts to connect one succeeds. `FairSpec` of Cluster: `Update` is
called, `Reduce` goes on, the nodes run what they get, and again one attempt to connect succeeds in the end; none for
faults or gossip.

Each property has a mutant, an operator named `X_Y` in front of the definition `X`: bug `Y` in the code of `X`. With
it in the place of `X` the property fails in the same run.

## 4. Findings

1. **A request waits for ever with nothing wrong** (`forgotten`). A slot moves to a node that had none; the client comes
   to know it by MOVED, and a second MOVED leads to a second query, answered by a node that has not heard yet. The new
   node is deleted as stale with the commands waiting in its client: their requests stay PENDING.
2. **The destructor deletes the stream under the reader** (`gone`). `~SimpleClient` disconnects and deletes the stream
   (`sc:32-33`) and then waits for the reader, which may be about to evaluate `socketStream->IsConnected()` (`sc:244`), or to
   write `sock` when its `recv` fails. After `TryToRecycleConnection` the pointer is null instead (`sc:84`).

The models show more than has a run of its own.

*SimpleClient.* The purge after a lost connection (`sc:152`) deletes the sent requests without `DeallocRequest`:
`numRequestsInFlight` keeps counting them (`InFlightAccounts` says by how many), and from then on every `Flush` runs into its
timeout and returns false, and `TryToRecycleConnection` never succeeds. If the reader holds a request between the
sent and the served list in both passes, `CancelAsyncRequest` misses it, and a `MakeRequestSync` that timed out is answered
into its dead locals (`sc:336` admits it, `yarc_client_iface.h:53` does not). A response that is an array whose first
element is "message" is taken for a published message (`sc:264`), and every later response is one off. On Windows `recv`
returning 0, a graceful close, is not an error (`yarc_socket_stream.cpp:246`), so the reader spins until the client writes
again, although `sc:169` says that the thread will exit: `RequestsResolved` excuses it. When the parser gives up on a value, nothing closes the
connection: what is left is read as values of their own, and responses may come to the wrong request, early or
late, or find none (`MisreadsContained` and `ResponseAwaited` except that connection).

*ClusterClient.* A node that has handed over its last slot and is asked for CLUSTER SLOTS is deleted in its own client's
Update (`cc:279`). Of two requests for one key, the first may get ASK and the second MOVED, and the second run first
(`cc:409`; `yarc_cluster_client.h:13` could not think of a scenario). A lost connection leaves a request PENDING, or the
configuration QUERY_PENDING, for ever, since the purge calls no callback: `RequestsAnswered` is checked without losses, and
excepts the requests of finding 1 (`Forgotten`).
A report without any slot, or an error in answer to the first query, makes `cc:151` dereference null: `broken` is `"null"`.

*Cluster.* `KeysFound` needs its two exceptions. A SETSLOT NODE that fails is not noticed (`cl:568`, `cl:571`): one of the two
nodes is never told, and clients may be sent in a circle (`unheard`). A migration that bails leaves its marks, and the next
one of that slot overwrites them (`remarked`): keys it had moved are not found. `MigrationEnds` has two: the request lost with its
connection leaves the migration WAITING for ever (`cl:578`), and `cl:536` dereferences a null stream when the destination is
not connected. Nodes unknown to node 0 in `Setup` keep an uninitialised id (`cl:163`), and when all known entries belong
to one node the draw of another does not end (`cl:436`; `cl:373` for a single entry). An error in answer to GETKEYSINSLOT
repeats the state for ever. `Shutdown` leaves migrations with pointers to deleted clients.

*ReductionObject.* `re:25` writes to the node that was deleted in a nested pass. If its address has been given to a new
node by then, that node gets the outer pass's flag, and a later nested pass over it overwrites TRUE with FALSE: the outer pass
never learns of the deletion and goes on with the new node, or deletes its own object a second time. `PassKnowsItsNode`
excepts exactly that (`reused`), and still says that such a pass stands on a node that is alive.

*PubSub.* An UNSUBSCRIBE that is withdrawn while the SUBSCRIBE before it stays queued leaves the server subscribed to a
channel that is not in the map (`ps:82`); its messages are dropped, and `MapAgreesWithServer` excepts it (`withdrawn`). The input
client writes only to subscribe: when the server closes its connection gracefully (`yarc_socket_stream.cpp:246`) it never notices,
never resubscribes and gets no message any more, which `SubscribedAtLast` excepts. RESP3 pushes are not dispatched at all (`ps:130`).

*ProtocolData.* A rejected value costs more than itself: what is left of it goes on to be parsed, and its elements become
responses of their own (`InStep` says that they end where the value ends). `ParsesWhatWasSent` excepts these and what has no representation: `#f` is parsed as true (`pd:1168`), `-inf` as DBL_MIN
(`pd:1054`), numbers out of range are clamped, and the chunks of a streamed string are all copied to its beginning (`pd:557`).
`RejectsOnlyUnknown` excepts big numbers, which RESP3 sends as `(` and the parser expects as `<` (`pd:186`), and an empty value after a number out of
range (`pd:250`). `PrintsWhatItParses` excepts doubles with more than six decimals (`pd:1075`). `WordsSplitAtSpaces` excepts an empty last word (`pd:115`), `SlotAgreesWithServer` keys with a NUL (`pd:45`).
`BooleanData::SetValue` ignores its argument (`pd:1185`).

## 5. What is proved

Every theorem is of the specification, for every value of the constants, under the assumptions the modules state about
them: bounds are natural numbers (`BoundsAssumption` of `SimpleClient` and `ClientTeardown`), the kinds of replies are
those the parser tells apart (`ReplyKindsAssumption`), null is no address and no stream (`PoolAssumption`,
`AddressesAssumption`), channels are finitely many (`ChannelsAssumption`), and a cluster is what `ClusterAssumption` and
`SizesAssumption` say. (`BufferAssumption` of `ProtocolData`, of which nothing is proved, keeps commands within the
buffer of `pd:87`.) Before an inductive invariant was proved, TLC checked
it on the instances of section 3 (that of `ClientTeardown` with two requests, on 2,574,289 states; that of `PubSub` with three calls, on 1,714,622).

### SimpleClient

`SimpleClientProofs`:

* `TypeCorrect`: `Spec => []TypeOK`. `TypeOK` is inductive because it says, besides types, that what an action is about
  to use is there: `printing` is a request when `pc = "print"`, `item` is one in `dispatch`, `cancel.id` is one while
  searching. One lemma per group of actions (`CallType`, `CancellingType`, `UpdateType`, `ReaderType`, `ExternalType`).
* `SemaphoreCorrect`: `Spec => []SemaphoreBacked`. The inductive invariant is `SemaphoreInv`: the reader's hand holds
  exactly one request between the two lists, else `ReaderServe` could add none or two.
* `StreamCorrect`: `Spec => []ReaderHasStream`. `StreamInv` adds that the main thread has a stream from the moment it
  found it connected until it has printed the last request.
* `ResponsesCorrect`: if `ReplyKinds = {"plain"}`, `Spec => [](ResponseMatches /\ ResponseAwaited)`. `MatchInv` is the
  argument a reviewer would make: what the reader holds and what waits on the wire is, in order, the head of the
  sent list (`WireMatches`); on a connection that is up the sent list has nothing more, except the request being
  printed (`AllPrinted`), so that an appended request meets the position of its response; without a stream both are
  empty (`NothingSent`), so a new connection starts in step. The hypothesis is needed (section 4, "message"), and
  `MisreadsCorrect` below says what holds without it.

`SimpleClientQueueProofs` looks at the lists, the reader's hand included, as one sequence, `Queue`. `QueueStep` is its
hinge: whatever a step of either thread is, on the queue it is one of seven things (`QueueAction`): nothing, a callback
returning, requests made, the head called, the sent list purged, one withdrawn, one silenced. The rest argues about
these only.

* `OrderCorrect`: `Spec => [](PipelineInOrder /\ CallbacksInOrder)`. `OrderInv`: the queue increases, what was called
  increases, and all that was called is below all that waits. Without the last part a call could come out of order.
* `FateCorrect`: `Spec => [](CancelHonoured /\ NothingVanishes)`. `CancelInv`: a cancelled request is out of the queue or its
  callback was replaced; `NothingInv` says where every request made so far is.
* `CountCorrect`: `Spec => []InFlightAccounts`. `CountInv` needs that purged requests are not in the queue, so that a purge
  moves as many as it counts.
* `RefinesRequestQueue`: if `ReplyKinds = {"plain"}`, `Spec => Promise!QSpec`, the abstract `RequestQueue` with `Queue` as its
  `queue`: the initial state maps to its initial state, and each kind of `QueueAction` to one of its steps or a stutter.

`SimpleClientWireProofs` holds whatever the reader takes a response for:

* `TransactionCorrect`: `Spec => []TransactionNotSplit`. Beside it `TransactionInv` says that outside of the loop that prints requests a
  transaction is unsent as a whole or not at all (`WholeUnsent`), that a request is written before the ones made after it
  (`WrittenFirst`), that while there is a connection what was begun in the loop is on it (`BegunHere`), and that the program cannot cancel a part of one (`CancelsOutside`).
* `MisreadsCorrect`: `Spec => [](MisreadsContained /\ ResponseAwaited)`, in two halves. As long as the parser has given up on
  nothing, what is on its way belongs, position by position, to the request at that place of the sent list or to a later
  one (`WireLate`): a response taken for a message only moves the rest up, so requests get the responses to later ones,
  never to earlier. And whatever it has given up on, what is on its way was asked for on this connection and what is in the sent
  list was written to this one or to none yet (`WireHere`): the purge comes before the next connection. `PairsInv` keeps both for the
  requests that have been given a response (`Contained`). A request may get a response before it is written: it is the one
  being printed then, and `WrittenFirst` says that it has been written to no other connection.

### ClusterClient

`ClusterClientProofs`, for any set of nodes and slots, any number of requests, moves, losses and errors. The invariants
support each other and are proved together (`Inv`); the theorems take them apart.

* `TypeCorrect`: `Spec => []TypeOK`, which also says that the element `Update` stands on is on its list.
* `CallbackCorrect`, `QueryCorrect`: `Spec => []CallbackFindsRequest`, `Spec => []OneQuery`, from `CommandInv` (a command is of a
  request on the list that is pending, or is the query of `STATE_PENDING`), `SingleInv` (no two commands of one request, on
  any node) and `RequestInv`. A request that is not pending has no command: that is why deleting it is safe.
* `NodesCorrect`, `ReduceCorrect`: `Spec => []CommandsAtListedNodes`, `Spec => []ReducesConfigured`, from `ConfigInv`: nodes off
  the list have no commands and no slots, and a stable configuration covers every slot. Reduction relies on it
  to find a node (`ReduceUnsent`), and so never queues a command anywhere else.
* `AnswerCorrect`: `Spec => []AnswersTrue`, from `TruthInv` (the command of a request says whether a node ran it, and so does
  the request's answer once it is ready) and `DeliveredInv` (who was called has left the list, or is being called).

### ClientTeardown with ConnectionPool

`ClientTeardownProofs`, for any number of clients in turn, requests and faults:

* `OwnerCorrect`: `Spec => []OneOwner`, from `PoolInv` (a pooled stream is nobody's, on the list of its own address, with
  nothing on its way) and `StreamInv` (who has a stream, and where; a reader reads the client's own).
* `ResponsesCorrect`: `Spec => []OwnResponses`. `WireInv`: what the server owes and what has come is, in order, the head of the sent
  list. `RecycleInv` is why a stream may be recycled: `Flush` has waited for `inFlight`, which is at least the number of
  requests, and then the PING is the only request there is; when its response has been served the reader has left,
  and the three lists are empty with the wire.

### ReductionList

`ReductionListProofs`, for any set of addresses and any depth of passes. `ListInv` has three parts.

* `Linked`: there is an order of the living nodes that `next`, `prev`, `head`, `tail` and `count` all describe. Each operation is
  shown to give a list with such an order (`Inserted`, `Unlinked`, `AllRemoved`).
* `Told`: a node points to the flag of the *innermost* pass that stands on it, a pass remembers the one next further
  out, and every pass whose flag is not set yet will hear from a pass inside it, or its node still points to its flag.
* `Gone`: the node of a pass that is not alive was deleted, a pass is only told so if it was, and what is alive at the
  address of a deleted node is another one that came later (`Knows`). Of two passes at one address whose node was deleted
  before the inner one came to it, the outer one came first (`GoneOf`): so a flag that is handed outwards is never TRUE
  for a node that is still there.

`LinksCorrect`: `Spec => []LinksAgree`. `PassCorrect`: `Spec => []PassKnowsItsNode`. Both without a condition on the allocator: an
address that is free may be given out again at any time.

### Cluster

`ClusterProofs`, for any number of masters, slaves, slots, keys, migrations and faults (`SizesAssumption`: there is a master, a slave
for each and a slot, a key has a slot, and the null of the code is no number of a node).

* `TypeCorrect`: `Spec => []TypeOK`. `Types` adds which shapes a migration and a request have and which of the two go together:
  a request of a migration is there only while it is `WAITING`, a synchronous one only inside `Reduce`.
* `SetupCorrect`: `Spec => []SetupComplete`. `Position` and `FreeInv` say how far the slots have been given out and that the rest
  are nobody's; `Divide`, `Grouped`, `Bases` and `LastSlots` are the arithmetic of `cl:233-262` for all sizes: the ranges are
  side by side and the last master takes the remainder.
* `KeysCorrect`: `Spec => []KeysFound`, the exceptions of section 4 included. `KeysInv` describes a slot whose SETSLOTs were all heard:
  the masters can be lined up so that each believes in one further on (`Ahead`; no circle); only the owner by the latest
  epoch, or the source that has not been told yet, takes itself for the owner (`Owned`); only the owner sends keys, to a node
  that lets them in (`Marked`), and a key is at the owner or where it sends to (`Kept`). `Told` is the moment between the
  two SETSLOT NODEs: the destination has been told, the source has not. When the destination is told it moves to the
  front of the line. `RequestSays` and `MigrationSays` carry this over the asynchronous marks: in `MARK_MIGRATING` the
  destination already imports, in `UNMARK` no key is left at the source. The order of the commands is what makes it true.
  That a key is then found is a potential argument: every answer that does not run the command leads to a master further
  on in the line, or with ASKING to the node that has the key (`Nearer`), so after `NumMasters + 1` hops the client has arrived
  (`Arrives`); `MaxHops` is at least that.

### PubSub

`PubSubProofs`, for any finite set of channels and any number of calls, publications and lost connections.

* `AgreeCorrect`: `Spec => []MapAgreesWithServer`. What the server will hold is said by the last command for a channel, first
  among those that are unsent, then on the wire, then by what it holds now (`WillBeIs`): so queueing, sending and executing a
  command can be argued about one at a time (`QueuedLast`, `SentSays`, `ServedSays`). The inductive invariant is `MapInv`.
  `AgreeInv` is the property on a broken connection too: what is lost with the wire and with the server's subscriptions
  is no longer relied on (`LinkInv`), and when the client connects again `Resubscribe` has every channel subscribed anew. `SyncInv`
  says that the only command `CancelAsyncRequest` can withdraw is the UNSUBSCRIBE of the call under way, of a channel that was erased.
* `DeliveredCorrect`: `Spec => []DeliveredInOrder`. `FlowInv`: the queue of the output client, its wire, what is sent back to the input
  client, the message list and what was delivered are one line of messages in the order of `Publish`, which may lose
  messages and never gets one back. `Dispatch` keeps a part of the list in its order (`DispatchKeeps`), by the least counterexample.

### How the proofs are laid out

A frame lemma for the steps that leave an invariant's variables alone, one case per action that does not, and a
temporal step that combines them. Induction over data has no rule of its own here. Where a proof needs it, for the
recursive functions `RemoveHeads` and `Walk` of `ReductionList`, `Follow` of `Cluster` and `Dispatch` of `PubSub`, or for the least of a set of numbers, it goes by the
least counterexample: a set of natural numbers that is not empty has a least member (`LeastNat`, from `WFMin` and
`NatLessThanWellFounded`), and a step below it there is none.

**Only model-checked**: all liveness (`UpdateReturns`, `RequestsResolved`, `RequestsAnswered`, `DestroyReturns`, `SubscribedAtLast`,
`MigrationEnds`), which is out of the prover's reach; and everything of `ProtocolData` and `HashSlot`, whose operators are
recursive (a value is a tree, and a key is hashed bit by bit).

## 6. What is not modelled

* Several threads making requests, although the comment at `sc:317` allows it: the increments at `sc:232` are not atomic.
* Who owns request and response data, and with it `MakeTransactionRequestSync` (which opens with EXEC, `sc:409`).
* `Update`, `Flush` or a synchronous call made *inside* a callback, in `SimpleClient`, `ClusterClient` and `PubSub`.
* In ClusterClient: synchronous calls (`CancelAsyncRequest` is not written, so one that times out is answered later) and
  `RegisterPushDataCallback` (which reaches the nodes known at that moment only).
* The clock: that a time is over is a choice. The wrap of `nextRequestID` after 2^31 requests, and `MAXINT32` as the limit of
  the semaphore.
* Commands of 1024 bytes or more, which overrun the buffer of `ParseCommand` (`pd:87`), and a percent sign without an argument
  to print: `ProtocolData` assumes that neither is typed (`BufferAssumption`, `Formatted`). What its tokens hold, as text.
* The bytes of `ByteStream` and the resolving of addresses; server processes and their files; the GUI and the console client;
  `DynamicArray`, `Misc` and the entry point of the library, which keep nothing a property could be about.

## 7. Plan

Every safety property that a passing run checks, in a module without recursive operators, is a theorem. What is left are
models: several calling threads, and the ownership of data.
