--------------------------- MODULE ClusterClient ----------------------------
(***************************************************************************)
(* Yarc::ClusterClient: requests to a Redis cluster, over one SimpleClient *)
(* per node.                                                               *)
(*                                                                         *)
(* Update lets the client of each known node send and serve its requests,  *)
(* then works on the configuration of the cluster or, when that is known,  *)
(* on its own requests: a request is sent to the node that handles its     *)
(* slot, waits, and is answered or redirected.  The answers come in the    *)
(* callbacks of the nodes' clients.                                        *)
(*                                                                         *)
(* All of this is one thread, but the nodes of the cluster answer, move    *)
(* slots and lose connections at any point of it.  A node's client is the  *)
(* queue that RequestQueue says it is.                                     *)
(***************************************************************************)
EXTENDS Integers, Sequences, FiniteSets, SequencesExt, FiniteSetsExt

CONSTANTS
    Nodes, Slots, Keys,
    KeySlot,            \* the hash slot of a key
    FirstOwner,         \* the node that owns a slot in the beginning
    Seed,               \* the address the program gives
    RetryUpdates,       \* retryClusterConfigCountdown starts here (32 in the code)
    MaxRequests,        \* bound: requests ever made
    MaxTransactions,    \* bound: requests that are transactions
    MaxMoves,           \* bound: slots moved to another node
    MaxLosses,          \* bound: connections lost
    MaxErrors,          \* bound: errors in answer to CLUSTER SLOTS
    GossipPending,      \* does a node at first not know of the others' slots?
    Orderly,            \* are slots moved only when all nodes agree, and never a node's last?
    None                \* no node, no request, no answer

\* What a node replies to a command.
Answers == {"ok", "error", "ask", "moved"}

ASSUME ClusterAssumption ==
    /\ IsFiniteSet(Nodes)
    /\ KeySlot \in [Keys -> Slots] /\ FirstOwner \in [Slots -> Nodes]
    /\ Seed \in Nodes
    /\ None \notin Nodes \union Nat \union Answers
    /\ None \notin {"unsent", "pending", "ready", "deleted"}
    /\ {RetryUpdates, MaxRequests, MaxTransactions, MaxMoves, MaxLosses, MaxErrors} \subseteq Nat
    /\ GossipPending \in BOOLEAN /\ Orderly \in BOOLEAN

Ids == 0 .. MaxRequests - 1

\* A command in the client of a node: CLUSTER SLOTS, the ASKING of a request, or
\* its own command (the EXEC, for a transaction), and how far it has come:
\* "unsent", "sent", or the kind of reply the node gave to it.
Command == [kind : {"slots", "asking", "run"}, req : Ids \union {-1},
            reply : {"unsent", "sent"} \union Answers, to : Nodes \union {None}]

NoAnswer == [reply |-> None, to |-> None]

VARIABLES
    \* the object
    state, countdown, nodes, ranges, requestList,
    \* the requests, by ID
    rstate, redirects, target, answer,
    \* the clients of the nodes
    queue,
    \* the thread: where in Update, and at which node or request
    pc, cur, broken,
    \* what the program asked for
    made, key, transactions,
    \* the cluster: who owns a slot, whom each node believes to own it, to whom
    \* it is being moved, and where a key is
    owner, view, migrating, keyAt,
    \* the servers' ends of the connections: the ASKING flag and the last report
    asking, reported,
    \* history, and counters the bounds apply to
    executed, delivered, moves, losses, errors

config   == <<state, countdown, nodes, ranges>>
request  == <<rstate, redirects, target, answer>>
program  == <<made, key, transactions, requestList>>
thread   == <<pc, cur, broken>>
cluster  == <<owner, view, migrating, keyAt, moves>>
servers  == <<asking, reported, executed, losses, errors>>

vars == <<config, request, program, thread, cluster, servers, queue, delivered>>

Init ==
    /\ state = "dirty" /\ countdown = 0 /\ nodes = <<>>
    /\ ranges = [n \in Nodes |-> {}] /\ requestList = <<>>
    /\ rstate = [r \in Ids |-> None] /\ redirects = [r \in Ids |-> 0]
    /\ target = [r \in Ids |-> None] /\ answer = [r \in Ids |-> NoAnswer]
    /\ queue = [n \in Nodes |-> <<>>]
    /\ pc = "idle" /\ cur = None /\ broken = "no"
    /\ made = 0 /\ key = <<>> /\ transactions = {}
    /\ owner = FirstOwner
    /\ view = [n \in Nodes |-> [s \in Slots |->
                 IF GossipPending /\ FirstOwner[s] # n THEN None ELSE FirstOwner[s]]]
    /\ migrating = [s \in Slots |-> None]
    /\ keyAt = [k \in Keys |-> FirstOwner[KeySlot[k]]]
    /\ asking = [n \in Nodes |-> FALSE] /\ reported = FirstOwner
    /\ executed = <<>> /\ delivered = <<>> /\ moves = 0 /\ losses = 0 /\ errors = 0

SlotOf(r) == KeySlot[key[r + 1]]

\* A command gets a reply; until it does, a command that was sent is outstanding.
Replied(command, a) ==
    [kind |-> command.kind, req |-> command.req, reply |-> a.reply, to |-> a.to]
Outstanding == [reply |-> "sent", to |-> None]

\* A command is queued in the client of a node.
Ask(kind, r) == [kind |-> kind, req |-> r, reply |-> "unsent", to |-> None]
QueuedAt(n, command) == [queue EXCEPT ![n] = Append(@, command)]

Listed(n) == n \in ToSet(nodes)
Running == broken = "no"

-----------------------------------------------------------------------------
(* The program, between two Updates or in the callback of a request        *)

Make(k) ==
    /\ Running /\ pc \in {"idle", "callback"} /\ made < MaxRequests
    /\ made' = made + 1
    /\ key' = Append(key, k)
    /\ requestList' = Append(requestList, made)
    /\ rstate' = [rstate EXCEPT ![made] = "unsent"]
    /\ UNCHANGED <<config, redirects, target, answer, thread, cluster, servers, queue,
                   delivered>>

MakeRequestAsync == \E k \in Keys : Make(k) /\ UNCHANGED transactions

\* Two commands or more, all of one slot; one that mixes slots is refused.
MakeTransactionRequestAsync ==
    /\ Cardinality(transactions) < MaxTransactions
    /\ \E k \in Keys : Make(k)
    /\ transactions' = transactions \union {made}

-----------------------------------------------------------------------------
(* Update: the nodes                                                       *)

Update ==
    /\ Running /\ pc = "idle"
    /\ IF nodes = <<>> THEN pc' = "switch" /\ UNCHANGED cur
       ELSE pc' = "node" /\ cur' = Head(nodes)
    /\ UNCHANGED <<config, request, program, broken, cluster, servers, queue, delivered>>

\* On to the next node of the list, or to the configuration.
AfterNode ==
    LET i == CHOOSE i \in DOMAIN nodes : nodes[i] = cur
    IN  IF i < Len(nodes) THEN pc' = "node" /\ cur' = nodes[i + 1]
        ELSE pc' = "switch" /\ cur' = None

\* The client of the node sends what waits to be sent.
NodeSends(n) ==
    /\ Running /\ pc = "node" /\ cur = n
    /\ queue' = [queue EXCEPT ![n] = [i \in DOMAIN @ |->
                    IF @[i].reply = "unsent" THEN Replied(@[i], Outstanding) ELSE @[i]]]
    /\ pc' = "serve"
    /\ UNCHANGED <<config, request, program, cur, broken, cluster, servers, delivered>>

\* The client of the node has no connection yet.
NodeNotConnected ==
    /\ Running /\ pc = "node"
    /\ AfterNode
    /\ UNCHANGED <<config, request, program, broken, cluster, servers, queue, delivered>>

\* The command whose answer the client of the node serves next.
Served(n) ==
    /\ Running /\ pc = "serve" /\ cur = n
    /\ queue[n] # <<>> /\ Head(queue[n]).reply \in Answers

\* Nothing more has been received from the node.
NodeServed ==
    /\ Running /\ pc = "serve"
    /\ AfterNode
    /\ UNCHANGED <<config, request, program, broken, cluster, servers, queue, delivered>>

\* The answer to the command of a request: kept until Reduce looks at it.
ServeRun(n) ==
    /\ Served(n) /\ Head(queue[n]).kind = "run"
    /\ LET c == Head(queue[n]) IN
           /\ answer' = [answer EXCEPT ![c.req] = [reply |-> c.reply, to |-> c.to]]
           /\ rstate' = [rstate EXCEPT ![c.req] = "ready"]
    /\ queue' = [queue EXCEPT ![n] = Tail(@)]
    /\ UNCHANGED <<config, redirects, target, program, thread, cluster, servers, delivered>>

\* The answer to ASKING: the node to ask may have gone stale by now.
ServeAsking(n) ==
    /\ Served(n) /\ Head(queue[n]).kind = "asking"
    /\ LET r == Head(queue[n]).req
           rest == [queue EXCEPT ![n] = Tail(@)]
       IN  IF Listed(target[r])
           THEN /\ queue' = [rest EXCEPT ![target[r]] = Append(@, Ask("run", r))]
                /\ rstate' = [rstate EXCEPT ![r] = "pending"]
           ELSE /\ queue' = rest
                /\ rstate' = [rstate EXCEPT ![r] = "unsent"]
    /\ UNCHANGED <<config, redirects, target, answer, program, thread, cluster, servers,
                   delivered>>

Handled(report, n) == {s \in Slots : report[s] = n}

\* ProcessClusterConfig: the nodes of the report get their slots, new ones join
\* the list after the others, in the order of the report, and those without slots
\* are deleted, clients and all.
ProcessClusterConfig(report, rest) ==
    LET live == {n \in Nodes : Handled(report, n) # {}}
    IN  /\ ranges' = [n \in Nodes |-> Handled(report, n)]
        /\ nodes' \in SetToSeqs(live)
        /\ \A i, j \in DOMAIN nodes' : i < j /\ Listed(nodes'[j]) =>
               \E k, l \in DOMAIN nodes :
                   k < l /\ nodes[k] = nodes'[i] /\ nodes[l] = nodes'[j]
        /\ queue' = [n \in Nodes |-> IF n \in live THEN rest[n] ELSE <<>>]
        /\ asking' = [n \in Nodes |-> n \in live /\ asking[n]]

\* ClusterConfigHasFullSlotCoverage: the ranges combine to one that has every
\* slot.  With no range at all it dereferences the head of an empty list.
Covered(handled) ==
    /\ UNION {handled[n] : n \in Nodes} = Slots
    /\ \A m, n \in Nodes : m # n => handled[m] \intersect handled[n] = {}

\* The slots covered are not looked at.
Reconfigured_Unchecked(handled) == state' = "stable" /\ UNCHANGED countdown

Reconfigured(handled) ==
    IF Covered(handled)
    THEN state' = "stable" /\ UNCHANGED countdown
    ELSE state' = "incomplete" /\ countdown' = RetryUpdates

\* The answer to CLUSTER SLOTS.  When the node that answers is itself stale, the
\* client whose Update is running is deleted.
ServeSlots(n) ==
    /\ Served(n) /\ Head(queue[n]).kind = "slots"
    /\ LET rest == [queue EXCEPT ![n] = Tail(@)] IN
           \/ /\ Head(queue[n]).reply = "ok"
              /\ ProcessClusterConfig(reported, rest)
           \/ /\ Head(queue[n]).reply = "error"
              /\ queue' = rest
              /\ UNCHANGED <<nodes, ranges, asking>>
    /\ broken' = IF UNION {ranges'[m] : m \in Nodes} = {} THEN "null"
                 ELSE IF n \notin ToSet(nodes') THEN "freed" ELSE "no"
    /\ Reconfigured(ranges')
    /\ UNCHANGED <<request, program, pc, cur, cluster, reported, executed, losses, errors,
                   delivered>>

-----------------------------------------------------------------------------
(* Update: the configuration                                               *)

Switch == Running /\ pc = "switch"

\* The query under way is not noted.
SwitchDirty_StaysDirty ==
    /\ Switch /\ state = "dirty"
    /\ nodes' = IF nodes = <<>> THEN <<Seed>> ELSE nodes
    /\ \E n \in ToSet(nodes') : queue' = QueuedAt(n, Ask("slots", -1))
    /\ pc' = "idle"
    /\ UNCHANGED <<state, countdown, ranges, request, program, cur, broken, cluster, servers,
                   delivered>>

\* Some node of the list, or else of the address of the program, is asked.
SwitchDirty ==
    /\ Switch /\ state = "dirty"
    /\ nodes' = IF nodes = <<>> THEN <<Seed>> ELSE nodes
    /\ \E n \in ToSet(nodes') : queue' = QueuedAt(n, Ask("slots", -1))
    /\ state' = "pending" /\ pc' = "idle"
    /\ UNCHANGED <<countdown, ranges, request, program, cur, broken, cluster, servers,
                   delivered>>

SwitchPending ==
    /\ Switch /\ state = "pending"
    /\ pc' = "idle"
    /\ UNCHANGED <<config, request, program, cur, broken, cluster, servers, queue, delivered>>

\* The countdown never leads to another query.
SwitchIncomplete_StaysIncomplete ==
    /\ Switch /\ state = "incomplete"
    /\ countdown' = IF countdown > 0 THEN countdown - 1 ELSE 0
    /\ pc' = "idle"
    /\ UNCHANGED <<state, nodes, ranges, request, program, cur, broken, cluster, servers,
                   queue, delivered>>

SwitchIncomplete ==
    /\ Switch /\ state = "incomplete"
    /\ \/ countdown = 0 /\ state' = "dirty" /\ UNCHANGED countdown
       \/ countdown > 0 /\ countdown' = countdown - 1 /\ UNCHANGED state
    /\ pc' = "idle"
    /\ UNCHANGED <<nodes, ranges, request, program, cur, broken, cluster, servers, queue,
                   delivered>>

SwitchStable ==
    /\ Switch /\ state = "stable"
    /\ IF requestList = <<>> THEN pc' = "idle" /\ UNCHANGED cur
       ELSE pc' = "reduce" /\ cur' = Head(requestList)
    /\ UNCHANGED <<config, request, program, broken, cluster, servers, queue, delivered>>

-----------------------------------------------------------------------------
(* Update: the requests (Request::Reduce)                                  *)

Reduce(r) == Running /\ pc = "reduce" /\ cur = r

\* On to the next request of the list, or, at its end, out of Update.
AfterRequest ==
    LET i == CHOOSE i \in DOMAIN requestList : requestList[i] = cur
    IN  IF i < Len(requestList) THEN pc' = "reduce" /\ cur' = requestList[i + 1]
        ELSE pc' = "idle" /\ cur' = None

Bail == pc' = "idle" /\ cur' = None

\* The configuration of the cluster is not what we think it is.
SignalClusterConfigDirty == state' = IF state = "stable" THEN "dirty" ELSE state

\* The first node of the list that handles the slot.
Handlers(r) == {i \in DOMAIN nodes : SlotOf(r) \in ranges[nodes[i]]}

ReduceUnsent(r) ==
    /\ Reduce(r) /\ rstate[r] = "unsent"
    /\ IF Handlers(r) = {}
       THEN SignalClusterConfigDirty /\ Bail /\ UNCHANGED <<queue, rstate>>
       ELSE /\ queue' = QueuedAt(nodes[Min(Handlers(r))], Ask("run", r))
            /\ rstate' = [rstate EXCEPT ![r] = "pending"]
            /\ AfterRequest
            /\ UNCHANGED state
    /\ UNCHANGED <<countdown, nodes, ranges, redirects, target, answer, program, broken,
                   cluster, servers, delivered>>

ReducePending(r) ==
    /\ Reduce(r) /\ rstate[r] = "pending"
    /\ AfterRequest
    /\ UNCHANGED <<config, request, program, broken, cluster, servers, queue, delivered>>

\* The request that is asked again stays ready.
Redirect_StaysReady(r, kind) ==
    /\ redirects' = [redirects EXCEPT ![r] = (@ + 1) % 2]
    /\ target' = [target EXCEPT ![r] = answer[r].to]
    /\ IF Listed(answer[r].to) THEN queue' = QueuedAt(answer[r].to, Ask(kind, r))
       ELSE UNCHANGED queue
    /\ UNCHANGED <<rstate, answer>>

\* The node redirected to is not looked up in the list.
Redirect_Unchecked(r, kind) ==
    /\ redirects' = [redirects EXCEPT ![r] = (@ + 1) % 2]
    /\ target' = [target EXCEPT ![r] = answer[r].to]
    /\ answer' = [answer EXCEPT ![r] = NoAnswer]
    /\ queue' = QueuedAt(answer[r].to, Ask(kind, r))
    /\ rstate' = [rstate EXCEPT ![r] = "pending"]

\* HandleError: the request is asked of the node it is redirected to, except
\* that a second redirection, or one to a node that is not known, starts anew.
Redirect(r, kind) ==
    LET to == answer[r].to IN
    \/ /\ redirects[r] + 1 = 2
       /\ redirects' = [redirects EXCEPT ![r] = 0]
       /\ rstate' = [rstate EXCEPT ![r] = "unsent"]
       /\ UNCHANGED <<target, answer, queue>>
    \/ /\ redirects[r] + 1 # 2
       /\ redirects' = [redirects EXCEPT ![r] = @ + 1]
       /\ target' = [target EXCEPT ![r] = to]
       /\ answer' = [answer EXCEPT ![r] = NoAnswer]
       /\ IF Listed(to)
          THEN /\ queue' = QueuedAt(to, Ask(kind, r))
               /\ rstate' = [rstate EXCEPT ![r] = "pending"]
          ELSE rstate' = [rstate EXCEPT ![r] = "unsent"] /\ UNCHANGED queue

ReduceAsk(r) ==
    /\ Reduce(r) /\ rstate[r] = "ready" /\ answer[r].reply = "ask"
    /\ Redirect(r, "asking")
    /\ AfterRequest
    /\ UNCHANGED <<config, program, broken, cluster, servers, delivered>>

\* Nothing else is reduced until the cluster has been configured again.
ReduceMoved(r) ==
    /\ Reduce(r) /\ rstate[r] = "ready" /\ answer[r].reply = "moved"
    /\ SignalClusterConfigDirty
    /\ Redirect(r, "run")
    /\ Bail
    /\ UNCHANGED <<countdown, nodes, ranges, program, broken, cluster, servers, delivered>>

\* A redirection is given to the callback.
ReduceReady_AnyError(r) ==
    /\ Reduce(r) /\ rstate[r] = "ready"
    /\ delivered' = Append(delivered,
           [req |-> r, reply |-> answer[r].reply])
    /\ pc' = "callback"
    /\ UNCHANGED <<config, request, program, cur, broken, cluster, servers, queue>>

\* The request is deleted before its callback has returned.
ReduceReady_DeletesFirst(r) ==
    /\ Reduce(r) /\ rstate[r] = "ready" /\ answer[r].reply \in {"ok", "error"}
    /\ delivered' = Append(delivered, [req |-> r, reply |-> answer[r].reply])
    /\ requestList' = SelectSeq(requestList, LAMBDA q : q # r)
    /\ pc' = "callback"
    /\ UNCHANGED <<config, request, made, key, transactions, cur, broken, cluster, servers,
                   queue>>

\* The callback of the request is called with the response ...
ReduceReady(r) ==
    /\ Reduce(r) /\ rstate[r] = "ready" /\ answer[r].reply \in {"ok", "error"}
    /\ delivered' = Append(delivered, [req |-> r, reply |-> answer[r].reply])
    /\ pc' = "callback"
    /\ UNCHANGED <<config, request, program, cur, broken, cluster, servers, queue>>

\* ... and when it returns the request is deleted (RESULT_DELETE).
ReduceDelete ==
    /\ Running /\ pc = "callback"
    /\ AfterRequest
    /\ \E i \in DOMAIN requestList :
           requestList[i] = cur /\ requestList' = RemoveAt(requestList, i)
    /\ rstate' = [rstate EXCEPT ![cur] = "deleted"]
    /\ UNCHANGED <<config, redirects, target, answer, made, key, transactions, broken,
                   cluster, servers, queue, delivered>>

-----------------------------------------------------------------------------
(* The cluster (external)                                                  *)

SentTo(n) == {i \in DOMAIN queue[n] : queue[n][i].reply = "sent"}

\* What node n answers to the command of request r.
Reply(n, r) ==
    LET s == SlotOf(r)
        believed == view[n][s]
        here == \/ believed = n /\ (migrating[s] \in {None, n} \/ keyAt[key[r + 1]] = n)
                \/ believed # n /\ migrating[s] = n /\ asking[n]
    IN  IF here THEN [reply |-> "ok", to |-> None]
        ELSE IF r \in transactions \/ believed = None THEN [reply |-> "error", to |-> None]
        ELSE IF believed = n THEN [reply |-> "ask", to |-> migrating[s]]
        ELSE [reply |-> "moved", to |-> believed]

\* The oldest command on the connection gets the reply a.
Answered(n, a) ==
    LET i == Min(SentTo(n))
    IN  queue' = [queue EXCEPT ![n] = ReplaceAt(@, i, Replied(@[i], a))]

ServerRuns(n) ==
    /\ SentTo(n) # {}
    /\ LET c == queue[n][Min(SentTo(n))] IN
       \/ /\ c.kind = "run"
          /\ Answered(n, Reply(n, c.req))
          /\ executed' = IF Reply(n, c.req).reply = "ok" THEN Append(executed, c.req)
                         ELSE executed
          /\ asking' = [asking EXCEPT ![n] = FALSE]
          /\ UNCHANGED <<reported, errors>>
       \/ /\ c.kind = "asking"
          /\ Answered(n, [reply |-> "ok", to |-> None])
          /\ asking' = [asking EXCEPT ![n] = TRUE]
          /\ UNCHANGED <<reported, executed, errors>>
       \/ /\ c.kind = "slots"
          /\ Answered(n, [reply |-> "ok", to |-> None])
          /\ reported' = view[n]
          /\ asking' = [asking EXCEPT ![n] = FALSE]
          /\ UNCHANGED <<executed, errors>>
       \/ /\ c.kind = "slots" /\ errors < MaxErrors
          /\ Answered(n, [reply |-> "error", to |-> None])
          /\ asking' = [asking EXCEPT ![n] = FALSE]
          /\ errors' = errors + 1
          /\ UNCHANGED <<reported, executed>>
    /\ UNCHANGED <<config, request, program, thread, cluster, losses, delivered>>

\* A connection is lost: with it go the commands on it that have no answer, and
\* any answers not yet received.
Lose(n) ==
    LET on == {i \in DOMAIN queue[n] : queue[n][i].reply # "unsent"} IN
    /\ losses < MaxLosses
    /\ \E i \in on :
           /\ \A j \in SentTo(n) : i <= j
           /\ queue' = [queue EXCEPT ![n] = SubSeq(@, 1, i - 1) \o SubSeq(@, Max(on) + 1, Len(@))]
    /\ asking' = [asking EXCEPT ![n] = FALSE]
    /\ losses' = losses + 1
    /\ UNCHANGED <<config, request, program, thread, cluster, reported, executed, errors,
                   delivered>>

\* A slot is marked to move to another node, its keys move one by one, and the
\* new owner is told; the other nodes hear of it in time.
StartMove(s) ==
    /\ moves < MaxMoves /\ migrating[s] = None
    /\ Orderly => /\ \A n \in Nodes : view[n] = owner
                  /\ \E t \in Slots \ {s} : owner[t] = owner[s]
    /\ \E n \in Nodes \ {owner[s]} : migrating' = [migrating EXCEPT ![s] = n]
    /\ moves' = moves + 1
    /\ UNCHANGED <<config, request, program, thread, owner, view, keyAt, servers, queue,
                   delivered>>

MoveKey(k) ==
    /\ migrating[KeySlot[k]] \notin {None, keyAt[k]}
    /\ keyAt' = [keyAt EXCEPT ![k] = migrating[KeySlot[k]]]
    /\ UNCHANGED <<config, request, program, thread, owner, view, migrating, moves, servers,
                   queue, delivered>>

EndMove(s) ==
    /\ migrating[s] \notin {None, owner[s]}
    /\ \A k \in Keys : KeySlot[k] = s => keyAt[k] = migrating[s]
    /\ owner' = [owner EXCEPT ![s] = migrating[s]]
    /\ view' = [view EXCEPT ![migrating[s]][s] = migrating[s]]
    /\ UNCHANGED <<config, request, program, thread, migrating, keyAt, moves, servers, queue,
                   delivered>>

\* Node n hears who owns slot s; the former owner then takes its mark off.
Gossip(n, s) ==
    /\ view[n][s] # owner[s]
    /\ view' = [view EXCEPT ![n][s] = owner[s]]
    /\ migrating' = [migrating EXCEPT ![s] = IF view[n][s] = n THEN None ELSE @]
    /\ UNCHANGED <<config, request, program, thread, owner, keyAt, moves, servers, queue,
                   delivered>>

-----------------------------------------------------------------------------
Call == MakeRequestAsync \/ MakeTransactionRequestAsync

Serve(n) == ServeRun(n) \/ ServeAsking(n) \/ ServeSlots(n)

Updating ==
    \/ \E n \in Nodes : NodeSends(n) \/ Serve(n)
    \/ NodeNotConnected \/ NodeServed
    \/ SwitchDirty \/ SwitchPending \/ SwitchIncomplete \/ SwitchStable
    \/ \E r \in Ids : \/ ReduceUnsent(r) \/ ReducePending(r)
                       \/ ReduceAsk(r) \/ ReduceMoved(r) \/ ReduceReady(r)
    \/ ReduceDelete

External ==
    \/ \E n \in Nodes : ServerRuns(n) \/ Lose(n)
    \/ \E s \in Slots : StartMove(s) \/ EndMove(s)
    \/ \E k \in Keys : MoveKey(k)
    \/ \E n \in Nodes, s \in Slots : Gossip(n, s)

Next == Call \/ Update \/ Updating \/ External

Spec == Init /\ [][Next]_vars

(***************************************************************************)
(* The program calls Update for ever and its callbacks return; of          *)
(* infinitely many Updates one finds the connection to a node up, and one  *)
(* the answer that has come; the nodes answer; a migration that was        *)
(* started comes to its end, and the nodes hear of it.                     *)
(***************************************************************************)
Fairness ==
    /\ WF_vars(Update) /\ WF_vars(Updating)
    /\ \A n \in Nodes : SF_vars(NodeSends(n)) /\ SF_vars(Serve(n)) /\ WF_vars(ServerRuns(n))
    /\ \A k \in Keys : WF_vars(MoveKey(k))
    /\ \A s \in Slots : WF_vars(EndMove(s))
    /\ \A n \in Nodes, s \in Slots : WF_vars(Gossip(n, s))

FairSpec == Spec /\ Fairness

-----------------------------------------------------------------------------
(* Correctness                                                             *)

\* Every variable keeps to its type, no list has a node or a request twice, and
\* what an action is about to use is there: the node being updated, the request
\* being reduced.
TypeOK ==
    /\ state \in {"dirty", "pending", "stable", "incomplete"}
    /\ countdown \in 0 .. RetryUpdates
    /\ nodes \in Seq(Nodes) /\ IsInjective(nodes)
    /\ ranges \in [Nodes -> SUBSET Slots]
    /\ requestList \in Seq(Ids) /\ IsInjective(requestList)
    /\ rstate \in [Ids -> {"unsent", "pending", "ready", "deleted", None}]
    /\ redirects \in [Ids -> 0 .. 1] /\ target \in [Ids -> Nodes \union {None}]
    /\ answer \in [Ids -> [reply : Answers \union {None}, to : Nodes \union {None}]]
    /\ queue \in [Nodes -> Seq(Command)]
    /\ pc \in {"idle", "node", "serve", "switch", "reduce", "callback"}
    /\ broken \in {"no", "freed", "null"}
    /\ made \in 0 .. MaxRequests /\ key \in [1 .. made -> Keys]
    /\ transactions \subseteq Ids
    /\ owner \in [Slots -> Nodes] /\ view \in [Nodes -> [Slots -> Nodes \union {None}]]
    /\ migrating \in [Slots -> Nodes \union {None}] /\ keyAt \in [Keys -> Nodes]
    /\ asking \in [Nodes -> BOOLEAN] /\ reported \in [Slots -> Nodes \union {None}]
    /\ executed \in Seq(Ids) /\ delivered \in Seq([req : Ids, reply : Answers])
    /\ moves \in 0 .. MaxMoves /\ losses \in 0 .. MaxLosses /\ errors \in 0 .. MaxErrors
    /\ Running /\ pc \in {"node", "serve"} => Listed(cur)
    /\ pc \in {"reduce", "callback"} => cur \in ToSet(requestList)

\* The commands of request r in the clients of the nodes.
CommandsOf(r) ==
    UNION {{<<n, i>> : i \in {i \in DOMAIN queue[n] : queue[n][i].req = r}} : n \in Nodes}

\* A node's client calls back into a request through the pointer its lambda has
\* captured: the request is still there and waits, and for one callback only,
\* whatever was redirected, lost or reconfigured in between.
CallbackFindsRequest ==
    \A r \in Ids : CommandsOf(r) # {} =>
        /\ r \in ToSet(requestList) /\ rstate[r] = "pending"
        /\ Cardinality(CommandsOf(r)) = 1

\* A command waits only in the client of a node on the list, where the next
\* Updates send and serve it: never in one that has gone stale.
CommandsAtListedNodes == \A n \in Nodes : queue[n] # <<>> => Listed(n)

\* At most one CLUSTER SLOTS is under way, and only when the state says so: the
\* answers to two would overwrite each other's configuration.
OneQuery ==
    LET queries == CommandsOf(-1) IN
    queries # {} => state = "pending" /\ Cardinality(queries) = 1

\* Requests are reduced only under a configuration in which a listed node handles
\* every slot: not after a redirection has shown it to be out of date, nor while
\* the new one is incomplete.
ReducesConfigured ==
    Running /\ pc \in {"reduce", "callback"} =>
        /\ state = "stable"
        /\ \A s \in Slots : \E n \in ToSet(nodes) : s \in ranges[n]

\* Redirections never let a node run the command of a request twice.  Its callback
\* is called at most once, and told the truth: of success if a node ran the
\* command, of an error if none did, and never of a redirection.
AnswersTrue ==
    /\ IsInjective(executed)
    /\ \A i, j \in DOMAIN delivered : delivered[i].req = delivered[j].req => i = j
    /\ \A i \in DOMAIN delivered :
           \/ delivered[i].reply = "ok" /\ delivered[i].req \in ToSet(executed)
           \/ delivered[i].reply = "error" /\ delivered[i].req \notin ToSet(executed)

Delivered(r) == \E i \in DOMAIN delivered : delivered[i].req = r

\* No answer will come any more: the command of the request was lost with its connection,
\* or with the client of a node that was deleted.
Forgotten(r) == rstate[r] = "pending" /\ CommandsOf(r) = {}

\* Every request that is not forgotten is answered in the end, also when its slot moves to
\* a node that the client does not know: it comes to know the whole cluster from the one
\* address it was given, and its requests follow their slots.  (Flush has no other way to
\* return.)
RequestsAnswered == \A r \in Ids : made > r ~> Delivered(r) \/ Forgotten(r)

-----------------------------------------------------------------------------
(* What a comment of the code says, and the code does not do               *)

\* "Nothing to do here but wait" (STATE_PENDING): a request that waits has a
\* command at some node, and so a callback to come.
PendingHasCallback == \A r \in Ids : rstate[r] = "pending" => CommandsOf(r) # {}
=============================================================================
