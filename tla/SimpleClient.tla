---------------------------- MODULE SimpleClient ----------------------------
(***************************************************************************)
(* Yarc::SimpleClient: one pipelined connection to a Redis server, driven  *)
(* by two threads.                                                         *)
(*                                                                         *)
(*   - The main thread makes and cancels requests and calls Update, which  *)
(*     connects, starts the reception thread, moves requests from the      *)
(*     unsent to the sent list while writing them to the socket, and runs  *)
(*     the callbacks of the requests found on the served list.             *)
(*   - The reception thread (ThreadFunc, "the reader" below) parses what   *)
(*     the server sends, pairs each response with the head of the sent     *)
(*     list, moves the request to the served list and posts a semaphore.   *)
(*   - The socket, the network and the Redis server are external.          *)
(*                                                                         *)
(* Every access to state the two threads share is a step of its own.  A    *)
(* request is its requestID; the data it carries does not matter here.     *)
(* The Windows build is modelled: it is the one with a Semaphore.          *)
(***************************************************************************)
EXTENDS Integers, Sequences, FiniteSets, SequencesExt

CONSTANTS
    MaxRequests,    \* bound: requests ever made
    MaxCancels,     \* bound: calls of CancelAsyncRequest made by the program
    MaxPushes,      \* bound: messages the server publishes
    MaxResets,      \* bound: connections reset by the peer or the network
    MaxCloses,      \* bound: connections the server closes gracefully
    MaxMisreads,    \* bound: values read that are no value the server sent
    TxnCommands,    \* commands between the MULTI and the EXEC of a transaction
    ReplyKinds      \* how the reader classifies what answers a request

ASSUME BoundsAssumption ==
    /\ {MaxRequests, MaxCancels, MaxPushes, MaxResets, MaxCloses, MaxMisreads} \subseteq Nat
    /\ TxnCommands \in Nat

(***************************************************************************)
(* "plain":    a value ThreadFunc takes for a response;                    *)
(* "pushlike": an array whose first element is the blob "message", which   *)
(*             ThreadFunc takes for a published message;                   *)
(* "rejected": a value ParseTree gives up on, at a type byte it does not    *)
(*             know or a number it cannot parse; the rest stays unread.    *)
(***************************************************************************)
ASSUME ReplyKindsAssumption == ReplyKinds \subseteq {"plain", "pushlike", "rejected"}

Ids  == 0 .. MaxRequests - 1
None == -1

\* A request on its way back: its ID, and the ID of the request the server
\* was answering when it sent the response the reader gave to it.
Answered == [id : Ids, reply : Ids]

VARIABLES
    \* the client object
    nextRequestID, inFlight, unsent, sent, served, sem, messages,
    \* the main thread
    pc, op, syncID, cur, printing, cancel,
    \* the reader
    thread, item, hand,
    \* the socket, the network and the server
    sock, link, wire, answered, pushes,
    \* the callbacks replaced by CancelAsyncRequest
    noop,
    \* history, for the properties (calls also tells what has been serviced),
    \* the connections on which the parser gave up in the middle of a value,
    \* and counters the bounds apply to
    calls, cancelled, missed, purged, txns, carrier,
    conns, torn, misreads, pushed, resets, closes

callers == <<nextRequestID, op, syncID, unsent>>
lists   == <<sent, served, hand, cur>>
reader  == <<thread, item>>
network == <<link, wire, answered, pushes, conns, torn, misreads, pushed, resets, closes>>
history == <<calls, purged, txns, carrier>>
cancels == <<cancel, noop, cancelled, missed>>
object  == <<callers, lists, inFlight, sem, messages>>
aside   == <<history, cancels>>

vars == <<object, aside, reader, network, sock, pc, printing>>

\* A step of the main thread that only moves its program counter.
Goto(label) ==
    pc' = label /\ UNCHANGED <<object, aside, reader, network, sock, printing>>

(***************************************************************************)
(* Operators named X_Y are mutated forms of X: a bug Y one could make in   *)
(* the code of X.  No action uses them; they serve to see a property fail. *)
(***************************************************************************)

NoCancel == [id |-> None, pass |-> 0, from |-> "idle"]

Init ==
    /\ nextRequestID = 0 /\ inFlight = 0 /\ sem = 0 /\ messages = 0
    /\ unsent = <<>> /\ sent = <<>> /\ served = <<>> /\ hand = <<>> /\ cur = <<>>
    /\ pc = "idle" /\ op = "none" /\ syncID = None /\ printing = None
    /\ thread = "none" /\ item = None
    /\ sock = "null" /\ link = "none" /\ wire = <<>> /\ answered = 0 /\ pushes = 0
    /\ cancel = NoCancel /\ noop = {} /\ cancelled = {} /\ missed = {}
    /\ calls = <<>> /\ purged = {} /\ txns = {} /\ carrier = [i \in Ids |-> 0]
    /\ conns = 0 /\ torn = {} /\ misreads = 0 /\ pushed = 0 /\ resets = 0 /\ closes = 0

-----------------------------------------------------------------------------
(* The program's calls, made between two Updates or inside a callback.     *)

UserPCs == {"idle", "connected", "callback", "messages"}

UserCode == pc \in UserPCs /\ (pc = "idle" => op = "none")

NewRequests(n) == [i \in 1 .. n |-> nextRequestID + i - 1]

Enqueue_AtHead(n) ==
    /\ nextRequestID + n <= MaxRequests
    /\ nextRequestID' = nextRequestID + n
    /\ inFlight' = inFlight + n
    /\ unsent' = NewRequests(n) \o unsent
    /\ UNCHANGED <<lists, reader, network, cancels, calls, purged, carrier, sem,
                   messages, sock, printing>>

\* AllocRequest and AddTail to the unsent list, n times over.
Enqueue(n) ==
    /\ nextRequestID + n <= MaxRequests
    /\ nextRequestID' = nextRequestID + n
    /\ inFlight' = inFlight + n
    /\ unsent' = unsent \o NewRequests(n)
    /\ UNCHANGED <<lists, reader, network, cancels, calls, purged, carrier, sem,
                   messages, sock, printing>>

MakeRequestAsync ==
    /\ UserCode
    /\ Enqueue(1)
    /\ UNCHANGED <<pc, op, syncID, txns>>

\* MULTI, the commands and EXEC, one MakeRequestAsync each.
MakeTransactionRequestAsync ==
    /\ UserCode
    /\ Enqueue(TxnCommands + 2)
    /\ txns' = txns \union {nextRequestID}
    /\ UNCHANGED <<pc, op, syncID>>

\* MakeRequestSync makes an asynchronous request and calls Update until the
\* callback has run or the time is over.
MakeRequestSync ==
    /\ pc = "idle" /\ op = "none"
    /\ Enqueue(1)
    /\ op' = "sync" /\ syncID' = nextRequestID /\ pc' = "update"
    /\ UNCHANGED txns

Serviced(id) == \E i \in DOMAIN calls : calls[i].id = id

SyncReturn ==
    /\ pc = "idle" /\ op = "sync" /\ Serviced(syncID)
    /\ op' = "none" /\ syncID' = None
    /\ UNCHANGED <<aside, lists, reader, network, nextRequestID, unsent, inFlight,
                   sem, messages, sock, pc, printing>>

\* The time is over: the request is cancelled before MakeRequestSync returns.
SyncTimeout ==
    /\ pc = "idle" /\ op = "sync" /\ ~Serviced(syncID)
    /\ op' = "none" /\ syncID' = None
    /\ cancel' = [id |-> syncID, pass |-> 1, from |-> "idle"]
    /\ pc' = "cancel"
    /\ UNCHANGED <<lists, reader, network, history, nextRequestID, unsent, noop,
                   cancelled, missed, inFlight, sem, messages, sock, printing>>

\* Flush calls Update for as long as requests are in flight.
Flush ==
    /\ pc = "idle" /\ op = "none" /\ inFlight > 0
    /\ op' = "flush" /\ pc' = "update"
    /\ UNCHANGED <<aside, lists, reader, network, nextRequestID, syncID, unsent,
                   inFlight, sem, messages, sock, printing>>

\* Nothing is in flight any more (TRUE), or the time is over (FALSE).
FlushReturn ==
    /\ pc = "idle" /\ op = "flush"
    /\ op' = "none"
    /\ UNCHANGED <<aside, lists, reader, network, nextRequestID, syncID, unsent,
                   inFlight, sem, messages, sock, pc, printing>>

-----------------------------------------------------------------------------
(* CancelAsyncRequest looks in the three lists, and does so twice.         *)

InTransaction(id) == \E t \in txns : id \in t .. t + TxnCommands + 1

CancelAsyncRequest ==
    /\ UserCode
    /\ Cardinality(cancelled \union missed) < MaxCancels
    /\ \E id \in 0 .. nextRequestID - 1 :
           /\ id \notin cancelled \union missed \union {syncID}
           /\ ~InTransaction(id)
           /\ cancel' = [id |-> id, pass |-> 1, from |-> pc]
    /\ pc' = "cancel"
    /\ UNCHANGED <<object, reader, network, history, noop, cancelled, missed, sock,
                   printing>>

CancelReturns(found) ==
    /\ cancelled' = IF found THEN cancelled \union {cancel.id} ELSE cancelled
    /\ missed' = IF found THEN missed ELSE missed \union {cancel.id}
    /\ cancel' = NoCancel
    /\ pc' = cancel.from

CancelUnsent_KeepsCount ==
    /\ pc = "cancel"
    /\ \E i \in DOMAIN unsent : unsent[i] = cancel.id /\ unsent' = RemoveAt(unsent, i)
    /\ CancelReturns(TRUE)
    /\ UNCHANGED <<lists, reader, network, history, nextRequestID, op, syncID, noop,
                   inFlight, sem, messages, sock, printing>>

\* Found in the unsent list: unlinked and deallocated.
CancelUnsent ==
    /\ pc = "cancel"
    /\ \E i \in DOMAIN unsent : unsent[i] = cancel.id /\ unsent' = RemoveAt(unsent, i)
    /\ inFlight' = inFlight - 1
    /\ CancelReturns(TRUE)
    /\ UNCHANGED <<lists, reader, network, history, nextRequestID, op, syncID, noop,
                   sem, messages, sock, printing>>

CancelSent_KeepsCallback ==
    /\ pc = "cancel"
    /\ cancel.id \notin ToSet(unsent)
    /\ IF cancel.id \in ToSet(sent) THEN CancelReturns(TRUE)
       ELSE pc' = "cancelServed" /\ UNCHANGED <<cancel, cancelled, missed>>
    /\ UNCHANGED <<object, reader, network, history, noop, sock, printing>>

\* Found in the sent list: the callback is replaced by one that does nothing.
CancelSent ==
    /\ pc = "cancel"
    /\ cancel.id \notin ToSet(unsent)
    /\ IF cancel.id \in ToSet(sent)
       THEN /\ noop' = noop \union {cancel.id}
            /\ CancelReturns(TRUE)
       ELSE /\ pc' = "cancelServed"
            /\ UNCHANGED <<cancels>>
    /\ UNCHANGED <<object, reader, network, history, sock, printing>>

IsServed(id) == \E i \in DOMAIN served : served[i].id = id

\* Found in the served list: the callback is replaced as well.  Found nowhere:
\* sleep and look once more, and give up after the second pass.
CancelServed ==
    /\ pc = "cancelServed"
    /\ \/ /\ IsServed(cancel.id)
          /\ noop' = noop \union {cancel.id}
          /\ CancelReturns(TRUE)
       \/ /\ ~IsServed(cancel.id) /\ cancel.pass = 1
          /\ cancel' = [id |-> cancel.id, pass |-> 2, from |-> cancel.from]
          /\ pc' = "cancel"
          /\ UNCHANGED <<noop, cancelled, missed>>
       \/ /\ ~IsServed(cancel.id) /\ cancel.pass = 2
          /\ CancelReturns(FALSE)
          /\ UNCHANGED noop
    /\ UNCHANGED <<object, reader, network, history, sock, printing>>

-----------------------------------------------------------------------------
(* Update, one step per access to what the reader shares.                  *)

\* Update is called by the program, or again by Flush and MakeRequestSync.
Update ==
    /\ pc = "idle"
    /\ op = "flush" => inFlight > 0
    /\ op = "sync" => ~Serviced(syncID)
    /\ Goto("update")

\* CheckoutSocketStream connects; the post-connect callback is called.
UpdateConnect ==
    /\ pc = "update" /\ sock = "null"
    /\ sock' = "open" /\ link' = "up" /\ conns' = conns + 1
    /\ pc' = "connected"
    /\ UNCHANGED <<object, aside, reader, wire, answered, pushes, torn, misreads, pushed,
                   resets, closes, printing>>

\* The attempt fails, or the last one failed less than connectionRetrySeconds ago.
UpdateNotConnected ==
    /\ pc = "update" /\ sock = "null"
    /\ Goto("idle")

\* The socket stream is there: is it still connected?
UpdateLive ==
    /\ pc = "connected" \/ (pc = "update" /\ sock # "null")
    /\ sock = "open"
    /\ Goto("thread")

ReaderRuns == thread \notin {"none", "exited"}

Purge_KeepsSent ==
    /\ sock' = "null" /\ link' = "none"
    /\ wire' = <<>> /\ answered' = 0 /\ pushes' = 0
    /\ pc' = "idle"
    /\ UNCHANGED <<object, aside, item, conns, torn, misreads, pushed, resets, closes,
                   printing>>

Purge_Unsent ==
    /\ sock' = "null" /\ link' = "none"
    /\ wire' = <<>> /\ answered' = 0 /\ pushes' = 0
    /\ sent' = <<>> /\ unsent' = <<>>
    /\ purged' = purged \union ToSet(sent)
    /\ pc' = "idle"
    /\ UNCHANGED <<nextRequestID, op, syncID, cancels, served, hand, cur, item, conns,
                   torn, misreads, pushed, resets, closes, calls, txns, carrier, inFlight,
                   sem, messages, printing>>

\* Delete the stream and the sent requests, without calling their callbacks.
Purge ==
    /\ sock' = "null" /\ link' = "none"
    /\ wire' = <<>> /\ answered' = 0 /\ pushes' = 0
    /\ sent' = <<>>
    /\ purged' = purged \union ToSet(sent)
    /\ pc' = "idle"
    /\ UNCHANGED <<callers, cancels, served, hand, cur, item, conns, torn, misreads,
                   pushed, resets, closes, calls, txns, carrier, inFlight, sem, messages,
                   printing>>

UpdateLost_NoJoin ==
    /\ pc = "connected" \/ pc = "update"
    /\ sock = "invalid"
    /\ Purge /\ UNCHANGED thread

\* The connection is lost.  A reader that still runs is waited for first; one
\* that has exited already keeps its Thread object.
UpdateLost ==
    /\ pc = "connected" \/ pc = "update"
    /\ sock = "invalid"
    /\ IF ReaderRuns
       THEN /\ pc' = "join"
            /\ UNCHANGED <<object, aside, reader, network, sock, printing>>
       ELSE Purge /\ UNCHANGED thread

UpdateJoined ==
    /\ pc = "join" /\ thread = "exited"
    /\ thread' = "none"
    /\ Purge

UpdateSpawn ==
    /\ pc = "thread" /\ thread = "none"
    /\ thread' = "test"
    /\ UNCHANGED <<object, aside, network, item, sock, pc, printing>>

UpdateSpawnFails ==
    /\ pc = "thread" /\ thread = "none"
    /\ Goto("idle")

UpdateThread_KeepsExited ==
    /\ pc = "thread" /\ thread # "none"
    /\ Goto(IF thread = "exited" THEN "idle" ELSE "send")

\* A reader that has exited is only cleared away; a later Update replaces it.
UpdateThread ==
    /\ pc = "thread" /\ thread # "none"
    /\ IF thread = "exited"
       THEN thread' = "none" /\ pc' = "idle"
       ELSE pc' = "send" /\ UNCHANGED thread
    /\ UNCHANGED <<object, aside, network, item, sock, printing>>

\* The request enters the sent list before it is printed to the socket.
UpdateSend ==
    /\ pc = "send" /\ unsent # <<>>
    /\ printing' = Head(unsent)
    /\ sent' = Append(sent, Head(unsent))
    /\ unsent' = Tail(unsent)
    /\ pc' = "print"
    /\ UNCHANGED <<aside, reader, network, nextRequestID, op, syncID, served, hand,
                   cur, inFlight, sem, messages, sock>>

UpdatePrint_OnePerUpdate ==
    /\ pc = "print"
    /\ IF sock = "open" /\ link = "up"
       THEN /\ wire' = Append(wire, printing)
            /\ carrier' = [carrier EXCEPT ![printing] = conns]
       ELSE UNCHANGED <<wire, carrier>>
    /\ sock' = IF link = "reset" THEN "invalid" ELSE sock
    /\ printing' = None
    /\ pc' = "serve"
    /\ UNCHANGED <<object, reader, cancels, link, answered, pushes, conns, torn, misreads,
                   pushed, resets, closes, calls, purged, txns>>

\* PrintTree: nobody looks at whether it succeeded.  What is written after the
\* server closed is answered by a reset; writing after a reset fails.
UpdatePrint ==
    /\ pc = "print"
    /\ \/ /\ sock = "open" /\ link = "up"
          /\ wire' = Append(wire, printing)
          /\ carrier' = [carrier EXCEPT ![printing] = conns]
          /\ UNCHANGED <<sock, link>>
       \/ /\ sock = "open" /\ link = "fin"
          /\ link' = "reset"
          /\ UNCHANGED <<sock, wire, carrier>>
       \/ /\ sock = "open" /\ link = "reset"
          /\ sock' = "invalid"
          /\ UNCHANGED <<link, wire, carrier>>
       \/ /\ sock # "open"
          /\ UNCHANGED <<sock, link, wire, carrier>>
    /\ printing' = None
    /\ pc' = "send"
    /\ UNCHANGED <<object, reader, cancels, answered, pushes, conns, torn, misreads, pushed,
                   resets, closes, calls, purged, txns>>

UpdateSent ==
    /\ pc = "send" /\ unsent = <<>>
    /\ Goto("serve")

UpdateTake_Unchecked ==
    /\ pc = "serve" /\ inFlight > 0
    /\ sem' = sem - 1
    /\ pc' = "take"
    /\ UNCHANGED <<aside, callers, lists, reader, network, inFlight, messages, sock,
                   printing>>

\* The semaphore is decremented ...
UpdateTake ==
    /\ pc = "serve" /\ inFlight > 0 /\ sem > 0
    /\ sem' = sem - 1
    /\ pc' = "take"
    /\ UNCHANGED <<aside, callers, lists, reader, network, inFlight, messages, sock,
                   printing>>

UpdateServe_IgnoresCancel ==
    /\ pc = "take" /\ served # <<>>
    /\ cur' = <<Head(served)>>
    /\ served' = Tail(served)
    /\ calls' = Append(calls, Head(served))
    /\ pc' = "callback"
    /\ UNCHANGED <<callers, reader, network, cancels, sent, hand, purged, txns,
                   carrier, inFlight, sem, messages, sock, printing>>

\* ... then the head of the served list is removed and its callback called.
UpdateServe ==
    /\ pc = "take"
    /\ IF served = <<>>
       THEN pc' = "serve" /\ UNCHANGED <<served, cur, calls>>
       ELSE /\ cur' = <<Head(served)>>
            /\ served' = Tail(served)
            /\ calls' = IF Head(served).id \in noop THEN calls
                        ELSE Append(calls, Head(served))
            /\ pc' = "callback"
    /\ UNCHANGED <<callers, reader, network, cancels, sent, hand, purged, txns,
                   carrier, inFlight, sem, messages, sock, printing>>

\* The callback returns: DeallocRequest.
UpdateDealloc ==
    /\ pc = "callback"
    /\ cur' = <<>>
    /\ inFlight' = inFlight - 1
    /\ pc' = "serve"
    /\ UNCHANGED <<aside, callers, reader, network, sent, served, hand, sem, messages,
                   sock, printing>>

\* Nothing is in flight, or Decrement timed out.
UpdateServed ==
    /\ pc = "serve" /\ (inFlight = 0 \/ sem = 0)
    /\ Goto("messages")

\* A message is removed and the push-data callback called.
UpdateMessage ==
    /\ pc = "messages" /\ messages > 0
    /\ messages' = messages - 1
    /\ UNCHANGED <<aside, callers, lists, reader, network, inFlight, sem, sock, pc,
                   printing>>

UpdateDone ==
    /\ pc = "messages" /\ messages = 0
    /\ Goto("idle")

-----------------------------------------------------------------------------
(* ThreadFunc                                                              *)

ReaderTest ==
    /\ thread = "test"
    /\ thread' = IF sock = "open" THEN "read" ELSE "exited"
    /\ UNCHANGED <<object, aside, network, item, sock, pc, printing>>

\* ParseTree returns the response to the oldest unanswered request, or gives up
\* in the middle of it.  The stream stays the same one: only the reader ends.
ReaderReadReply ==
    /\ thread = "read" /\ sock = "open" /\ answered > 0
    /\ \/ /\ "plain" \in ReplyKinds
          /\ thread' = "dispatch" /\ item' = Head(wire) /\ UNCHANGED torn
       \/ /\ "pushlike" \in ReplyKinds
          /\ thread' = "push" /\ item' = None /\ UNCHANGED torn
       \/ /\ "rejected" \in ReplyKinds
          /\ thread' = "exited" /\ item' = None /\ torn' = torn \union {conns}
    /\ wire' = Tail(wire)
    /\ answered' = answered - 1
    /\ UNCHANGED <<object, aside, link, pushes, conns, misreads, pushed, resets, closes,
                   sock, pc, printing>>

\* After that the reader is out of step: it reads the rest of the value, and any
\* part of what follows, as one more value of any kind.  A response read so is
\* some part of what the server answered to a request of this connection.
ReaderMisreads ==
    /\ thread = "read" /\ sock = "open"
    /\ conns \in torn /\ misreads < MaxMisreads
    /\ misreads' = misreads + 1
    /\ \/ thread' = "dispatch" /\ item' \in {id \in Ids : carrier[id] = conns}
       \/ thread' \in {"push", "exited"} /\ item' = None
    /\ \E n \in 0 .. answered :
           /\ wire' = SubSeq(wire, n + 1, Len(wire))
           /\ answered' = answered - n
    /\ pushes' \in 0 .. pushes
    /\ UNCHANGED <<object, aside, link, conns, torn, pushed, resets, closes, sock, pc,
                   printing>>

ReaderReadPush_AsResponse ==
    /\ thread = "read" /\ sock = "open" /\ pushes > 0
    /\ pushes' = pushes - 1
    /\ thread' = "dispatch"
    /\ UNCHANGED <<object, aside, item, link, wire, answered, conns, torn, misreads, pushed,
                   resets, closes, sock, pc, printing>>

\* ParseTree returns a message the server published.
ReaderReadPush ==
    /\ thread = "read" /\ sock = "open" /\ pushes > 0
    /\ pushes' = pushes - 1
    /\ thread' = "push"
    /\ UNCHANGED <<object, aside, item, link, wire, answered, conns, torn, misreads, pushed,
                   resets, closes, sock, pc, printing>>

ReaderReadFails_Retries ==
    /\ thread = "read" /\ (sock = "invalid" \/ link = "reset")
    /\ sock' = "invalid"
    /\ UNCHANGED <<object, aside, network, reader, pc, printing>>

\* recv fails and marks the socket, or the main thread has marked it.  After a
\* graceful close recv returns 0 instead, and ReadBufferNow calls it again.
ReaderReadFails ==
    /\ thread = "read" /\ (sock = "invalid" \/ link = "reset")
    /\ sock' = "invalid"
    /\ thread' = "exited"
    /\ UNCHANGED <<object, aside, network, item, pc, printing>>

ReaderPush ==
    /\ thread = "push"
    /\ messages' = messages + 1
    /\ thread' = "test"
    /\ UNCHANGED <<aside, callers, lists, network, item, inFlight, sem, sock, pc,
                   printing>>

\* The response goes to the head of the sent list.
ReaderDispatch ==
    /\ thread = "dispatch"
    /\ IF sent = <<>>
       THEN thread' = "test" /\ UNCHANGED <<hand, sent>>
       ELSE /\ hand' = <<[id |-> Head(sent), reply |-> item]>>
            /\ sent' = Tail(sent)
            /\ thread' = "between"
    /\ item' = None
    /\ UNCHANGED <<aside, callers, network, served, cur, inFlight, sem, messages,
                   sock, pc, printing>>

ReaderServe_AtHead ==
    /\ thread = "between"
    /\ served' = hand \o served
    /\ hand' = <<>>
    /\ thread' = "signal"
    /\ UNCHANGED <<aside, callers, network, sent, cur, item, inFlight, sem, messages,
                   sock, pc, printing>>

ReaderServe_DropsCancelled ==
    /\ thread = "between"
    /\ served' = served \o SelectSeq(hand, LAMBDA request : request.id \notin noop)
    /\ hand' = <<>>
    /\ thread' = "signal"
    /\ UNCHANGED <<aside, callers, network, sent, cur, item, inFlight, sem, messages,
                   sock, pc, printing>>

ReaderServe ==
    /\ thread = "between"
    /\ served' = served \o hand
    /\ hand' = <<>>
    /\ thread' = "signal"
    /\ UNCHANGED <<aside, callers, network, sent, cur, item, inFlight, sem, messages,
                   sock, pc, printing>>

ReaderSignal ==
    /\ thread = "signal"
    /\ sem' = sem + 1
    /\ thread' = "test"
    /\ UNCHANGED <<aside, callers, lists, network, item, inFlight, messages, sock, pc,
                   printing>>

-----------------------------------------------------------------------------
(* The server and the network                                              *)

outside == <<wire, conns, torn, misreads, object, aside, reader, sock, pc, printing>>

\* Redis answers the commands of a connection in the order they came in.
ServerAnswer ==
    /\ link = "up" /\ answered < Len(wire)
    /\ answered' = answered + 1
    /\ UNCHANGED <<link, pushes, pushed, resets, closes, outside>>

ServerPush ==
    /\ link = "up" /\ pushed < MaxPushes
    /\ pushes' = pushes + 1 /\ pushed' = pushed + 1
    /\ UNCHANGED <<link, answered, resets, closes, outside>>

ServerClose ==
    /\ link = "up" /\ closes < MaxCloses
    /\ link' = "fin" /\ closes' = closes + 1
    /\ UNCHANGED <<answered, pushes, pushed, resets, outside>>

LinkReset ==
    /\ link \in {"up", "fin"} /\ resets < MaxResets
    /\ link' = "reset" /\ resets' = resets + 1
    /\ UNCHANGED <<answered, pushes, pushed, closes, outside>>

-----------------------------------------------------------------------------
Call ==
    \/ MakeRequestAsync \/ MakeTransactionRequestAsync
    \/ MakeRequestSync \/ SyncReturn \/ SyncTimeout
    \/ Flush \/ FlushReturn \/ CancelAsyncRequest

Cancelling == CancelUnsent \/ CancelSent \/ CancelServed

Updating ==
    \/ UpdateConnect \/ UpdateNotConnected \/ UpdateLive
    \/ UpdateLost \/ UpdateJoined
    \/ UpdateSpawn \/ UpdateSpawnFails \/ UpdateThread
    \/ UpdateSend \/ UpdatePrint \/ UpdateSent
    \/ UpdateTake \/ UpdateServe \/ UpdateDealloc \/ UpdateServed
    \/ UpdateMessage \/ UpdateDone

ThreadFunc ==
    \/ ReaderTest
    \/ ReaderReadReply \/ ReaderMisreads \/ ReaderReadPush \/ ReaderReadFails
    \/ ReaderPush \/ ReaderDispatch \/ ReaderServe \/ ReaderSignal

External == ServerAnswer \/ ServerPush \/ ServerClose \/ LinkReset

Next == Call \/ Cancelling \/ Update \/ Updating \/ ThreadFunc \/ External

Spec == Init /\ [][Next]_vars

(***************************************************************************)
(* The program calls Update once per iteration of its main loop, its       *)
(* callbacks return and a Flush or a synchronous call comes to its end;    *)
(* both threads are scheduled; the server answers; of infinitely many      *)
(* attempts to connect or to start the reader one succeeds.                *)
(***************************************************************************)
Fairness ==
    /\ WF_vars(Update) /\ WF_vars(Updating) /\ WF_vars(Cancelling)
    /\ WF_vars(SyncReturn) /\ WF_vars(FlushReturn)
    /\ SF_vars(UpdateConnect) /\ SF_vars(UpdateSpawn)
    /\ WF_vars(ThreadFunc)
    /\ WF_vars(ServerAnswer)

FairSpec == Spec /\ Fairness

-----------------------------------------------------------------------------
(* Correctness                                                             *)

PCs == UserPCs \union {"update", "thread", "join", "send", "print", "serve", "take",
                       "cancel", "cancelServed"}

\* Every variable keeps to its type, and what an action is about to use is
\* there: the request being printed, the response to dispatch, the request to
\* cancel, the synchronous request waited for.
TypeOK ==
    /\ nextRequestID \in 0 .. MaxRequests /\ inFlight \in Int
    /\ sem \in Nat /\ messages \in Nat
    /\ unsent \in Seq(Ids) /\ sent \in Seq(Ids)
    /\ served \in Seq(Answered) /\ hand \in Seq(Answered) /\ cur \in Seq(Answered)
    /\ pc \in PCs /\ op \in {"none", "flush", "sync"}
    /\ syncID \in Ids \union {None} /\ printing \in Ids \union {None}
    /\ cancel \in [id : Ids \union {None}, pass : 0 .. 2, from : UserPCs]
    /\ thread \in {"none", "test", "read", "push", "dispatch", "between", "signal", "exited"}
    /\ item \in Ids \union {None}
    /\ sock \in {"null", "open", "invalid"} /\ link \in {"none", "up", "fin", "reset"}
    /\ wire \in Seq(Ids) /\ answered \in 0 .. Len(wire) /\ pushes \in Nat
    /\ noop \subseteq Ids /\ cancelled \subseteq Ids /\ missed \subseteq Ids
    /\ calls \in Seq(Answered) /\ purged \subseteq Ids /\ txns \subseteq Ids
    /\ carrier \in [Ids -> Nat] /\ conns \in Nat
    /\ torn \subseteq Nat /\ misreads \in Nat
    /\ pushed \in Nat /\ resets \in Nat /\ closes \in Nat
    /\ pc = "print" => printing \in Ids
    /\ thread = "dispatch" => item \in Ids
    /\ pc \in {"cancel", "cancelServed"} => cancel.id \in Ids
    /\ op = "sync" => syncID \in Ids

One(b) == IF b THEN 1 ELSE 0

\* The semaphore counts the served requests nobody has claimed, so the request
\* taken after a successful Decrement is there (the assertion commented out in
\* Update), in every interleaving of the reader, Update and CancelAsyncRequest.
SemaphoreBacked ==
    Len(served) = sem + One(thread = "signal") + One(pc = "take")

\* A response that arrives finds the request it answers at work in the sent
\* list (the "*should* never happen" of ThreadFunc), unless the parser has given
\* up on a value of this connection before.
ResponseAwaited == thread = "dispatch" /\ conns \notin torn => sent # <<>>

\* The reader only ever evaluates socketStream->IsConnected() on a stream that
\* has not been deleted.
ReaderHasStream == ReaderRuns => sock # "null"

IdsOf(s) == [i \in DOMAIN s |-> s[i].id]

\* The requests on their way, oldest first.
Pipeline == IdsOf(cur) \o IdsOf(served) \o IdsOf(hand) \o sent \o unsent

\* The lists never hold a request twice, nor two requests out of the order they
\* were made in, wherever the two threads are.
PipelineInOrder ==
    \A i, j \in DOMAIN Pipeline : i < j => Pipeline[i] < Pipeline[j]

\* No request vanishes: one that was made is on its way, its callback was
\* called, it was cancelled, or it was purged with a lost connection.
NothingVanishes ==
    \A id \in 0 .. nextRequestID - 1 :
        id \in ToSet(Pipeline) \union purged \union cancelled \/ Serviced(id)

\* numRequestsInFlight counts the requests on their way, and those purged: the
\* purge does not give back what AllocRequest counted.
InFlightAccounts == inFlight = Len(Pipeline) + Cardinality(purged)

\* Each callback gets the response the server gave to its own request, across
\* lost connections, published messages and cancellations.
ResponseMatches == \A i \in DOMAIN calls : calls[i].reply = calls[i].id

\* A response taken for a published message puts the responses that follow out of
\* step in one direction only: they go to earlier requests than their own.  Once
\* the parser has given up on a value anything may be given to anyone, but on that
\* connection alone: a callback never gets what another connection sent.
MisreadsContained ==
    \A i \in DOMAIN calls :
        LET from == carrier[calls[i].reply]
        IN  /\ from \notin torn => calls[i].reply >= calls[i].id
            /\ carrier[calls[i].id] \in {0, from}

\* Callbacks are called in the order the requests were made, and once each.
CallbacksInOrder ==
    \A i, j \in DOMAIN calls : i < j => calls[i].id < calls[j].id

\* When CancelAsyncRequest has returned true the callback is never called.
CancelHonoured == \A id \in cancelled : ~Serviced(id)

\* When a command of a transaction reaches a server, every command before it
\* has reached the same one on the same connection, so an EXEC never runs
\* without its MULTI.
TransactionNotSplit ==
    \A t \in txns : \A i, j \in t .. t + TxnCommands + 1 :
        i < j /\ carrier[j] # 0 => carrier[i] = carrier[j]

\* Update waits for the reader, and the reader for the socket; neither waits for
\* ever: every Update returns.
UpdateReturns == pc # "idle" ~> pc = "idle"

\* Every request that was made leaves the pipeline, served, purged or cancelled,
\* unless the client sits on a connection the server closed for good.
RequestsResolved ==
    \/ \A id \in Ids : id \in ToSet(Pipeline) ~> id \notin ToSet(Pipeline)
    \/ <>[](link = "fin")

\* The client keeps the promise of RequestQueue: the lists are one queue.
Promise == INSTANCE RequestQueue WITH
    Batches <- {1, TxnCommands + 2},
    next     <- nextRequestID,
    queue   <- IdsOf(served) \o IdsOf(hand) \o sent \o unsent,
    silent  <- noop,
    log     <- calls
ImplementsRequestQueue == Promise!QSpec
=============================================================================
