--------------------------- MODULE ClientTeardown ---------------------------
(***************************************************************************)
(* How a SimpleClient gets its stream from the connection pool and ends:   *)
(* Destroy, with TryToRecycleConnection and the destructor, against the    *)
(* reception thread, which goes on using socketStream.  Clients come one   *)
(* after the other, and a stream may pass from one to the next.            *)
(*                                                                         *)
(* The steps of Update are coarser here than in SimpleClient: what is      *)
(* looked at is the life of the stream and of the thread.                  *)
(***************************************************************************)
EXTENDS ConnectionPool

CONSTANTS MaxClients, MaxRequests, MaxFaults   \* bounds

ASSUME BoundsAssumption == {MaxClients, MaxRequests, MaxFaults} \subseteq Nat

VARIABLES
    pc,          \* where the main thread is
    op,          \* what it calls Update for: "idle" (the program itself), "flush", "ping"
    address,     \* of the client there is, or None
    stream,      \* socketStream, or None
    thread,      \* none, at the loop test, in ParseTree ("read"), past the loop, or exited
    reads,       \* the stream that ParseTree was given
    signal,      \* threadExitSignal
    unsent, sent, served,   \* requests; a served one is <<request, response>>
    inFlight,    \* numRequestsInFlight
    ping,        \* the request of TryToRecycleConnection, or 0
    \* the server's end of the streams: external
    peer,        \* open, closed gracefully, or reset
    asked,       \* requests it has not answered
    wire,        \* responses that are not read yet
    \* history and bounds
    touched,     \* the reception thread has used a stream that is null or deleted
    clients, requests, faults

clientVars == <<address, stream, thread, reads, signal, unsent, sent, served, inFlight, ping>>
serverVars == <<peer, asked, wire>>
bounds     == <<clients, requests, faults>>
vars == <<poolVars, pc, op, clientVars, serverVars, touched, bounds>>

NoClient ==
    /\ address' = None /\ stream' = None /\ thread' = "none" /\ reads' = None /\ signal' = FALSE
    /\ unsent' = <<>> /\ sent' = <<>> /\ served' = <<>> /\ inFlight' = 0 /\ ping' = 0

Init ==
    /\ PoolInit
    /\ pc = "idle" /\ op = "idle"
    /\ address = None /\ stream = None /\ thread = "none" /\ reads = None /\ signal = FALSE
    /\ unsent = <<>> /\ sent = <<>> /\ served = <<>> /\ inFlight = 0 /\ ping = 0
    /\ peer = [st \in Streams |-> "open"]
    /\ asked = [st \in Streams |-> <<>>] /\ wire = asked
    /\ touched = FALSE
    /\ clients = 0 /\ requests = 0 /\ faults = 0

\* What socketStream points to, if to anything, is deleted.
Gone      == IF stream = None THEN TRUE ELSE sock[stream] = "deleted"
Running   == thread \in {"test", "read", "leaving"}
Connected == stream # None /\ sock[stream] = "open"

----------------------------------------------------------------------------
(* The program: a client, its requests, its Updates, its end. *)

Create(a) ==
    /\ pc = "idle" /\ address = None /\ clients < MaxClients
    /\ address' = a /\ clients' = clients + 1
    /\ UNCHANGED <<poolVars, pc, op, stream, thread, reads, signal, unsent, sent, served,
                   inFlight, ping, serverVars, touched, requests, faults>>

MakeRequestAsync ==
    /\ pc = "idle" /\ address # None /\ requests < MaxRequests
    /\ requests' = requests + 1
    /\ unsent' = Append(unsent, requests') /\ inFlight' = inFlight + 1
    /\ UNCHANGED <<poolVars, pc, op, address, stream, thread, reads, signal, sent, served, ping,
                   serverVars, touched, clients, faults>>

\* Flush goes on while requests are in flight, MakeRequestSync until PING is answered.
Waiting ==
    \/ pc = "flush" /\ inFlight > 0
    \/ pc = "ping" /\ ping # 0

\* The program's Update, or one of Flush or of the synchronous PING.
Update ==
    /\ pc = "idle" \/ Waiting
    /\ address # None
    /\ pc' = "update" /\ op' = pc
    /\ UNCHANGED <<poolVars, clientVars, serverVars, touched, bounds>>

UpdateConnect ==
    /\ pc = "update" /\ stream = None
    /\ \/ /\ \E st \in Streams : CheckoutSocketStream(address, st) /\ stream' = st
          /\ UNCHANGED pc
       \/ CheckoutFails(address) /\ pc' = op /\ UNCHANGED stream
    /\ UNCHANGED <<op, address, thread, reads, signal, unsent, sent, served, inFlight, ping,
                   serverVars, touched, bounds>>

\* The connection is lost: a reader that still runs is waited for, the stream is
\* deleted, and what was sent is purged (numRequestsInFlight goes on counting it).
LoseStream ==
    /\ sock' = [sock EXCEPT ![stream] = "deleted"]
    /\ stream' = None /\ sent' = <<>>
    /\ pc' = op
    /\ UNCHANGED <<pool, addr, op, address, reads, signal, unsent, served, inFlight, ping,
                   serverVars, touched, bounds>>

UpdateLost ==
    /\ pc = "update" /\ stream # None /\ ~Connected
    /\ ~Running /\ UNCHANGED thread
    /\ LoseStream

\* WaitForThreadExit
UpdateWaits ==
    /\ pc = "update" /\ stream # None /\ ~Connected /\ Running
    /\ pc' = "wait"
    /\ UNCHANGED <<poolVars, op, clientVars, serverVars, touched, bounds>>

UpdateWaited ==
    /\ pc = "wait" /\ ~Running /\ thread' = "none"
    /\ LoseStream

UpdateSpawn ==
    /\ pc = "update" /\ Connected /\ thread = "none"
    /\ \/ thread' = "test" /\ UNCHANGED pc
       \/ pc' = op /\ UNCHANGED thread      \* SpawnThread fails
    /\ UNCHANGED <<poolVars, op, address, stream, reads, signal, unsent, sent, served,
                   inFlight, ping, serverVars, touched, bounds>>

UpdateThreadExited ==
    /\ pc = "update" /\ Connected /\ thread = "exited"
    /\ thread' = "none" /\ pc' = op
    /\ UNCHANGED <<poolVars, op, address, stream, reads, signal, unsent, sent, served, inFlight,
                   ping, serverVars, touched, bounds>>

\* The unsent requests are printed.  Writing to a connection that the server has
\* closed resets it.
UpdateSend ==
    /\ pc = "update" /\ Connected /\ Running
    /\ sent' = sent \o unsent /\ unsent' = <<>>
    /\ IF peer[stream] = "open"
       THEN asked' = [asked EXCEPT ![stream] = @ \o unsent] /\ UNCHANGED peer
       ELSE /\ peer' = IF unsent = <<>> THEN peer ELSE [peer EXCEPT ![stream] = "reset"]
            /\ UNCHANGED asked
    /\ pc' = "serve"
    /\ UNCHANGED <<poolVars, op, address, stream, thread, reads, signal, served, inFlight, ping,
                   wire, touched, bounds>>

UpdateServe ==
    /\ pc = "serve"
    /\ served' = <<>> /\ inFlight' = inFlight - Len(served)
    /\ ping' = IF \E x \in ToSet(served) : x[1] = ping THEN 0 ELSE ping
    /\ pc' = op
    /\ UNCHANGED <<poolVars, op, address, stream, thread, reads, signal, unsent, sent, serverVars,
                   touched, bounds>>

----------------------------------------------------------------------------
(* Destroy: TryToRecycleConnection, and the destructor. *)

Recyclable == Running /\ Connected

Destroy(tryToRecycleConnection) ==
    /\ pc = "idle" /\ address # None
    /\ pc' = IF tryToRecycleConnection /\ Recyclable THEN "flush" ELSE "destroy"
    /\ UNCHANGED <<poolVars, op, clientVars, serverVars, touched, bounds>>

\* Flush has returned true: the reader is told to exit, and PING wakes it up.
Flushed ==
    /\ pc = "flush" /\ inFlight = 0
    /\ IF Recyclable
       THEN /\ signal' = TRUE
            /\ ping' = MaxRequests + clients
            /\ unsent' = Append(unsent, ping') /\ inFlight' = inFlight + 1
            /\ pc' = "ping"
       ELSE pc' = "destroy" /\ UNCHANGED <<signal, ping, unsent, inFlight>>
    /\ UNCHANGED <<poolVars, op, address, stream, thread, reads, sent, served, serverVars,
                   touched, bounds>>

\* Five seconds are over.
TimesOut ==
    /\ Waiting
    /\ pc' = "destroy"
    /\ unsent' = SelectSeq(unsent, LAMBDA r : r # ping)
    /\ UNCHANGED <<poolVars, op, address, stream, thread, reads, signal, sent, served, inFlight,
                   ping, serverVars, touched, bounds>>

\* Bug: the client goes on owning what it has checked in.
Recycle_KeepsStream ==
    /\ pc = "ping" /\ ping = 0 /\ stream # None
    /\ CheckinSocketStream(stream)
    /\ pc' = "destroy"
    /\ UNCHANGED <<op, clientVars, serverVars, touched, bounds>>

\* Bug: the stream is checked in though PING was not answered in time.
Recycle_Unanswered ==
    /\ pc = "ping" /\ stream # None
    /\ CheckinSocketStream(stream)
    /\ stream' = None
    /\ pc' = "destroy"
    /\ UNCHANGED <<op, address, thread, reads, signal, unsent, sent, served, inFlight, ping,
                   serverVars, touched, bounds>>

\* PING was answered: the stream goes to the pool.
Recycle ==
    /\ pc = "ping" /\ ping = 0
    /\ CheckinSocketStream(stream)
    /\ stream' = None
    /\ pc' = "destroy"
    /\ UNCHANGED <<op, address, thread, reads, signal, unsent, sent, served, inFlight, ping,
                   serverVars, touched, bounds>>

\* Bug: the stream is left as it is until the thread has exited.
Disconnect_After ==
    /\ pc = "destroy"
    /\ pc' = "join"
    /\ UNCHANGED <<poolVars, op, clientVars, serverVars, touched, bounds>>

\* The destructor, with a stream: it is disconnected, and then deleted.
Disconnect ==
    /\ pc = "destroy"
    /\ IF stream # None
       THEN sock' = [sock EXCEPT ![stream] = "invalid"] /\ pc' = "delete"
       ELSE pc' = "join" /\ UNCHANGED sock
    /\ UNCHANGED <<pool, addr, op, clientVars, serverVars, touched, bounds>>

DeleteStream ==
    /\ pc = "delete"
    /\ sock' = [sock EXCEPT ![stream] = "deleted"]
    /\ pc' = "join"
    /\ UNCHANGED <<pool, addr, op, clientVars, serverVars, touched, bounds>>

\* WaitForThreadExit, and the rest of the destructor.
Join ==
    /\ pc = "join" /\ ~Running
    /\ NoClient
    /\ pc' = "idle" /\ op' = "idle"
    /\ UNCHANGED <<poolVars, serverVars, touched, bounds>>

----------------------------------------------------------------------------
(* ThreadFunc *)

\* What using a stream that is gone comes to: the memory still says that it is
\* disconnected and the thread exits, or the program crashes.
UseOfGone ==
    /\ touched' = TRUE
    /\ thread' = "exited"
    /\ pc' \in {pc, "crashed"}
    /\ UNCHANGED <<poolVars, op, address, stream, reads, signal, unsent, sent, served, inFlight,
                   ping, serverVars, bounds>>

ReaderTest ==
    /\ thread = "test" /\ ~Gone
    /\ IF sock[stream] = "open" /\ ~signal THEN thread' = "read" /\ reads' = stream
       ELSE thread' = "exited" /\ UNCHANGED reads
    /\ UNCHANGED <<poolVars, pc, op, address, stream, signal, unsent, sent, served, inFlight,
                   ping, serverVars, touched, bounds>>

\* socketStream is null, or what it points to is deleted.
ReaderTestsGone ==
    /\ thread = "test" /\ Gone
    /\ UseOfGone

\* A value is read, and given to the request at the head of the sent list, if any.
ReaderRead ==
    /\ thread = "read" /\ sock[reads] = "open" /\ wire[reads] # <<>>
    /\ wire' = [wire EXCEPT ![reads] = Tail(@)]
    /\ IF sent = <<>> THEN UNCHANGED <<sent, served>>
       ELSE /\ served' = Append(served, <<Head(sent), Head(wire[reads])>>)
            /\ sent' = Tail(sent)
    /\ thread' = "test"
    /\ UNCHANGED <<poolVars, pc, op, address, stream, reads, signal, unsent, inFlight, ping,
                   peer, asked, touched, bounds>>

\* recv fails on a connection that was reset, or a handle that was closed.
ReaderFails ==
    /\ thread = "read" /\ sock[reads] # "deleted"
    /\ sock[reads] = "invalid" \/ (peer[reads] = "reset" /\ wire[reads] = <<>>)
    /\ sock' = [sock EXCEPT ![reads] = "invalid"]
    /\ thread' = "leaving"
    /\ UNCHANGED <<pool, addr, pc, op, address, stream, reads, signal, unsent, sent, served,
                   inFlight, ping, serverVars, touched, bounds>>

\* The same, when the stream has been deleted meanwhile: its sock is written.
ReaderFailsGone ==
    /\ thread = "read" /\ sock[reads] = "deleted"
    /\ UseOfGone

ReaderExits ==
    /\ thread = "leaving" /\ thread' = "exited"
    /\ UNCHANGED <<poolVars, pc, op, address, stream, reads, signal, unsent, sent, served,
                   inFlight, ping, serverVars, touched, bounds>>

ThreadFunc == ReaderTest \/ ReaderTestsGone \/ ReaderRead \/ ReaderFails \/ ReaderFailsGone \/ ReaderExits

----------------------------------------------------------------------------
(* The server.  External. *)

ServerAnswer(st) ==
    /\ asked[st] # <<>> /\ peer[st] = "open"
    /\ asked' = [asked EXCEPT ![st] = Tail(@)]
    /\ wire' = [wire EXCEPT ![st] = Append(@, Head(asked[st]))]
    /\ UNCHANGED <<poolVars, pc, op, clientVars, peer, touched, bounds>>

\* A connection is closed or reset, idle ones as well.
ServerClose(st, how) ==
    /\ sock[st] = "open" /\ peer[st] = "open" /\ faults < MaxFaults
    /\ peer' = [peer EXCEPT ![st] = how]
    /\ faults' = faults + 1
    /\ UNCHANGED <<poolVars, pc, op, clientVars, asked, wire, touched, clients, requests>>

Updating   == UpdateConnect \/ UpdateLost \/ UpdateWaits \/ UpdateWaited \/ UpdateSpawn
           \/ UpdateThreadExited \/ UpdateSend \/ UpdateServe
Destroying == Flushed \/ Recycle \/ Disconnect \/ DeleteStream \/ Join

Next ==
    /\ pc # "crashed"
    /\ \/ \E a \in Addresses : Create(a)
       \/ MakeRequestAsync
       \/ Update
       \/ Updating
       \/ \E recycle \in BOOLEAN : Destroy(recycle)
       \/ Destroying
       \/ TimesOut
       \/ ThreadFunc
       \/ \E st \in Streams : ServerAnswer(st)
       \/ \E st \in Streams, how \in {"closed", "reset"} : ServerClose(st, how)

Spec == Init /\ [][Next]_vars

\* The threads run; Flush and the PING give up after five seconds.
FairSpec ==
    /\ Spec
    /\ WF_vars(Updating) /\ WF_vars(Destroying) /\ WF_vars(ThreadFunc)
    /\ SF_vars(TimesOut)

----------------------------------------------------------------------------
(* Properties *)

\* A stream has one owner, its client or the pool, and is in the pool once; a pooled
\* stream is not deleted, and nobody's reception thread reads it: each response on
\* it is for its next owner.  (TryToRecycleConnection, CheckinSocketStream.)
OneOwner ==
    \A a \in Addresses :
        /\ IsInjective(pool[a])
        /\ \A st \in ToSet(pool[a]) :
              /\ sock[st] # "deleted" /\ addr[st] = a /\ stream # st
              /\ ~(thread = "read" /\ reads = st)

\* What a client reads on a stream that was another's are responses to its own
\* requests, in order, and from its own server; there is none without a request.
OwnResponses ==
    /\ \A x \in ToSet(served) : x[1] = x[2]
    /\ thread = "read" /\ sock[reads] = "open" /\ wire[reads] # <<>> => sent # <<>>
    /\ stream # None => addr[stream] = address

\* Destroy returns, though it waits for the reception thread without a timeout: the
\* disconnect wakes the thread, wherever it is.  (Or the program has crashed.)
DestroyReturns ==
    pc \in {"flush", "destroy"} ~> (pc = "idle" /\ address = None) \/ pc = "crashed"

\* The reception thread does not use a stream that is null or deleted.
StreamOutlivesReader == ~touched
=============================================================================
