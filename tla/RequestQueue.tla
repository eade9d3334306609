---------------------------- MODULE RequestQueue ----------------------------
(***************************************************************************)
(* What a client promises to the program that makes requests (the comments *)
(* of ClientInterface): the requests wait in the order they were made; the *)
(* callback of the oldest one is called with the response to that very     *)
(* request; a request still waiting can be cancelled; and when a           *)
(* connection is lost, so is an unbroken run of the waiting requests.      *)
(* Nothing is answered twice, out of order or with another's response.     *)
(***************************************************************************)
EXTENDS Integers, Sequences

CONSTANT Batches    \* how many requests one call makes

VARIABLES
    next,       \* the ID of the next request
    queue,      \* the requests that wait, oldest first
    silent,     \* those whose callback will not be called
    log         \* the callbacks called: the request, and what the response answers

qvars == <<next, queue, silent, log>>

QInit == next = 0 /\ queue = <<>> /\ silent = {} /\ log = <<>>

\* n requests are made, one right after the other.
Make(n) ==
    /\ next' = next + n
    /\ queue' = queue \o [i \in 1 .. n |-> next + i - 1]
    /\ UNCHANGED <<silent, log>>

\* The oldest request is answered.
Respond ==
    /\ queue # <<>>
    /\ queue' = Tail(queue)
    /\ log' = IF Head(queue) \in silent THEN log
              ELSE Append(log, [id |-> Head(queue), reply |-> Head(queue)])
    /\ UNCHANGED <<next, silent>>

\* A waiting request is cancelled, and its response will be thrown away.
Silence ==
    /\ \E i \in DOMAIN queue : silent' = silent \union {queue[i]}
    /\ UNCHANGED <<next, queue, log>>

\* Requests i..j of the queue go: one cancelled in time, or those that were
\* under way on a connection that is lost.
Drop(i, j) ==
    /\ queue' = SubSeq(queue, 1, i - 1) \o SubSeq(queue, j + 1, Len(queue))
    /\ UNCHANGED <<next, silent, log>>

QNext ==
    \/ \E n \in Batches : Make(n)
    \/ Respond
    \/ Silence
    \/ \E i \in DOMAIN queue : \E j \in i .. Len(queue) : Drop(i, j)

QSpec == QInit /\ [][QNext]_qvars
=============================================================================
