--------------------------- MODULE ConnectionPool ---------------------------
(***************************************************************************)
(* ConnectionPool (yarc_connection_pool.cpp): idle socket streams by       *)
(* address, handed out first in, first out.  All its users are on the main *)
(* thread.                                                                 *)
(***************************************************************************)
EXTENDS Integers, Sequences, SequencesExt

CONSTANTS
    Addresses,   \* of servers
    Streams,     \* bound: the SocketStream objects there will ever be
    None

ASSUME PoolAssumption == None \notin Addresses \union Streams

VARIABLES
    pool,    \* the socketStreamMap: the idle streams of each address
    sock,    \* a stream is new (not made), open, invalid (INVALID_SOCKET) or deleted
    addr     \* the address it is connected to

poolVars == <<pool, sock, addr>>

PoolInit ==
    /\ pool = [a \in Addresses |-> <<>>]
    /\ sock = [st \in Streams |-> "new"]
    /\ addr = [st \in Streams |-> None]

\* An idle stream, whatever has become of its connection meanwhile, or a new one.
CheckoutSocketStream(a, st) ==
    \/ /\ pool[a] # <<>> /\ st = Head(pool[a])
       /\ pool' = [pool EXCEPT ![a] = Tail(@)]
       /\ UNCHANGED <<sock, addr>>
    \/ /\ pool[a] = <<>> /\ sock[st] = "new"
       /\ sock' = [sock EXCEPT ![st] = "open"]
       /\ addr' = [addr EXCEPT ![st] = a]
       /\ UNCHANGED pool

\* There is no idle one, and the server cannot be reached.
CheckoutFails(a) == pool[a] = <<>> /\ UNCHANGED poolVars

CheckinSocketStream(st) ==
    /\ pool' = [pool EXCEPT ![addr[st]] = Append(@, st)]
    /\ UNCHANGED <<sock, addr>>
=============================================================================
