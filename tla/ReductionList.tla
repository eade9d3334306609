--------------------------- MODULE ReductionList ---------------------------
(***************************************************************************)
(* LinkedList (yarc_linked_list.h) at the level of its pointers, and       *)
(* ReductionObject::ReduceList (yarc_reducer.cpp), whose callbacks may     *)
(* change the list that is being walked and walk it again: the requests    *)
(* and the nodes of ClusterClient, and the migrations of Cluster.          *)
(*                                                                         *)
(* A node is the address it lives at, and an address that was freed can be *)
(* given to the next node, also while a pass that came to the node before  *)
(* it is under way.  (malloc: external.)                                   *)
(***************************************************************************)
EXTENDS Integers, Sequences, SequencesExt

CONSTANTS
    Addresses,    \* bound: of nodes
    MaxPasses     \* bound: passes inside each other

Null == 0
ASSUME AddressesAssumption == Addresses \subseteq Nat \ {Null}

VARIABLES
    list,    \* head, tail and count; next, prev and deleteFlag of each node; the nodes alive
    passes   \* the ReduceLists under way, innermost last: the node, its deleteFlag before,
             \* this pass's deleteFlag, and (history) whether the node was deleted and
             \* whether there has been another at its address since

vars == <<list, passes>>

\* A deleteFlag points to the flag of a pass, by the pass's depth.
Empty == [head |-> Null, tail |-> Null, count |-> 0, alive |-> {},
          next |-> [n \in Addresses |-> Null],
          prev |-> [n \in Addresses |-> Null],
          deleteFlag |-> [n \in Addresses |-> Null]]

Init == list = Empty /\ passes = <<>>

----------------------------------------------------------------------------
(* LinkedList *)

\* The function f, with v at n unless n is the null pointer.
Set(f, n, v) == IF n = Null THEN f ELSE [f EXCEPT ![n] = v]

\* The node n between two others, either of which may be null.
Couple(l, p, n, q) ==
    [l EXCEPT !.next = Set(Set(l.next, p, n), n, q),
              !.prev = Set(Set(l.prev, q, n), n, p),
              !.deleteFlag = [l.deleteFlag EXCEPT ![n] = Null],
              !.alive = l.alive \union {n},
              !.count = l.count + 1]

Alone(l, n) == [Couple(l, Null, n, Null) EXCEPT !.head = n, !.tail = n]

InsertAfter(l, after, n) ==
    IF after = Null THEN Alone(l, n)
    ELSE LET c == Couple(l, after, n, l.next[after])
         IN  IF c.next[n] = Null THEN [c EXCEPT !.tail = n] ELSE c

InsertBefore(l, before, n) ==
    IF before = Null THEN Alone(l, n)
    ELSE LET c == Couple(l, l.prev[before], n, before)
         IN  IF c.prev[n] = Null THEN [c EXCEPT !.head = n] ELSE c

\* Bug: the tail stays.
Unlink_KeepsTail(l, n) ==
    [l EXCEPT !.head = IF l.head = n THEN l.next[n] ELSE l.head,
              !.prev = Set(Set(l.prev, l.next[n], l.prev[n]), n, Null),
              !.next = Set(Set(l.next, l.prev[n], l.next[n]), n, Null),
              !.alive = l.alive \ {n},
              !.count = l.count - 1]

\* What Remove does to the list.  (What is in freed memory is nobody's business.)
Unlink(l, n) ==
    [l EXCEPT !.head = IF l.head = n THEN l.next[n] ELSE l.head,
              !.tail = IF l.tail = n THEN l.prev[n] ELSE l.tail,
              !.prev = Set(Set(l.prev, l.next[n], l.prev[n]), n, Null),
              !.next = Set(Set(l.next, l.prev[n], l.next[n]), n, Null),
              !.alive = l.alive \ {n},
              !.count = l.count - 1]

\* ... and, in the destructor of the node, to the flag that it points to.
Flagged(ps, l, n) ==
    [i \in DOMAIN ps |-> [ps[i] EXCEPT !.flag = @ \/ l.deleteFlag[n] = i,
                                       !.gone = @ \/ ps[i].node = n]]

\* RemoveAll, DeleteList: the head is removed, count times.
RemoveHeads(l) ==
    LET after[k \in 0 .. l.count] ==
            IF k = 0 THEN l ELSE Unlink(after[k - 1], after[k - 1].head)
    IN  after[l.count]

----------------------------------------------------------------------------
(* ReduceList *)

\* A pass comes to node n of the list l: it lends the node its flag, and calls Reduce.
Lent(l, n, depth) == IF n = Null THEN l ELSE [l EXCEPT !.deleteFlag[n] = depth]
At(l, n) == IF n = Null THEN <<>>
            ELSE <<[node |-> n, other |-> l.deleteFlag[n], flag |-> FALSE,
                    gone |-> FALSE, reused |-> FALSE]>>

ReduceList ==
    /\ Len(passes) < MaxPasses /\ list.head # Null
    /\ list' = Lent(list, list.head, Len(passes) + 1)
    /\ passes' = passes \o At(list, list.head)

\* Bug: the pass around this one is not told.
Restored_Untold(ps, pass) == ps

\* When Reduce has returned, the node gets its flag back; if that is another pass's
\* flag, it is given the value of this one's.
Restored(ps, pass) ==
    IF pass.other = Null THEN ps ELSE [ps EXCEPT ![pass.other].flag = pass.flag]

\* The write goes to the node's address, whatever is there: the same node, freed memory,
\* or another node, which thereby gets the flag of a pass that never came to it.
GiveBack(l, pass) == [l EXCEPT !.deleteFlag[pass.node] = pass.other]

ReduceReturns(result) ==
    /\ passes # <<>>
    /\ LET pass  == Last(passes)
           depth == Len(passes)
           outer == Restored(Front(passes), pass)
           l     == GiveBack(list, pass)
           next  == l.next[pass.node]
           gone  == IF result = "delete" THEN Unlink(l, pass.node) ELSE l
       IN  IF result = "bail" \/ pass.flag
           THEN list' = l /\ passes' = outer
           ELSE /\ list' = Lent(gone, next, depth)
                /\ passes' = (IF result = "delete" THEN Flagged(outer, l, pass.node) ELSE outer)
                             \o At(gone, next)

----------------------------------------------------------------------------
(* What the program does, between passes or in a Reduce. *)

\* What new Node may return, and those of the passes that know the address.
Free(n)   == n \notin list.alive
Reused(n) == [i \in DOMAIN passes |-> [passes[i] EXCEPT !.reused = @ \/ passes[i].node = n]]

AddTail(n) ==
    /\ Free(n)
    /\ list' = InsertAfter(list, list.tail, n)
    /\ passes' = Reused(n)

AddHead(n) ==
    /\ Free(n)
    /\ list' = InsertBefore(list, list.head, n)
    /\ passes' = Reused(n)

\* Also by Find, and by ProcessClusterSlots for a node that is not listed any more.
RemoveNode(n) ==
    /\ n \in list.alive
    /\ list' = Unlink(list, n)
    /\ passes' = Flagged(passes, list, n)

RemoveAll ==
    /\ passes = <<>>
    /\ list' = RemoveHeads(list)
    /\ UNCHANGED passes

Next ==
    \/ \E n \in Addresses : AddTail(n) \/ AddHead(n) \/ RemoveNode(n)
    \/ RemoveAll
    \/ ReduceList
    \/ \E result \in {"none", "delete", "bail"} : ReduceReturns(result)

Spec == Init /\ [][Next]_vars

----------------------------------------------------------------------------
(* Properties *)

\* The nodes from a starting point on, as many as there are at most.
Walk(start, step) ==
    LET walk[i \in 0 .. list.count] ==
            IF i = 0 THEN <<>>
            ELSE LET from == IF i = 1 THEN start
                             ELSE IF walk[i - 1] = <<>> THEN Null ELSE step[Last(walk[i - 1])]
                 IN  IF from = Null THEN walk[i - 1] ELSE Append(walk[i - 1], from)
    IN  walk[list.count]

\* From the head by next and from the tail by prev, the same nodes are met, each once,
\* all of them alive and count in number, and nothing follows them.  (Couple, Decouple.)
LinksAgree ==
    LET there == Walk(list.head, list.next)
    IN  /\ ToSet(there) = list.alive
        /\ Len(there) = list.count /\ IsInjective(there)
        /\ there = Reverse(Walk(list.tail, list.prev))
        /\ there # <<>> => list.next[Last(there)] = Null /\ list.prev[there[1]] = Null

\* The pass whose Reduce runs is told of no deletion that was not, and goes on only with a
\* node that is alive and has this pass's flag; if the node's address was not given away
\* again, it knows exactly whether the node was deleted, whoever did it, in whichever of
\* the passes inside it.  And no node points to the flag of a pass that is over.
\* (deleteFlag.)
PassKnowsItsNode ==
    /\ passes # <<>> => LET pass == Last(passes)
                       IN  /\ pass.flag => pass.gone
                           /\ ~pass.flag => /\ pass.node \in list.alive
                                           /\ list.deleteFlag[pass.node] = Len(passes)
                           /\ ~pass.reused => (pass.flag = pass.gone)
    /\ \A n \in list.alive : list.deleteFlag[n] <= Len(passes)
=============================================================================
