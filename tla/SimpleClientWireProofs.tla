----------------------- MODULE SimpleClientWireProofs -----------------------
(***************************************************************************)
(* What a SimpleClient puts on a connection and what comes back from it:   *)
(* that a transaction is never split between two connections, and how far  *)
(* a response that ThreadFunc does not take for one can do harm.           *)
(***************************************************************************)
EXTENDS SimpleClientQueueProofs

\* The sent list is a part of the queue.
LEMMA SentInOrder ==
    ASSUME TypeOK, OrderInv
    PROVE  Increasing(sent) /\ Increasing(unsent) /\ Below(sent, unsent)
<1>1. sent \in Seq(Ids) /\ unsent \in Seq(Ids)
    BY DEF TypeOK
<1>2. PICK ab \in Seq(Ids) : ab = IdsOf(served) \o IdsOf(hand)
    BY QueueType
<1>3. PICK abc \in Seq(Ids) : abc = ab \o sent
    BY <1>1, ConcatProperties
<1>4. Queue = abc \o unsent
    BY <1>2, <1>3 DEF Queue
<1>5. Increasing(abc) /\ Increasing(unsent) /\ Below(abc, unsent)
    BY <1>1, <1>4, IncreasingConcat DEF OrderInv
<1>6. Increasing(sent)
    BY <1>1, <1>3, <1>5, IncreasingConcat
<1>7. ToSet(abc) = ToSet(ab) \union ToSet(sent)
    BY <1>1, <1>3, ToSetConcat
<1>. QED
    BY <1>5, <1>6, <1>7 DEF Below

-----------------------------------------------------------------------------
(* Transactions                                                            *)

Members(t) == t .. t + TxnCommands + 1

\* The requests yet to be written to the socket.
Left == ToSet(unsent) \union (IF pc = "print" THEN {printing} ELSE {})

MembersMade == \A t \in txns : t + TxnCommands + 1 < nextRequestID

\* What was written comes before what is yet to be.
WrittenFirst ==
    /\ \A i \in Ids : carrier[i] # 0 =>
           i < nextRequestID /\ \A u \in Left : i < u
    /\ pc = "print" =>
           printing < nextRequestID /\ \A u \in ToSet(unsent) : printing < u

\* While requests are being written to a connection that is up, those of a
\* transaction that has been begun were written to this connection.
BegunHere ==
    pc \in {"send", "print"} /\ sock = "open" /\ link = "up" =>
        \A t \in txns : \A i, j \in Members(t) :
            i < j /\ j \in Left /\ i \notin Left => carrier[i] = conns

\* When none is being written a transaction is unsent as a whole, or not at all.
WholeUnsent ==
    pc \notin {"send", "print"} =>
        \A t \in txns : \/ Members(t) \subseteq ToSet(unsent)
                        \/ \A i \in Members(t) : i \notin ToSet(unsent)

\* A command of a transaction is never cancelled.
CancelsOutside ==
    /\ pc \in {"cancel", "cancelServed"} =>
           cancel.id < nextRequestID /\ \A t \in txns : cancel.id \notin Members(t)
    /\ op = "sync" =>
           syncID < nextRequestID /\ \A t \in txns : syncID \notin Members(t)

TransactionInv ==
    /\ MembersMade /\ WrittenFirst /\ BegunHere /\ WholeUnsent /\ CancelsOutside
    /\ TransactionNotSplit

\* Steps that write nothing and leave the unsent list and the transactions alone.
LEMMA TransactionFrame ==
    ASSUME TransactionInv,
           UNCHANGED <<txns, carrier, unsent, printing, conns, nextRequestID, cancel>>,
           \/ pc' = pc
           \/ /\ pc \notin {"send", "print", "cancel", "cancelServed"}
              /\ pc' \notin {"send", "print", "cancel", "cancelServed"},
           op' = "sync" => op = "sync" /\ syncID' = syncID,
           pc \in {"send", "print"} /\ sock' = "open" /\ link' = "up"
               => sock = "open" /\ link = "up"
    PROVE  TransactionInv'
<1>1. Left' = Left
    BY DEF Left
<1>. QED
    BY <1>1 DEF TransactionInv, MembersMade, WrittenFirst, BegunHere, WholeUnsent,
                CancelsOutside, TransactionNotSplit, Members

\* The commands of a transaction are requests that were made.
LEMMA MembersAreMade ==
    ASSUME TypeOK, MembersMade, NEW t \in txns, NEW i \in Members(t)
    PROVE  i \in Ids /\ i < nextRequestID
<1>1. t \in Nat /\ nextRequestID \in 0 .. MaxRequests /\ TxnCommands \in Nat /\ MaxRequests \in Nat
    BY BoundsAssumption DEF TypeOK, Ids
<1>2. t + TxnCommands + 1 < nextRequestID
    BY DEF MembersMade
<1>3. i \in t .. t + TxnCommands + 1
    BY DEF Members
<1>4. i \in Nat /\ i < nextRequestID
    BY <1>1, <1>2, <1>3
<1>. QED
    BY <1>1, <1>4 DEF Ids

LEMMA EnqueueTransaction ==
    ASSUME TypeOK, TransactionInv, NEW n \in Nat, Enqueue(n),
           pc \in UserPCs, pc' \in UserPCs \union {"update"},
           \/ txns' = txns
           \/ n = TxnCommands + 2 /\ txns' = txns \union {nextRequestID},
           \/ UNCHANGED <<op, syncID>>
           \/ syncID' = nextRequestID /\ n = 1 /\ txns' = txns
    PROVE  TransactionInv'
<1>. USE DEF callers, lists, reader, network, history, cancels, object, aside
<1>1. /\ nextRequestID \in Nat /\ nextRequestID + n <= MaxRequests /\ MaxRequests \in Nat
      /\ TxnCommands \in Nat /\ nextRequestID' = nextRequestID + n
      /\ UNCHANGED <<carrier, printing, conns, cancel, sock, link>>
    BY BoundsAssumption DEF TypeOK, Enqueue
<1>2. ToSet(unsent') = ToSet(unsent) \union (nextRequestID .. nextRequestID + n - 1)
  <2>1. PICK new \in Seq(Ids) :
            /\ new = NewRequests(n)
            /\ ToSet(new) = nextRequestID .. nextRequestID + n - 1
      BY <1>1, NewInOrder
  <2>2. unsent' = unsent \o new
      BY <2>1 DEF Enqueue
  <2>3. ToSet(unsent \o new) = ToSet(unsent) \union ToSet(new)
      BY ToSetConcat DEF TypeOK
  <2>. QED
      BY <2>1, <2>2, <2>3
<1>3. Left = ToSet(unsent) /\ Left' = ToSet(unsent')
    BY DEF Left, UserPCs
<1>4. \A t \in txns, i \in Int : i \in Members(t) => i < nextRequestID /\ i \in Ids
    BY MembersAreMade DEF TransactionInv
<1>5. \A t \in Int : Members(t) \subseteq Int
    BY DEF Members
<1>6. txns \subseteq Int
    BY DEF TypeOK, Ids
<1>7. MembersMade'
  <2>1. ASSUME NEW t \in txns PROVE t + TxnCommands + 1 < nextRequestID'
    <3>1. t \in Int /\ t + TxnCommands + 1 < nextRequestID
        BY <1>6 DEF TransactionInv, MembersMade
    <3>. QED
        BY <1>1, <3>1
  <2>2. n = TxnCommands + 2 => nextRequestID + TxnCommands + 1 < nextRequestID'
      BY <1>1
  <2>. QED
      BY <2>1, <2>2 DEF MembersMade
<1>8. WrittenFirst'
  <2>1. pc' # "print"
      BY DEF UserPCs
  <2>2. ASSUME NEW i \in Ids, carrier'[i] # 0
        PROVE  i < nextRequestID' /\ \A u \in Left' : i < u
    <3>1. i \in Int /\ i < nextRequestID /\ \A u \in Left : i < u
        BY <1>1, <2>2 DEF TransactionInv, WrittenFirst, Ids
    <3>. QED
        BY <1>1, <1>2, <1>3, <3>1
  <2>. QED
      BY <2>1, <2>2 DEF WrittenFirst
<1>9. BegunHere'
    BY DEF BegunHere, UserPCs
<1>10. WholeUnsent'
  <2>1. ASSUME NEW t \in txns
        PROVE  \/ Members(t) \subseteq ToSet(unsent')
               \/ \A i \in Members(t) : i \notin ToSet(unsent')
    <3>1. CASE Members(t) \subseteq ToSet(unsent)
        BY <1>2, <3>1
    <3>2. CASE \A i \in Members(t) : i \notin ToSet(unsent)
        BY <1>1, <1>2, <1>4, <1>5, <1>6, <3>2
    <3>3. pc \notin {"send", "print"}
        BY DEF UserPCs
    <3>. QED
        BY <3>1, <3>2, <3>3 DEF TransactionInv, WholeUnsent
  <2>2. n = TxnCommands + 2 => Members(nextRequestID) \subseteq ToSet(unsent')
      BY <1>1, <1>2 DEF Members
  <2>3. \A t : Members(t)' = Members(t)
      BY DEF Members
  <2>. QED
      BY <2>1, <2>2, <2>3 DEF WholeUnsent
<1>11. CancelsOutside'
  <2>1. pc' \notin {"cancel", "cancelServed"}
      BY DEF UserPCs
  <2>2. CASE syncID' = nextRequestID /\ n = 1 /\ txns' = txns
    <3>1. \A t \in txns : nextRequestID \notin Members(t)
        BY <1>1, <1>4
    <3>. QED
        BY <1>1, <2>1, <2>2, <3>1 DEF CancelsOutside, Members
  <2>3. CASE UNCHANGED <<op, syncID>>
    <3>1. op = "sync" => /\ syncID \in Int /\ syncID < nextRequestID
                         /\ \A t \in txns : syncID \notin Members(t)
        BY DEF TransactionInv, CancelsOutside, TypeOK, Ids
    <3>2. op = "sync" => syncID \notin Members(nextRequestID)
        BY <1>1, <3>1 DEF Members
    <3>3. op = "sync" => syncID < nextRequestID'
        BY <1>1, <3>1
    <3>. QED
        BY <2>1, <2>3, <3>1, <3>2, <3>3 DEF CancelsOutside, Members
  <2>. QED
      BY <2>2, <2>3
<1>12. TransactionNotSplit'
  <2>. SUFFICES ASSUME NEW t \in txns',
                       NEW i \in t .. t + TxnCommands + 1, NEW j \in t .. t + TxnCommands + 1,
                       i < j, carrier[j] # 0
                PROVE  carrier[i] = carrier[j]
      BY <1>1 DEF TransactionNotSplit
  <2>1. CASE t \in txns
      BY <2>1 DEF TransactionInv, TransactionNotSplit
  <2>2. CASE n = TxnCommands + 2 /\ t = nextRequestID
    <3>1. j \in Ids /\ j >= nextRequestID /\ j \in Int
        BY <1>1, <2>2 DEF Ids
    <3>2. j < nextRequestID
        BY <3>1 DEF TransactionInv, WrittenFirst
    <3>. QED
        BY <1>1, <3>1, <3>2
  <2>. QED
      BY <2>1, <2>2
<1>. QED
    BY <1>7, <1>8, <1>9, <1>10, <1>11, <1>12 DEF TransactionInv

\* A request that is withdrawn belongs to no transaction.
LEMMA WithdrawTransaction ==
    ASSUME TypeOK, TransactionInv, CancelUnsent
    PROVE  TransactionInv'
<1>. USE DEF callers, lists, reader, network, history, cancels, object, aside
<1>1. PICK i \in DOMAIN unsent : unsent[i] = cancel.id /\ unsent' = RemoveAt(unsent, i)
    BY DEF CancelUnsent
<1>2. /\ pc = "cancel" /\ pc' = cancel.from /\ cancel.from \in UserPCs /\ cancel.id \in Ids
      /\ UNCHANGED <<txns, carrier, printing, conns, nextRequestID, op, syncID, sock, link>>
    BY DEF CancelUnsent, CancelReturns, TypeOK
<1>3. PICK x \in Seq(Ids), z \in Seq(Ids) :
          unsent = (x \o <<cancel.id>>) \o z /\ unsent' = x \o z
  <2>1. unsent \in Seq(Ids)
      BY DEF TypeOK
  <2>2. \E x, z \in Seq(Ids) :
            unsent = (x \o <<unsent[i]>>) \o z /\ RemoveAt(unsent, i) = x \o z
      BY <2>1, WithoutOne
  <2>. QED
      BY <1>1, <2>2
<1>4. PICK y \in Seq(Ids) : y = <<cancel.id>> /\ ToSet(y) = {cancel.id}
  <2>1. <<cancel.id>> \in Seq(Ids)
      BY <1>2, SingletonType
  <2>2. ToSet(<<cancel.id>>) = {cancel.id}
      BY DEF ToSet
  <2>. QED
      BY <2>1, <2>2
<1>5. PICK xy \in Seq(Ids) : xy = x \o y
    BY ConcatProperties
<1>6. ToSet(xy) = ToSet(x) \union ToSet(y)
    BY <1>5, ToSetConcat
<1>7. ToSet(xy \o z) = ToSet(xy) \union ToSet(z)
    BY ToSetConcat
<1>8. ToSet(x \o z) = ToSet(x) \union ToSet(z)
    BY ToSetConcat
<1>9. /\ ToSet(unsent') \subseteq ToSet(unsent)
      /\ ToSet(unsent) \subseteq ToSet(unsent') \union {cancel.id}
    BY <1>3, <1>4, <1>5, <1>6, <1>7, <1>8
<1>10. Left = ToSet(unsent) /\ Left' = ToSet(unsent')
    BY <1>2 DEF Left, UserPCs
<1>11. \A t : Members(t)' = Members(t)
    BY DEF Members
<1>12. MembersMade' /\ TransactionNotSplit' /\ BegunHere'
    BY <1>2 DEF TransactionInv, MembersMade, TransactionNotSplit, BegunHere, UserPCs
<1>13. WrittenFirst'
    BY <1>2, <1>9, <1>10 DEF TransactionInv, WrittenFirst, UserPCs
<1>14. CancelsOutside'
    BY <1>2, <1>11 DEF TransactionInv, CancelsOutside, UserPCs
<1>15. WholeUnsent'
  <2>1. \A t \in txns : cancel.id \notin Members(t)
      BY <1>2 DEF TransactionInv, CancelsOutside
  <2>2. \A t \in txns : \/ Members(t) \subseteq ToSet(unsent)
                        \/ \A k \in Members(t) : k \notin ToSet(unsent)
      BY <1>2 DEF TransactionInv, WholeUnsent
  <2>. QED
      BY <1>2, <1>9, <1>11, <2>1, <2>2 DEF WholeUnsent
<1>. QED
    BY <1>12, <1>13, <1>14, <1>15 DEF TransactionInv

LEMMA SendTransaction ==
    ASSUME TypeOK, OrderInv, TransactionInv, UpdateSend
    PROVE  TransactionInv'
<1>. USE DEF callers, lists, reader, network, history, cancels, object, aside
<1>1. /\ pc = "send" /\ pc' = "print" /\ printing' = Head(unsent) /\ unsent' = Tail(unsent)
      /\ unsent # <<>> /\ unsent \in Seq(Ids)
      /\ UNCHANGED <<txns, carrier, conns, nextRequestID, cancel, op, syncID, sock, link>>
    BY DEF UpdateSend, TypeOK
<1>2. /\ unsent = <<Head(unsent)>> \o Tail(unsent)
      /\ Head(unsent) \in Ids /\ Tail(unsent) \in Seq(Ids) /\ <<Head(unsent)>> \in Seq(Ids)
      /\ ToSet(unsent) = {Head(unsent)} \union ToSet(Tail(unsent))
    BY <1>1, HeadAndTail
<1>3. Left = ToSet(unsent) /\ Left' = ToSet(unsent)
    BY <1>1, <1>2 DEF Left
<1>4. \A u \in ToSet(unsent') : printing' < u
  <2>1. PICK h \in Seq(Ids), rest \in Seq(Ids) : h = <<Head(unsent)>> /\ rest = Tail(unsent)
      BY <1>2
  <2>2. Increasing(h \o rest)
      BY <1>2, <2>1, SentInOrder
  <2>3. Below(h, rest)
      BY <2>2, IncreasingConcat
  <2>4. Head(unsent) \in ToSet(h)
      BY <2>1 DEF ToSet
  <2>. QED
      BY <1>1, <2>1, <2>3, <2>4 DEF Below
<1>5. printing' < nextRequestID'
  <2>1. Head(unsent) \in ToSet(Queue)
      BY <1>2, QueueType
  <2>. QED
      BY <1>1, <2>1 DEF OrderInv
<1>6. \A t : Members(t)' = Members(t)
    BY DEF Members
<1>7. MembersMade' /\ TransactionNotSplit' /\ WholeUnsent' /\ CancelsOutside'
    BY <1>1, <1>6 DEF TransactionInv, MembersMade, TransactionNotSplit, WholeUnsent, CancelsOutside
<1>8. WrittenFirst'
    BY <1>1, <1>3, <1>4, <1>5 DEF TransactionInv, WrittenFirst
<1>9. BegunHere'
    BY <1>1, <1>3, <1>6 DEF TransactionInv, BegunHere
<1>. QED
    BY <1>7, <1>8, <1>9 DEF TransactionInv

LEMMA PrintTransaction ==
    ASSUME TypeOK, TransactionInv, UpdatePrint
    PROVE  TransactionInv'
<1>. USE DEF callers, lists, reader, network, history, cancels, object, aside
<1>1. /\ pc = "print" /\ pc' = "send" /\ printing \in Ids /\ carrier \in [Ids -> Nat]
      /\ UNCHANGED <<txns, conns, unsent, nextRequestID, cancel, op, syncID>>
    BY DEF UpdatePrint, TypeOK
<1>2. Left = ToSet(unsent) \union {printing} /\ Left' = ToSet(unsent)
    BY <1>1 DEF Left
<1>3. \A t : Members(t)' = Members(t)
    BY DEF Members
<1>4. MembersMade' /\ WholeUnsent' /\ CancelsOutside'
    BY <1>1, <1>3 DEF TransactionInv, MembersMade, WholeUnsent, CancelsOutside
<1>5. CASE UNCHANGED carrier /\ ~(sock' = "open" /\ link' = "up")
  <2>1. WrittenFirst'
      BY <1>1, <1>2, <1>5 DEF TransactionInv, WrittenFirst
  <2>2. BegunHere'
      BY <1>5 DEF BegunHere
  <2>3. TransactionNotSplit'
      BY <1>1, <1>5 DEF TransactionInv, TransactionNotSplit
  <2>. QED
      BY <1>4, <2>1, <2>2, <2>3 DEF TransactionInv
<1>6. CASE carrier' = [carrier EXCEPT ![printing] = conns] /\ sock = "open" /\ link = "up"
  <2>1. /\ carrier'[printing] = conns
        /\ \A i \in Ids : i # printing => carrier'[i] = carrier[i]
      BY <1>1, <1>6
  <2>2. printing < nextRequestID /\ \A u \in ToSet(unsent) : printing < u
      BY <1>1 DEF TransactionInv, WrittenFirst
  <2>3. \A i \in Ids : carrier[i] # 0 => i < nextRequestID /\ \A u \in Left : i < u
      BY DEF TransactionInv, WrittenFirst
  <2>4. WrittenFirst'
    <3>1. \A i \in Ids : carrier'[i] # 0 =>
              i < nextRequestID /\ \A u \in ToSet(unsent) : i < u
        BY <1>2, <2>1, <2>2, <2>3
    <3>. QED
        BY <1>1, <1>2, <3>1 DEF WrittenFirst
  <2>5. \A t \in txns : \A i, j \in Members(t) :
            i < j /\ j \in Left /\ i \notin Left => carrier[i] = conns
      BY <1>1, <1>6 DEF TransactionInv, BegunHere
  <2>6. \A t \in txns : Members(t) \subseteq Ids
      BY MembersAreMade DEF TransactionInv
  <2>7. BegunHere'
    <3>1. ASSUME NEW t \in txns, NEW i \in Members(t), NEW j \in Members(t),
                 i < j, j \in ToSet(unsent), i \notin ToSet(unsent)
          PROVE  carrier'[i] = conns
      <4>1. CASE i = printing
          BY <2>1, <4>1
      <4>2. CASE i # printing
        <5>1. j \in Left /\ i \notin Left /\ i \in Ids
            BY <1>2, <2>6, <3>1, <4>2
        <5>. QED
            BY <2>1, <2>5, <3>1, <4>2, <5>1
      <4>. QED
          BY <4>1, <4>2
    <3>. QED
        BY <1>1, <1>2, <1>3, <3>1 DEF BegunHere
  <2>8. TransactionNotSplit'
    <3>1. ASSUME NEW t \in txns, NEW i \in Members(t), NEW j \in Members(t),
                 i < j, carrier'[j] # 0
          PROVE  carrier'[i] = carrier'[j]
      <4>1. i \in Ids /\ j \in Ids /\ i \in Int /\ j \in Int
          BY <2>6 DEF Ids
      <4>2. CASE j = printing
        <5>1. i # printing /\ i \notin ToSet(unsent)
            BY <2>2, <3>1, <4>1, <4>2
        <5>2. carrier[i] = conns
            BY <1>2, <2>5, <3>1, <4>2, <5>1
        <5>. QED
            BY <2>1, <4>1, <4>2, <5>1, <5>2
      <4>3. CASE j # printing
        <5>1. carrier'[j] = carrier[j] /\ carrier[j] # 0
            BY <2>1, <3>1, <4>1, <4>3
        <5>2. j < printing
            BY <1>2, <2>3, <4>1, <5>1
        <5>3. i # printing
            BY <1>1, <3>1, <4>1, <5>2 DEF Ids
        <5>4. carrier[i] = carrier[j]
            BY <3>1, <5>1 DEF TransactionInv, TransactionNotSplit, Members
        <5>. QED
            BY <2>1, <4>1, <5>1, <5>3, <5>4
      <4>. QED
          BY <4>2, <4>3
    <3>. QED
        BY <1>1, <3>1 DEF TransactionNotSplit, Members
  <2>. QED
      BY <1>4, <2>4, <2>7, <2>8 DEF TransactionInv
<1>. QED
    BY <1>5, <1>6 DEF UpdatePrint

\* Steps of the main thread between two writings that change neither the unsent
\* list nor the transactions.
LEMMA AsideTransaction ==
    ASSUME TransactionInv, CancelsOutside',
           UNCHANGED <<txns, carrier, unsent, printing, nextRequestID>>,
           pc \notin {"send", "print"}, pc' \notin {"send", "print"}
    PROVE  TransactionInv'
<1>1. Left' = Left /\ \A t : Members(t)' = Members(t)
    BY DEF Left, Members
<1>. QED
    BY <1>1 DEF TransactionInv, MembersMade, WrittenFirst, BegunHere, WholeUnsent,
                TransactionNotSplit

LEMMA CallTransaction ==
    ASSUME TypeOK, TransactionInv, Call
    PROVE  TransactionInv'
<1>. USE DEF callers, lists, reader, network, history, cancels, object, aside
<1>1. CASE MakeRequestAsync
    BY <1>1, EnqueueTransaction DEF MakeRequestAsync, UserCode
<1>2. CASE MakeTransactionRequestAsync
  <2>1. /\ TxnCommands + 2 \in Nat /\ Enqueue(TxnCommands + 2)
        /\ pc \in UserPCs /\ pc' \in UserPCs \union {"update"}
        /\ txns' = txns \union {nextRequestID} /\ UNCHANGED <<op, syncID>>
      BY <1>2, BoundsAssumption DEF MakeTransactionRequestAsync, UserCode
  <2>. QED
      BY <2>1, EnqueueTransaction
<1>3. CASE MakeRequestSync
  <2>1. /\ Enqueue(1) /\ pc \in UserPCs /\ pc' \in UserPCs \union {"update"}
        /\ txns' = txns /\ syncID' = nextRequestID
      BY <1>3 DEF MakeRequestSync, UserPCs
  <2>. QED
      BY <2>1, EnqueueTransaction
<1>4. CASE SyncReturn \/ Flush \/ FlushReturn
  <2>1. /\ UNCHANGED <<txns, carrier, unsent, printing, conns, nextRequestID, cancel,
                       sock, link>>
        /\ pc = "idle" /\ pc' \in {"idle", "update"}
        /\ op' # "sync"
      BY <1>4 DEF SyncReturn, Flush, FlushReturn
  <2>. QED
      BY <2>1, TransactionFrame
<1>5. CASE SyncTimeout
  <2>1. /\ UNCHANGED <<txns, carrier, unsent, printing, nextRequestID>>
        /\ pc = "idle" /\ pc' = "cancel" /\ op' = "none" /\ op = "sync"
        /\ cancel'.id = syncID
      BY <1>5 DEF SyncTimeout
  <2>2. CancelsOutside'
      BY <2>1 DEF TransactionInv, CancelsOutside, Members
  <2>. QED
      BY <2>1, <2>2, AsideTransaction
<1>6. CASE CancelAsyncRequest
  <2>1. /\ UNCHANGED <<txns, carrier, unsent, printing, nextRequestID, op, syncID>>
        /\ pc \in UserPCs /\ pc' = "cancel"
      BY <1>6 DEF CancelAsyncRequest, UserCode
  <2>2. PICK id \in 0 .. nextRequestID - 1 : ~InTransaction(id) /\ cancel'.id = id
      BY <1>6 DEF CancelAsyncRequest
  <2>3. id < nextRequestID /\ \A t \in txns : id \notin Members(t)
      BY <2>2 DEF InTransaction, Members, TypeOK
  <2>4. CancelsOutside'
      BY <2>1, <2>2, <2>3 DEF TransactionInv, CancelsOutside, Members
  <2>. QED
      BY <2>1, <2>4, AsideTransaction DEF UserPCs
<1>. QED
    BY <1>1, <1>2, <1>3, <1>4, <1>5, <1>6 DEF Call

LEMMA CancelTransaction ==
    ASSUME TypeOK, TransactionInv, CancelSent \/ CancelServed
    PROVE  TransactionInv'
<1>. USE DEF callers, lists, reader, network, history, cancels, object, aside
<1>1. /\ UNCHANGED <<txns, carrier, unsent, printing, nextRequestID, op, syncID>>
      /\ pc \in {"cancel", "cancelServed"}
    BY DEF CancelSent, CancelServed
<1>2. \/ pc' = cancel.from
      \/ pc' \in {"cancel", "cancelServed"} /\ cancel'.id = cancel.id
  <2>1. CASE CancelSent
      BY <2>1 DEF CancelSent, CancelReturns
  <2>2. CASE CancelServed
      BY <2>2 DEF CancelServed, CancelReturns
  <2>. QED
      BY <2>1, <2>2
<1>3. cancel.from \in UserPCs
    BY DEF TypeOK
<1>4. CancelsOutside'
    BY <1>1, <1>2, <1>3 DEF TransactionInv, CancelsOutside, Members, UserPCs
<1>. QED
    BY <1>1, <1>2, <1>3, <1>4, AsideTransaction DEF UserPCs

LEMMA UpdatingTransaction ==
    ASSUME TypeOK, OrderInv, TransactionInv, Updating
    PROVE  TransactionInv'
<1>. USE DEF callers, lists, reader, network, history, cancels, object, aside
<1>1. CASE UpdateSend
    BY <1>1, SendTransaction
<1>2. CASE UpdatePrint
    BY <1>2, PrintTransaction
<1>3. CASE UpdateConnect
  <2>1. /\ UNCHANGED <<txns, carrier, unsent, printing, nextRequestID, cancel, op, syncID>>
        /\ pc = "update" /\ pc' = "connected"
      BY <1>3 DEF UpdateConnect
  <2>2. CancelsOutside'
      BY <2>1 DEF TransactionInv, CancelsOutside, Members
  <2>. QED
      BY <2>1, <2>2, AsideTransaction
<1>4. CASE UpdateThread /\ pc' = "send"
  <2>1. /\ UNCHANGED <<txns, carrier, unsent, printing, conns, nextRequestID, cancel, op,
                       syncID, sock, link>>
        /\ pc = "thread" /\ pc' = "send"
      BY <1>4 DEF UpdateThread
  <2>2. Left = ToSet(unsent) /\ Left' = ToSet(unsent) /\ \A t : Members(t)' = Members(t)
      BY <2>1 DEF Left, Members
  <2>3. \A t \in txns : \/ Members(t) \subseteq ToSet(unsent)
                        \/ \A i \in Members(t) : i \notin ToSet(unsent)
      BY <2>1 DEF TransactionInv, WholeUnsent
  <2>4. BegunHere'
      BY <2>1, <2>2, <2>3 DEF BegunHere
  <2>. QED
      BY <2>1, <2>2, <2>4 DEF TransactionInv, MembersMade, WrittenFirst, WholeUnsent,
                              CancelsOutside, TransactionNotSplit
<1>5. CASE UpdateSent
  <2>1. /\ UNCHANGED <<txns, carrier, unsent, printing, conns, nextRequestID, cancel, op,
                       syncID, sock, link>>
        /\ pc = "send" /\ pc' = "serve" /\ unsent = <<>>
      BY <1>5 DEF UpdateSent, Goto
  <2>2. Left' = Left /\ \A t : Members(t)' = Members(t)
      BY <2>1 DEF Left, Members
  <2>3. ToSet(unsent') = {}
      BY <2>1 DEF ToSet
  <2>4. WholeUnsent' /\ BegunHere'
      BY <2>1, <2>3 DEF WholeUnsent, BegunHere
  <2>. QED
      BY <2>1, <2>2, <2>4 DEF TransactionInv, MembersMade, WrittenFirst, CancelsOutside,
                              TransactionNotSplit
<1>6. CASE UpdateLost \/ UpdateJoined
  <2>1. /\ UNCHANGED <<txns, carrier, unsent, printing, conns, nextRequestID, cancel, op,
                       syncID>>
        /\ pc \in {"connected", "update", "join"} /\ pc' \in {"join", "idle"}
      BY <1>6 DEF UpdateLost, UpdateJoined, Purge
  <2>. QED
      BY <2>1, TransactionFrame
<1>7. CASE /\ pc \notin {"send", "print", "cancel", "cancelServed"}
           /\ pc' \notin {"send", "print", "cancel", "cancelServed"}
           /\ UNCHANGED <<txns, carrier, unsent, printing, conns, nextRequestID, cancel,
                          op, syncID>>
    BY <1>7, TransactionFrame
<1>8. CASE UpdateSpawn \/ UpdateTake \/ UpdateServe \/ UpdateDealloc \/ UpdateMessage
    BY <1>7, <1>8 DEF UpdateSpawn, UpdateTake, UpdateServe, UpdateDealloc, UpdateMessage
<1>9. CASE UpdateThread /\ pc' # "send"
    BY <1>7, <1>9 DEF UpdateThread
<1>10. CASE \/ UpdateNotConnected \/ UpdateLive \/ UpdateSpawnFails \/ UpdateServed
            \/ UpdateDone
    BY <1>7, <1>10 DEF UpdateNotConnected, UpdateLive, UpdateSpawnFails, UpdateServed,
                       UpdateDone, Goto
<1>. QED
    BY <1>1, <1>2, <1>3, <1>4, <1>5, <1>6, <1>8, <1>9, <1>10 DEF Updating

LEMMA TransactionStep ==
    ASSUME TypeOK, OrderInv, TransactionInv, [Next]_vars
    PROVE  TransactionInv'
<1>. USE DEF callers, lists, reader, network, history, cancels, object, aside
<1>1. CASE UNCHANGED vars
    BY <1>1, TransactionFrame DEF vars
<1>2. CASE Call
    BY <1>2, CallTransaction
<1>3. CASE Cancelling
    BY <1>3, WithdrawTransaction, CancelTransaction DEF Cancelling
<1>4. CASE Update
    BY <1>4, TransactionFrame DEF Update, Goto
<1>5. CASE Updating
    BY <1>5, UpdatingTransaction
<1>6. CASE ThreadFunc
  <2>1. /\ UNCHANGED <<txns, carrier, unsent, printing, conns, nextRequestID, cancel, op,
                       syncID, pc, link>>
        /\ sock' \in {sock, "invalid"}
      BY <1>6 DEF ThreadFunc, ReaderTest, ReaderReadReply, ReaderMisreads, ReaderReadPush,
                  ReaderReadFails, ReaderPush, ReaderDispatch, ReaderServe, ReaderSignal
  <2>. QED
      BY <2>1, TransactionFrame
<1>7. CASE External
  <2>1. /\ UNCHANGED <<txns, carrier, unsent, printing, conns, nextRequestID, cancel, op,
                       syncID, pc, sock>>
        /\ link' \in {link, "fin", "reset"}
      BY <1>7 DEF External, ServerAnswer, ServerPush, ServerClose, LinkReset, outside
  <2>. QED
      BY <2>1, TransactionFrame
<1>. QED
    BY <1>1, <1>2, <1>3, <1>4, <1>5, <1>6, <1>7 DEF Next

LEMMA TransactionInit == Init => TransactionInv
<1>. SUFFICES ASSUME Init PROVE TransactionInv
    OBVIOUS
<1>1. txns = {} /\ pc = "idle" /\ op = "none" /\ \A i \in Ids : carrier[i] = 0
    BY DEF Init
<1>. QED
    BY <1>1 DEF TransactionInv, MembersMade, WrittenFirst, BegunHere, WholeUnsent,
                CancelsOutside, TransactionNotSplit

\* A transaction is queued in one piece, leaves the unsent list inside a single
\* Update, which writes to a single connection, and PrintTree never skips one
\* request of it and prints the next: so whichever command of it reaches a server
\* finds all those before it, the MULTI first, on the same connection.  Nothing
\* in this depends on how the reader classifies what the server answers.
THEOREM TransactionCorrect == Spec => []TransactionNotSplit
<1>1. Init => TransactionInv
    BY TransactionInit
<1>2. TypeOK /\ OrderInv /\ TransactionInv /\ [Next]_vars => TransactionInv'
    BY TransactionStep
<1>3. TransactionInv => TransactionNotSplit
    BY DEF TransactionInv
<1>. QED
    BY <1>1, <1>2, <1>3, QueueCorrect, PTL DEF Spec

-----------------------------------------------------------------------------
(* Responses                                                               *)

\* For as long as the parser has given up on nothing: the requests the server has
\* yet to answer, and the response in the reader's hands, are for as many of the
\* sent requests, none earlier than the one that will get it.
WireLate ==
    /\ Len(wire) + One(thread = "dispatch") + One(pc = "print") <= Len(sent)
    /\ \A k \in 1 .. Len(wire) : wire[k] >= sent[k + One(thread = "dispatch")]
    /\ thread = "dispatch" => item >= sent[1]
    /\ pc = "print" => printing = sent[Len(sent)]

LateInv == NothingSent /\ (conns \notin torn => WireLate)

LEMMA LateFrame ==
    ASSUME WireLate, UNCHANGED <<sent, wire, item, printing>>,
           (thread' = "dispatch") = (thread = "dispatch"),
           (pc' = "print") = (pc = "print")
    PROVE  WireLate'
    BY DEF WireLate, One

LEMMA PurgeLate ==
    ASSUME Purge, thread' # "dispatch"
    PROVE  WireLate' /\ NothingSent'
    BY DEF Purge, WireLate, NothingSent, One

LEMMA SendLate ==
    ASSUME TypeOK, WireLate, UpdateSend
    PROVE  WireLate'
<1>. DEFINE d == One(thread = "dispatch")
<1>. USE DEF callers, lists, reader, network, history, cancels, object, aside
<1>1. /\ pc = "send" /\ pc' = "print" /\ printing' = Head(unsent)
      /\ sent' = Append(sent, Head(unsent))
      /\ UNCHANGED <<wire, item, thread>>
    BY DEF UpdateSend
<1>2. /\ Len(sent') = Len(sent) + 1 /\ sent'[Len(sent) + 1] = printing'
      /\ \A i \in 1 .. Len(sent) : sent'[i] = sent[i]
  <2>1. sent \in Seq(Ids) /\ Head(unsent) \in Ids
      BY HeadTailProperties DEF UpdateSend, TypeOK
  <2>. QED
      BY <1>1, <2>1, AppendProperties
<1>3. Len(wire) \in Nat /\ Len(sent) \in Nat /\ d \in {0, 1} /\ d' = d
    BY <1>1, LenProperties DEF TypeOK, One
<1>4. Len(wire) + d <= Len(sent) /\ \A k \in 1 .. Len(wire) : wire[k] >= sent[k + d]
    BY <1>1, <1>3 DEF WireLate, One
<1>5. Len(wire') + d' + 1 <= Len(sent')
    BY <1>1, <1>2, <1>3, <1>4
<1>6. \A k \in 1 .. Len(wire') : wire'[k] >= sent'[k + d']
  <2>. SUFFICES ASSUME NEW k \in 1 .. Len(wire) PROVE wire[k] >= sent'[k + d]
      BY <1>1, <1>3
  <2>1. k + d \in 1 .. Len(sent)
      BY <1>3, <1>4
  <2>. QED
      BY <1>2, <1>4, <2>1
<1>7. thread' = "dispatch" => item' >= sent'[1]
  <2>. SUFFICES ASSUME thread = "dispatch" PROVE item >= sent'[1]
      BY <1>1
  <2>1. 1 \in 1 .. Len(sent)
      BY <1>3, <1>4 DEF One
  <2>. QED
      BY <1>2, <2>1 DEF WireLate
<1>. QED
    BY <1>1, <1>2, <1>5, <1>6, <1>7 DEF WireLate, One

LEMMA PrintLate ==
    ASSUME TypeOK, OrderInv, WireLate, UpdatePrint
    PROVE  WireLate'
<1>. DEFINE d == One(thread = "dispatch")
<1>. USE DEF callers, lists, reader, network, history, cancels, object, aside
<1>1. pc = "print" /\ pc' = "send" /\ UNCHANGED <<sent, item, thread>>
    BY DEF UpdatePrint
<1>2. Len(wire) \in Nat /\ Len(sent) \in Nat /\ d \in {0, 1} /\ d' = d
    BY <1>1, LenProperties DEF TypeOK, One
<1>3. /\ Len(wire) + d + 1 <= Len(sent) /\ printing = sent[Len(sent)]
      /\ \A k \in 1 .. Len(wire) : wire[k] >= sent[k + d]
      /\ thread = "dispatch" => item >= sent[1]
    BY <1>1, <1>2 DEF WireLate, One
<1>4. CASE wire' = Append(wire, printing)
  <2>1. /\ Len(wire') = Len(wire) + 1 /\ wire'[Len(wire) + 1] = printing
        /\ \A i \in 1 .. Len(wire) : wire'[i] = wire[i]
    <3>1. wire \in Seq(Ids) /\ printing \in Ids
        BY <1>1 DEF TypeOK
    <3>. QED
        BY <1>4, <3>1, AppendProperties
  <2>2. \A k \in 1 .. Len(wire') : wire'[k] >= sent[k + d]
    <3>. SUFFICES ASSUME NEW k \in 1 .. Len(wire') PROVE wire'[k] >= sent[k + d]
        OBVIOUS
    <3>1. CASE k = Len(wire) + 1
      <4>1. k + d \in 1 .. Len(sent) /\ Len(sent) \in 1 .. Len(sent)
          BY <1>2, <1>3, <3>1
      <4>2. sent[Len(sent)] >= sent[k + d]
        <5>1. DOMAIN sent = 1 .. Len(sent) /\ \A i \in 1 .. Len(sent) : sent[i] \in Int
          <6>1. DOMAIN sent = 1 .. Len(sent)
              BY LenProperties DEF TypeOK
          <6>2. \A i \in 1 .. Len(sent) : sent[i] \in Ids
              BY ElementOfSeq DEF TypeOK
          <6>. QED
              BY <6>1, <6>2 DEF Ids
        <5>2. k + d < Len(sent) => sent[k + d] < sent[Len(sent)]
            BY <4>1, <5>1, SentInOrder DEF Increasing
        <5>3. k + d < Len(sent) \/ k + d = Len(sent)
            BY <4>1
        <5>. QED
            BY <4>1, <5>1, <5>2, <5>3
      <4>. QED
          BY <1>3, <2>1, <3>1, <4>2
    <3>2. CASE k \in 1 .. Len(wire)
        BY <1>3, <2>1, <3>2
    <3>. QED
        BY <1>2, <2>1, <3>1, <3>2
  <2>3. Len(wire') + d <= Len(sent)
      BY <1>2, <1>3, <2>1
  <2>. QED
      BY <1>1, <1>2, <1>3, <2>2, <2>3 DEF WireLate, One
<1>5. CASE UNCHANGED wire
  <2>1. Len(wire) + d <= Len(sent)
      BY <1>2, <1>3
  <2>. QED
      BY <1>1, <1>2, <1>3, <1>5, <2>1 DEF WireLate, One
<1>. QED
    BY <1>4, <1>5 DEF UpdatePrint

LEMMA ReplyLate ==
    ASSUME TypeOK, OrderInv, WireLate, ReaderReadReply
    PROVE  WireLate'
<1>. USE DEF callers, lists, reader, network, history, cancels, object, aside
<1>1. /\ thread = "read" /\ wire' = Tail(wire) /\ answered > 0
      /\ thread' # "dispatch" \/ (thread' = "dispatch" /\ item' = Head(wire))
      /\ UNCHANGED <<sent, printing, pc>>
    BY DEF ReaderReadReply
<1>2. Len(wire) \in Nat \ {0} /\ Len(sent) \in Nat /\ wire # <<>>
    BY <1>1, LenProperties, EmptySeq DEF TypeOK
<1>3. /\ Len(wire') = Len(wire) - 1 /\ Head(wire) = wire[1]
      /\ \A k \in 1 .. Len(wire') : wire'[k] = wire[k + 1]
    BY <1>1, <1>2, HeadTailProperties DEF TypeOK
<1>4. /\ Len(wire) + One(pc = "print") <= Len(sent)
      /\ \A k \in 1 .. Len(wire) : wire[k] >= sent[k]
      /\ pc = "print" => printing = sent[Len(sent)]
  <2>1. One(thread = "dispatch") = 0 /\ One(pc = "print") \in {0, 1}
      BY <1>1 DEF One
  <2>2. \A k \in 1 .. Len(wire) : k + 0 = k
      OBVIOUS
  <2>. QED
      BY <1>2, <2>1, <2>2 DEF WireLate
<1>5. One(pc = "print") \in {0, 1} /\ One(pc' = "print") = One(pc = "print")
    BY <1>1 DEF One
<1>6. \A i \in 1 .. Len(sent) : sent[i] \in Int
  <2>1. \A i \in 1 .. Len(sent) : sent[i] \in Ids
      BY ElementOfSeq DEF TypeOK
  <2>. QED
      BY <2>1 DEF Ids
<1>7. \A i \in 1 .. Len(wire) : wire[i] \in Int
  <2>1. \A i \in 1 .. Len(wire) : wire[i] \in Ids
      BY ElementOfSeq DEF TypeOK
  <2>. QED
      BY <2>1 DEF Ids
<1>8. CASE thread' = "dispatch" /\ item' = Head(wire)
  <2>1. One(thread' = "dispatch") = 1
      BY <1>8 DEF One
  <2>2. Len(wire') + 1 + One(pc' = "print") <= Len(sent')
      BY <1>1, <1>2, <1>3, <1>4, <1>5
  <2>3. \A k \in 1 .. Len(wire') : wire'[k] >= sent'[k + 1]
      BY <1>1, <1>2, <1>3, <1>4
  <2>4. item' >= sent'[1]
      BY <1>1, <1>2, <1>3, <1>4, <1>8
  <2>. QED
      BY <1>1, <1>4, <2>1, <2>2, <2>3, <2>4 DEF WireLate
<1>9. CASE thread' # "dispatch"
  <2>1. One(thread' = "dispatch") = 0
      BY <1>9 DEF One
  <2>2. Len(wire') + 0 + One(pc' = "print") <= Len(sent')
      BY <1>1, <1>2, <1>3, <1>4, <1>5
  <2>3. \A k \in 1 .. Len(wire') : wire'[k] >= sent'[k + 0]
    <3>. SUFFICES ASSUME NEW k \in 1 .. Len(wire') PROVE wire'[k] >= sent[k]
        BY <1>1
    <3>1. k + 1 \in 1 .. Len(wire) /\ k \in 1 .. Len(sent) /\ k + 1 \in 1 .. Len(sent)
        BY <1>2, <1>3, <1>4, <1>5
    <3>2. sent[k] < sent[k + 1]
      <4>1. DOMAIN sent = 1 .. Len(sent) /\ k < k + 1
          BY LenProperties DEF TypeOK
      <4>. QED
          BY <3>1, <4>1, SentInOrder DEF Increasing
    <3>3. wire[k + 1] >= sent[k + 1] /\ wire'[k] = wire[k + 1]
        BY <1>3, <1>4, <3>1
    <3>. QED
        BY <1>6, <1>7, <3>1, <3>2, <3>3
  <2>. QED
      BY <1>1, <1>4, <1>9, <2>1, <2>2, <2>3 DEF WireLate
<1>. QED
    BY <1>1, <1>8, <1>9

LEMMA DispatchLate ==
    ASSUME TypeOK, WireLate, ReaderDispatch
    PROVE  WireLate'
<1>. USE DEF callers, lists, reader, network, history, cancels, object, aside
<1>1. thread = "dispatch" /\ UNCHANGED <<wire, printing, pc>>
    BY DEF ReaderDispatch
<1>2. /\ One(thread = "dispatch") = 1 /\ One(pc = "print") \in {0, 1}
      /\ One(pc' = "print") = One(pc = "print")
    BY <1>1 DEF One
<1>3. /\ Len(wire) \in Nat /\ Len(sent) \in Nat
      /\ Len(wire) + 1 + One(pc = "print") <= Len(sent)
    BY <1>2, LenProperties DEF WireLate, TypeOK
<1>4. sent # <<>> /\ thread' = "between" /\ sent' = Tail(sent)
    BY <1>2, <1>3, EmptySeq DEF ReaderDispatch
<1>5. /\ Len(sent') = Len(sent) - 1 /\ Head(sent) = sent[1] /\ Head(sent) \in Ids
      /\ \A k \in 1 .. Len(sent') : sent'[k] = sent[k + 1]
    BY <1>4, HeadTailProperties DEF TypeOK
<1>6. /\ item >= sent[1] /\ \A k \in 1 .. Len(wire) : wire[k] >= sent[k + 1]
      /\ pc = "print" => printing = sent[Len(sent)]
    BY <1>1, <1>2 DEF WireLate
<1>7. One(thread' = "dispatch") = 0
    BY <1>4 DEF One
<1>8. Len(wire') + 0 + One(pc' = "print") <= Len(sent')
    BY <1>1, <1>2, <1>3, <1>5
<1>9. \A k \in 1 .. Len(wire') : wire'[k] >= sent'[k + 0]
  <2>. SUFFICES ASSUME NEW k \in 1 .. Len(wire) PROVE wire[k] >= sent'[k]
      BY <1>1
  <2>1. k \in 1 .. Len(sent')
      BY <1>2, <1>3, <1>5
  <2>. QED
      BY <1>5, <1>6, <2>1
<1>10. pc' = "print" => printing' = sent'[Len(sent')]
  <2>. SUFFICES ASSUME pc = "print" PROVE printing = sent'[Len(sent')]
      BY <1>1
  <2>1. One(pc = "print") = 1
      BY DEF One
  <2>2. Len(sent') \in 1 .. Len(sent') /\ Len(sent') + 1 = Len(sent)
      BY <1>3, <1>5, <2>1
  <2>. QED
      BY <1>5, <1>6, <2>2
<1>. QED
    BY <1>4, <1>7, <1>8, <1>9, <1>10 DEF WireLate

\* The parser never makes good what it gave up on, and connections only change
\* when the client connects.
LEMMA TornGrows ==
    ASSUME [Next]_vars
    PROVE  torn \subseteq torn' /\ (conns' = conns \/ UpdateConnect)
<1>. USE DEF callers, lists, reader, network, history, cancels, object, aside, outside
<1>1. CASE UNCHANGED vars \/ Call \/ Cancelling \/ Update
    BY <1>1 DEF vars, Call, MakeRequestAsync, MakeTransactionRequestAsync, MakeRequestSync,
                Enqueue, SyncReturn, SyncTimeout, Flush, FlushReturn, CancelAsyncRequest,
                Cancelling, CancelUnsent, CancelSent, CancelServed, Update, Goto
<1>2. CASE Updating
  <2>1. torn' = torn
      BY <1>2 DEF Updating, UpdateConnect, UpdateNotConnected, UpdateLive, UpdateLost,
                  UpdateJoined, Purge, UpdateSpawn, UpdateSpawnFails, UpdateThread, UpdateSend,
                  UpdatePrint, UpdateSent, UpdateTake, UpdateServe, UpdateDealloc,
                  UpdateServed, UpdateMessage, UpdateDone, Goto
  <2>2. conns' = conns \/ UpdateConnect
      BY <1>2 DEF Updating, UpdateNotConnected, UpdateLive, UpdateLost,
                  UpdateJoined, Purge, UpdateSpawn, UpdateSpawnFails, UpdateThread, UpdateSend,
                  UpdatePrint, UpdateSent, UpdateTake, UpdateServe, UpdateDealloc,
                  UpdateServed, UpdateMessage, UpdateDone, Goto
  <2>. QED
      BY <2>1, <2>2
<1>3. CASE ThreadFunc
    BY <1>3 DEF ThreadFunc, ReaderTest, ReaderReadReply, ReaderMisreads, ReaderReadPush,
                ReaderReadFails, ReaderPush, ReaderDispatch, ReaderServe, ReaderSignal
<1>4. CASE External
    BY <1>4 DEF External, ServerAnswer, ServerPush, ServerClose, LinkReset
<1>. QED
    BY <1>1, <1>2, <1>3, <1>4 DEF Next

LEMMA LateStep ==
    ASSUME TypeOK, StreamInv, OrderInv, LateInv, [Next]_vars
    PROVE  LateInv'
<1>. USE DEF callers, lists, reader, network, history, cancels, object, aside, outside
<1>. SUFFICES /\ NothingSent'
              /\ conns' \notin torn' => WireLate'
    BY DEF LateInv
<1>0. /\ NothingSent
      /\ conns' \notin torn' => WireLate \/ UpdateConnect
    BY TornGrows DEF LateInv
<1>1. ASSUME UNCHANGED <<sent, wire, item, printing>>,
             (thread' = "dispatch") = (thread = "dispatch"),
             (pc' = "print") = (pc = "print"),
             sock' = "null" => sock = "null", ~UpdateConnect
      PROVE  NothingSent' /\ (conns' \notin torn' => WireLate')
    BY <1>0, <1>1, LateFrame DEF NothingSent
<1>2. CASE UNCHANGED vars
  <2>1. ~UpdateConnect
      BY <1>2, SMT DEF vars, UpdateConnect
  <2>. QED
      BY <1>1, <1>2, <2>1 DEF vars
<1>3. CASE Call
  <2>1. UNCHANGED <<lists, calls, reader, network, sock, printing>>
      BY <1>3 DEF Call, MakeRequestAsync, MakeTransactionRequestAsync, MakeRequestSync,
                  Enqueue, SyncReturn, SyncTimeout, Flush, FlushReturn, CancelAsyncRequest
  <2>2. (pc' = "print") = (pc = "print")
      BY <1>3 DEF Call, MakeRequestAsync, MakeTransactionRequestAsync, MakeRequestSync,
                  SyncReturn, SyncTimeout, Flush, FlushReturn, CancelAsyncRequest,
                  UserCode, UserPCs
  <2>3. ~UpdateConnect
      BY <2>1 DEF UpdateConnect
  <2>. QED
      BY <1>1, <2>1, <2>2, <2>3
<1>4. CASE Cancelling
  <2>1. UNCHANGED <<lists, calls, reader, network, sock, printing>>
      BY <1>4 DEF Cancelling, CancelUnsent, CancelSent, CancelServed
  <2>2. pc # "print" /\ pc' # "print"
      BY <1>4 DEF Cancelling, CancelUnsent, CancelSent, CancelServed, CancelReturns,
                  TypeOK, UserPCs
  <2>3. ~UpdateConnect
      BY <2>1 DEF UpdateConnect
  <2>. QED
      BY <1>1, <2>1, <2>2, <2>3
<1>5. CASE Update \/ Updating
  <2>1. CASE UpdateConnect
    <3>1. sent = <<>> /\ wire = <<>> /\ thread # "dispatch"
        BY <1>0, <2>1 DEF UpdateConnect, NothingSent, StreamInv, ReaderHasStream, ReaderRuns
    <3>2. /\ pc' = "connected" /\ sock' = "open"
          /\ UNCHANGED <<sent, wire, item, thread, printing>>
        BY <2>1 DEF UpdateConnect
    <3>. QED
        BY <3>1, <3>2 DEF WireLate, NothingSent, One
  <2>2. CASE UpdateLost
    <3>1. CASE Purge /\ UNCHANGED thread /\ ~ReaderRuns
        BY <3>1, PurgeLate DEF ReaderRuns
    <3>2. CASE pc' = "join" /\ UNCHANGED <<object, aside, reader, network, sock, printing>>
      <4>1. pc # "print" /\ ~UpdateConnect
          BY <2>2, <3>2 DEF UpdateLost, UpdateConnect
      <4>. QED
          BY <1>1, <3>2, <4>1
    <3>. QED
        BY <3>1, <3>2, <2>2 DEF UpdateLost
  <2>3. CASE UpdateJoined
      BY <2>3, PurgeLate DEF UpdateJoined
  <2>4. CASE UpdateSend
    <3>1. ~UpdateConnect /\ sock' = sock /\ sock # "null"
        BY <2>4 DEF UpdateSend, UpdateConnect, StreamInv
    <3>. QED
        BY <1>0, <2>4, <3>1, SendLate DEF NothingSent
  <2>5. CASE UpdatePrint
    <3>1. ~UpdateConnect /\ sock' # "null"
        BY <2>5 DEF UpdatePrint, UpdateConnect, StreamInv
    <3>. QED
        BY <1>0, <2>5, <3>1, PrintLate DEF NothingSent
  <2>6. CASE UpdateServe \/ UpdateDealloc
    <3>1. /\ UNCHANGED <<sent, item, wire, sock, printing, thread>>
          /\ pc # "print" /\ pc' # "print" /\ ~UpdateConnect
        BY <2>6 DEF UpdateServe, UpdateDealloc, UpdateConnect
    <3>. QED
        BY <1>1, <3>1
  <2>7. CASE UpdateSpawn \/ UpdateThread \/ UpdateTake \/ UpdateMessage
    <3>1. /\ UNCHANGED <<lists, item, wire, sock, printing>>
          /\ pc # "print" /\ pc' # "print" /\ ~UpdateConnect
          /\ (thread' = "dispatch") = (thread = "dispatch")
        BY <2>7 DEF UpdateSpawn, UpdateThread, UpdateTake, UpdateMessage, UpdateConnect
    <3>. QED
        BY <1>1, <3>1
  <2>8. CASE \E label \in PCs \ {"print"} : pc # "print" /\ Goto(label)
    <3>1. /\ UNCHANGED <<object, aside, reader, network, sock, printing>>
          /\ pc # "print" /\ pc' # "print" /\ ~UpdateConnect
        BY <2>8 DEF Goto, UpdateConnect
    <3>. QED
        BY <1>1, <3>1
  <2>9. CASE Update \/ UpdateNotConnected \/ UpdateLive \/ UpdateSpawnFails \/ UpdateSent
              \/ UpdateServed \/ UpdateDone
      BY <2>8, <2>9 DEF Update, UpdateNotConnected, UpdateLive, UpdateSpawnFails,
                        UpdateSent, UpdateServed, UpdateDone, PCs, UserPCs
  <2>. QED
      BY <1>5, <2>1, <2>2, <2>3, <2>4, <2>5, <2>6, <2>7, <2>9 DEF Updating
<1>6. CASE ThreadFunc
  <2>0. ~UpdateConnect
      BY <1>6 DEF ThreadFunc, ReaderTest, ReaderReadReply, ReaderMisreads, ReaderReadPush,
                  ReaderReadFails, ReaderPush, ReaderDispatch, ReaderServe, ReaderSignal,
                  UpdateConnect
  <2>1. CASE ReaderReadReply
    <3>1. sock' = "open"
        BY <2>1 DEF ReaderReadReply
    <3>. QED
        BY <1>0, <2>0, <2>1, <3>1, ReplyLate DEF NothingSent
  <2>2. CASE ReaderMisreads
      BY <2>2 DEF ReaderMisreads, NothingSent
  <2>3. CASE ReaderDispatch
    <3>1. sock' # "null"
        BY <2>3 DEF ReaderDispatch, StreamInv, ReaderHasStream, ReaderRuns
    <3>. QED
        BY <1>0, <2>0, <2>3, <3>1, DispatchLate DEF NothingSent
  <2>4. CASE \/ ReaderTest \/ ReaderReadPush \/ ReaderReadFails \/ ReaderPush
             \/ ReaderServe \/ ReaderSignal
    <3>1. /\ UNCHANGED <<sent, item, wire, printing, pc>>
          /\ thread # "dispatch" /\ thread' # "dispatch"
          /\ sock' \in {sock, "invalid"}
        BY <2>4 DEF ReaderTest, ReaderReadPush, ReaderReadFails, ReaderPush, ReaderServe,
                    ReaderSignal
    <3>. QED
        BY <1>1, <2>0, <3>1
  <2>. QED
      BY <1>6, <2>1, <2>2, <2>3, <2>4 DEF ThreadFunc
<1>7. CASE External
  <2>1. UNCHANGED <<lists, calls, reader, wire, sock, printing, pc>>
      BY <1>7 DEF External, ServerAnswer, ServerPush, ServerClose, LinkReset
  <2>2. ~UpdateConnect
      BY <2>1 DEF UpdateConnect
  <2>. QED
      BY <1>1, <2>1, <2>2
<1>. QED
    BY <1>2, <1>3, <1>4, <1>5, <1>6, <1>7 DEF Next

-----------------------------------------------------------------------------
(* One connection                                                          *)

\* What is on its way to the reader belongs to the present connection, and what
\* is in the sent list was written to this connection or to none.
WireHere ==
    /\ \A k \in 1 .. Len(wire) : carrier[wire[k]] = conns
    /\ \A k \in 1 .. Len(sent) : carrier[sent[k]] \in {0, conns}
    /\ thread = "dispatch" => carrier[item] = conns
    /\ sock # "null" => conns # 0

\* The requests that have been given a response.
Pairs == ToSet(hand) \union ToSet(served) \union ToSet(cur) \union ToSet(calls)

\* The response came on some connection, the one the request was written to if it
\* was written at all, and is not for an earlier request unless the parser gave
\* up on that connection.
Contained(p) ==
    /\ carrier[p.reply] # 0
    /\ carrier[p.reply] \notin torn => p.reply >= p.id
    /\ carrier[p.id] \in {0, carrier[p.reply]}
    /\ p.id < nextRequestID /\ p.id \notin ToSet(unsent)
    /\ pc = "print" /\ p.id = printing => carrier[p.reply] = conns

PairsInv == \A p \in Pairs : Contained(p)

LEMMA HereFrame ==
    ASSUME WireHere, UNCHANGED <<wire, sent, item, carrier, conns>>,
           (thread' = "dispatch") = (thread = "dispatch"),
           sock' # "null" => sock # "null"
    PROVE  WireHere'
    BY DEF WireHere

\* A request still to be written has no connection.
LEMMA LeftUnwritten ==
    ASSUME TypeOK, WrittenFirst, NEW u \in Left, u \in Ids
    PROVE  carrier[u] = 0
<1>1. ~ (u < u)
    BY DEF Ids
<1>. QED
    BY <1>1 DEF WrittenFirst

LEMMA SendHere ==
    ASSUME TypeOK, WireHere, WrittenFirst, UpdateSend
    PROVE  WireHere'
<1>. USE DEF callers, lists, reader, network, history, cancels, object, aside
<1>1. /\ sent \in Seq(Ids) /\ unsent \in Seq(Ids) /\ unsent # <<>>
      /\ pc = "send" /\ sent' = Append(sent, Head(unsent))
      /\ UNCHANGED <<wire, item, thread, carrier, conns, sock>>
    BY DEF UpdateSend, TypeOK
<1>2. Head(unsent) \in Ids /\ Head(unsent) \in Left
  <2>1. /\ Head(unsent) \in Ids
        /\ ToSet(unsent) = {Head(unsent)} \union ToSet(Tail(unsent))
      BY <1>1, HeadAndTail
  <2>. QED
      BY <2>1 DEF Left
<1>3. carrier[Head(unsent)] = 0
    BY <1>2, LeftUnwritten
<1>4. /\ Len(sent') = Len(sent) + 1 /\ Len(sent) \in Nat
      /\ sent'[Len(sent) + 1] = Head(unsent)
      /\ \A i \in 1 .. Len(sent) : sent'[i] = sent[i]
    BY <1>1, <1>2, AppendProperties, LenProperties
<1>5. \A k \in 1 .. Len(sent') : carrier[sent'[k]] \in {0, conns}
  <2>1. ASSUME NEW k \in 1 .. Len(sent') PROVE carrier[sent'[k]] \in {0, conns}
    <3>1. k \in 1 .. Len(sent) \/ k = Len(sent) + 1
        BY <1>4
    <3>2. CASE k \in 1 .. Len(sent)
        BY <1>4, <3>2 DEF WireHere
    <3>3. CASE k = Len(sent) + 1
        BY <1>3, <1>4, <3>3
    <3>. QED
        BY <3>1, <3>2, <3>3
  <2>. QED
      BY <2>1
<1>. QED
    BY <1>1, <1>5 DEF WireHere

LEMMA PrintHere ==
    ASSUME TypeOK, StreamInv, WireHere, UpdatePrint
    PROVE  WireHere'
<1>. USE DEF callers, lists, reader, network, history, cancels, object, aside
<1>1. /\ pc = "print" /\ printing \in Ids /\ carrier \in [Ids -> Nat] /\ conns # 0
      /\ wire \in Seq(Ids) /\ sent \in Seq(Ids)
      /\ thread = "dispatch" => item \in Ids
      /\ UNCHANGED <<sent, item, thread, conns>>
    BY DEF UpdatePrint, StreamInv, WireHere, TypeOK
<1>2. CASE wire' = Append(wire, printing) /\ carrier' = [carrier EXCEPT ![printing] = conns]
  <2>1. /\ carrier'[printing] = conns
        /\ \A i \in Ids : carrier'[i] = carrier[i] \/ carrier'[i] = conns
      BY <1>1, <1>2
  <2>2. /\ Len(wire') = Len(wire) + 1 /\ wire'[Len(wire) + 1] = printing /\ Len(wire) \in Nat
        /\ \A i \in 1 .. Len(wire) : wire'[i] = wire[i]
      BY <1>1, <1>2, AppendProperties, LenProperties
  <2>3. \A k \in 1 .. Len(wire) : wire[k] \in Ids
      BY <1>1, ElementOfSeq
  <2>4. \A k \in 1 .. Len(sent) : sent[k] \in Ids
      BY <1>1, ElementOfSeq
  <2>5. \A k \in 1 .. Len(wire') : carrier'[wire'[k]] = conns
    <3>1. ASSUME NEW k \in 1 .. Len(wire') PROVE carrier'[wire'[k]] = conns
      <4>1. k \in 1 .. Len(wire) \/ k = Len(wire) + 1
          BY <2>2
      <4>2. CASE k \in 1 .. Len(wire)
          BY <2>1, <2>2, <2>3, <4>2 DEF WireHere
      <4>3. CASE k = Len(wire) + 1
          BY <2>1, <2>2, <4>3
      <4>. QED
          BY <4>1, <4>2, <4>3
    <3>. QED
        BY <3>1
  <2>6. \A k \in 1 .. Len(sent) : carrier'[sent[k]] \in {0, conns}
      BY <2>1, <2>4 DEF WireHere
  <2>7. thread = "dispatch" => carrier'[item] = conns
      BY <1>1, <2>1 DEF WireHere
  <2>. QED
      BY <1>1, <2>5, <2>6, <2>7 DEF WireHere
<1>3. CASE UNCHANGED <<wire, carrier>>
    BY <1>1, <1>3 DEF WireHere
<1>. QED
    BY <1>2, <1>3 DEF UpdatePrint

LEMMA ReplyHere ==
    ASSUME TypeOK, WireHere, ReaderReadReply
    PROVE  WireHere'
<1>. USE DEF callers, lists, reader, network, history, cancels, object, aside
<1>1. /\ wire' = Tail(wire) /\ answered > 0
      /\ thread' # "dispatch" \/ item' = Head(wire)
      /\ UNCHANGED <<sent, carrier, conns, sock>>
    BY DEF ReaderReadReply
<1>2. Len(wire) \in Nat \ {0} /\ wire # <<>>
    BY <1>1, LenProperties, EmptySeq DEF TypeOK
<1>3. /\ Len(wire') = Len(wire) - 1 /\ Head(wire) = wire[1]
      /\ \A k \in 1 .. Len(wire') : wire'[k] = wire[k + 1]
    BY <1>1, <1>2, HeadTailProperties DEF TypeOK
<1>4. \A k \in 1 .. Len(wire') : k + 1 \in 1 .. Len(wire)
    BY <1>2, <1>3
<1>5. 1 \in 1 .. Len(wire)
    BY <1>2
<1>. QED
    BY <1>1, <1>3, <1>4, <1>5 DEF WireHere

LEMMA MisreadHere ==
    ASSUME TypeOK, WireHere, ReaderMisreads
    PROVE  WireHere'
<1>. USE DEF callers, lists, reader, network, history, cancels, object, aside
<1>1. /\ thread' # "dispatch" \/ carrier[item'] = conns
      /\ UNCHANGED <<sent, carrier, conns, sock>>
    BY DEF ReaderMisreads
<1>2. PICK n \in 0 .. answered : wire' = SubSeq(wire, n + 1, Len(wire))
    BY DEF ReaderMisreads
<1>3. /\ wire \in Seq(Ids) /\ Len(wire) \in Nat /\ n \in 0 .. Len(wire) /\ n \in Nat
      /\ n + 1 \in Nat /\ n + 1 >= 1 /\ Len(wire) <= Len(wire)
    BY LenProperties DEF TypeOK
<1>4. /\ Len(wire') = IF n + 1 <= Len(wire) THEN Len(wire) - (n + 1) + 1 ELSE 0
      /\ \A k \in 1 .. Len(wire) - (n + 1) + 1 : wire'[k] = wire[n + 1 + k - 1]
    BY <1>2, <1>3, SubSeqOfIds
<1>5. ASSUME NEW k \in 1 .. Len(wire') PROVE carrier[wire'[k]] = conns
  <2>1. k \in 1 .. Len(wire) - (n + 1) + 1 /\ n + 1 + k - 1 \in 1 .. Len(wire)
      BY <1>3, <1>4
  <2>. QED
      BY <1>4, <2>1 DEF WireHere
<1>. QED
    BY <1>1, <1>5 DEF WireHere

LEMMA DispatchHere ==
    ASSUME TypeOK, WireHere, ReaderDispatch
    PROVE  WireHere'
<1>. USE DEF callers, lists, reader, network, history, cancels, object, aside
<1>1. /\ thread' \in {"test", "between"} /\ UNCHANGED <<wire, carrier, conns, sock>>
      /\ sent' = sent \/ (sent # <<>> /\ sent' = Tail(sent))
    BY DEF ReaderDispatch
<1>2. CASE sent' = sent
    BY <1>1, <1>2 DEF WireHere
<1>3. CASE sent # <<>> /\ sent' = Tail(sent)
  <2>1. Len(sent) \in Nat \ {0}
      BY <1>3, LenProperties, EmptySeq DEF TypeOK
  <2>2. Len(sent') = Len(sent) - 1 /\ \A k \in 1 .. Len(sent') : sent'[k] = sent[k + 1]
      BY <1>3, HeadTailProperties DEF TypeOK
  <2>3. \A k \in 1 .. Len(sent') : k + 1 \in 1 .. Len(sent)
      BY <2>1, <2>2
  <2>. QED
      BY <1>1, <2>2, <2>3 DEF WireHere
<1>. QED
    BY <1>1, <1>2, <1>3

LEMMA HereStep ==
    ASSUME TypeOK, StreamInv, NothingSent, WrittenFirst, WireHere, [Next]_vars
    PROVE  WireHere'
<1>. USE DEF callers, lists, reader, network, history, cancels, object, aside, outside
<1>1. CASE UNCHANGED vars
    BY <1>1, HereFrame DEF vars
<1>2. CASE Call \/ Cancelling
  <2>1. UNCHANGED <<lists, carrier, reader, network, sock>>
      BY <1>2 DEF Call, MakeRequestAsync, MakeTransactionRequestAsync, MakeRequestSync,
                  Enqueue, SyncReturn, SyncTimeout, Flush, FlushReturn, CancelAsyncRequest,
                  Cancelling, CancelUnsent, CancelSent, CancelServed
  <2>. QED
      BY <2>1, HereFrame
<1>3. CASE UpdateConnect
  <2>1. sent = <<>> /\ wire = <<>> /\ thread # "dispatch"
      BY <1>3 DEF UpdateConnect, NothingSent, StreamInv, ReaderHasStream, ReaderRuns
  <2>2. UNCHANGED <<sent, wire, thread>> /\ conns' # 0
      BY <1>3 DEF UpdateConnect, TypeOK
  <2>. QED
      BY <2>1, <2>2 DEF WireHere
<1>4. CASE UpdateLost \/ UpdateJoined
  <2>1. CASE Purge /\ thread' # "dispatch"
      BY <2>1 DEF Purge, WireHere
  <2>2. CASE UNCHANGED <<object, aside, reader, network, sock>>
      BY <2>2, HereFrame
  <2>. QED
      BY <1>4, <2>1, <2>2 DEF UpdateLost, UpdateJoined, ReaderRuns
<1>5. CASE UpdateSend
    BY <1>5, SendHere
<1>6. CASE UpdatePrint
    BY <1>6, PrintHere
<1>7. CASE \/ UpdateServe \/ UpdateDealloc \/ UpdateSpawn \/ UpdateThread \/ UpdateTake
           \/ UpdateMessage
  <2>1. /\ UNCHANGED <<sent, carrier, item, wire, conns, sock>>
        /\ (thread' = "dispatch") = (thread = "dispatch")
      BY <1>7 DEF UpdateServe, UpdateDealloc, UpdateSpawn, UpdateThread, UpdateTake,
                  UpdateMessage
  <2>. QED
      BY <2>1, HereFrame
<1>8. CASE \/ Update \/ UpdateNotConnected \/ UpdateLive \/ UpdateSpawnFails \/ UpdateSent
           \/ UpdateServed \/ UpdateDone
  <2>1. UNCHANGED <<object, aside, reader, network, sock>>
      BY <1>8 DEF Update, UpdateNotConnected, UpdateLive, UpdateSpawnFails, UpdateSent,
                  UpdateServed, UpdateDone, Goto
  <2>. QED
      BY <2>1, HereFrame
<1>9. CASE ReaderReadReply
    BY <1>9, ReplyHere
<1>10. CASE ReaderMisreads
    BY <1>10, MisreadHere
<1>11. CASE ReaderDispatch
    BY <1>11, DispatchHere
<1>12. CASE \/ ReaderTest \/ ReaderReadPush \/ ReaderReadFails \/ ReaderPush
            \/ ReaderServe \/ ReaderSignal
  <2>1. /\ UNCHANGED <<sent, carrier, item, wire, conns>>
        /\ thread # "dispatch" /\ thread' # "dispatch"
      BY <1>12 DEF ReaderTest, ReaderReadPush, ReaderReadFails, ReaderPush, ReaderServe,
                   ReaderSignal
  <2>2. sock' = sock \/ thread = "read"
      BY <1>12 DEF ReaderTest, ReaderReadPush, ReaderReadFails, ReaderPush, ReaderServe,
                   ReaderSignal
  <2>3. thread = "read" => sock # "null"
      BY DEF StreamInv, ReaderHasStream, ReaderRuns
  <2>. QED
      BY <2>1, <2>2, <2>3, HereFrame
<1>13. CASE External
  <2>1. UNCHANGED <<lists, carrier, reader, wire, conns, sock>>
      BY <1>13 DEF External, ServerAnswer, ServerPush, ServerClose, LinkReset
  <2>. QED
      BY <2>1, HereFrame
<1>. QED
    BY <1>1, <1>2, <1>3, <1>4, <1>5, <1>6, <1>7, <1>8, <1>9, <1>10, <1>11, <1>12, <1>13
    DEF Next, Updating, ThreadFunc

\* What is known of a request with a response stays so: the connection it was
\* written to is settled, or it is being written to the one the response came on.
LEMMA ContainedFrame ==
    ASSUME NEW p \in Answered, Contained(p),
           torn \subseteq torn', UNCHANGED <<carrier, nextRequestID, printing>>,
           ToSet(unsent') \subseteq ToSet(unsent),
           pc' = "print" => pc = "print" /\ conns' = conns
    PROVE  Contained(p)'
    BY DEF Contained

LEMMA EnqueueContained ==
    ASSUME TypeOK, NEW n \in Nat, Enqueue(n), UNCHANGED torn, pc' # "print",
           NEW p \in Answered, Contained(p)
    PROVE  Contained(p)'
<1>. USE DEF callers, lists, reader, network, history, cancels, object, aside
<1>1. nextRequestID \in Nat /\ nextRequestID + n <= MaxRequests
    BY DEF TypeOK, Enqueue
<1>2. PICK new \in Seq(Ids) :
          /\ new = NewRequests(n)
          /\ ToSet(new) = nextRequestID .. nextRequestID + n - 1
    BY <1>1, NewInOrder
<1>3. unsent' = unsent \o new
    BY <1>2 DEF Enqueue
<1>4. ToSet(unsent \o new) = ToSet(unsent) \union ToSet(new)
    BY ToSetConcat DEF TypeOK
<1>5. p.id \in Int /\ p.id < nextRequestID /\ p.id \notin ToSet(unsent)
    BY DEF Contained, Answered, Ids
<1>6. p.id < nextRequestID + n /\ p.id \notin ToSet(unsent')
    BY <1>1, <1>2, <1>3, <1>4, <1>5
<1>7. UNCHANGED carrier /\ nextRequestID' = nextRequestID + n
    BY DEF Enqueue
<1>. QED
    BY <1>6, <1>7 DEF Contained

LEMMA WithdrawContained ==
    ASSUME TypeOK, CancelUnsent, NEW p \in Answered, Contained(p)
    PROVE  Contained(p)'
<1>. USE DEF callers, lists, reader, network, history, cancels, object, aside
<1>1. PICK i \in DOMAIN unsent : unsent[i] = cancel.id /\ unsent' = RemoveAt(unsent, i)
    BY DEF CancelUnsent
<1>2. PICK x \in Seq(Ids), z \in Seq(Ids) :
          unsent = (x \o <<unsent[i]>>) \o z /\ unsent' = x \o z
  <2>1. unsent \in Seq(Ids)
      BY DEF TypeOK
  <2>2. \E x, z \in Seq(Ids) :
            unsent = (x \o <<unsent[i]>>) \o z /\ RemoveAt(unsent, i) = x \o z
      BY <2>1, WithoutOne
  <2>. QED
      BY <1>1, <2>2
<1>3. PICK y \in Seq(Ids) : y = <<unsent[i]>>
  <2>1. unsent[i] \in Ids
      BY LenProperties, ElementOfSeq DEF TypeOK
  <2>. QED
      BY <2>1, SingletonType
<1>4. PICK xy \in Seq(Ids) : xy = x \o y
    BY ConcatProperties
<1>5. ToSet(xy) = ToSet(x) \union ToSet(y)
    BY <1>4, ToSetConcat
<1>6. ToSet(xy \o z) = ToSet(xy) \union ToSet(z)
    BY ToSetConcat
<1>7. ToSet(x \o z) = ToSet(x) \union ToSet(z)
    BY ToSetConcat
<1>8. ToSet(unsent') \subseteq ToSet(unsent)
    BY <1>2, <1>3, <1>4, <1>5, <1>6, <1>7
<1>9. UNCHANGED <<carrier, nextRequestID, printing, torn>> /\ pc' # "print"
    BY DEF CancelUnsent, CancelReturns, TypeOK, UserPCs
<1>. QED
    BY <1>8, <1>9, ContainedFrame

LEMMA SendContained ==
    ASSUME TypeOK, UpdateSend, NEW p \in Answered, Contained(p)
    PROVE  Contained(p)'
<1>. USE DEF callers, lists, reader, network, history, cancels, object, aside
<1>1. /\ unsent \in Seq(Ids) /\ unsent # <<>>
      /\ printing' = Head(unsent) /\ unsent' = Tail(unsent)
      /\ UNCHANGED <<carrier, nextRequestID, torn, conns>>
    BY DEF UpdateSend, TypeOK
<1>2. ToSet(unsent) = {Head(unsent)} \union ToSet(Tail(unsent))
    BY <1>1, HeadAndTail
<1>3. p.id # printing' /\ p.id \notin ToSet(unsent')
    BY <1>1, <1>2 DEF Contained
<1>. QED
    BY <1>1, <1>3 DEF Contained

LEMMA PrintContained ==
    ASSUME TypeOK, WrittenFirst, UpdatePrint, NEW p \in Answered, Contained(p)
    PROVE  Contained(p)'
<1>. USE DEF callers, lists, reader, network, history, cancels, object, aside
<1>1. /\ pc = "print" /\ pc' = "send" /\ printing \in Ids /\ carrier \in [Ids -> Nat]
      /\ UNCHANGED <<unsent, nextRequestID, torn, conns>>
      /\ p.id \in Ids /\ p.reply \in Ids
    BY DEF UpdatePrint, TypeOK, Answered
<1>2. CASE carrier' = [carrier EXCEPT ![printing] = conns]
  <2>1. /\ carrier'[printing] = conns
        /\ \A i \in Ids : i # printing => carrier'[i] = carrier[i]
      BY <1>1, <1>2
  <2>2. carrier[printing] = 0
      BY <1>1, LeftUnwritten DEF Left
  <2>3. p.reply # printing /\ carrier'[p.reply] = carrier[p.reply]
      BY <1>1, <2>1, <2>2 DEF Contained
  <2>4. carrier'[p.id] \in {0, carrier'[p.reply]}
    <3>1. CASE p.id = printing
        BY <1>1, <2>1, <2>3, <3>1 DEF Contained
    <3>2. CASE p.id # printing
        BY <1>1, <2>1, <2>3, <3>2 DEF Contained
    <3>. QED
        BY <3>1, <3>2
  <2>. QED
      BY <1>1, <2>3, <2>4 DEF Contained
<1>3. CASE UNCHANGED carrier
    BY <1>1, <1>3 DEF Contained
<1>. QED
    BY <1>2, <1>3 DEF UpdatePrint

LEMMA ContainedStep ==
    ASSUME TypeOK, WrittenFirst, [Next]_vars, NEW p \in Answered, Contained(p)
    PROVE  Contained(p)'
<1>. USE DEF callers, lists, reader, network, history, cancels, object, aside, outside
<1>0. torn \subseteq torn'
    BY TornGrows
<1>1. CASE UNCHANGED vars
    BY <1>1, ContainedFrame DEF vars
<1>2. CASE MakeRequestAsync \/ MakeTransactionRequestAsync \/ MakeRequestSync
  <2>1. pc' # "print" /\ UNCHANGED torn
      BY <1>2 DEF MakeRequestAsync, MakeTransactionRequestAsync, MakeRequestSync, Enqueue,
                  UserCode, UserPCs
  <2>2. PICK n \in {1, TxnCommands + 2} : Enqueue(n)
      BY <1>2 DEF MakeRequestAsync, MakeTransactionRequestAsync, MakeRequestSync
  <2>3. n \in Nat
      BY BoundsAssumption
  <2>. QED
      BY <2>1, <2>2, <2>3, EnqueueContained
<1>3. CASE SyncReturn \/ SyncTimeout \/ Flush \/ FlushReturn \/ CancelAsyncRequest
  <2>1. UNCHANGED <<carrier, nextRequestID, printing, unsent>> /\ pc' # "print"
      BY <1>3 DEF SyncReturn, SyncTimeout, Flush, FlushReturn, CancelAsyncRequest
  <2>. QED
      BY <1>0, <2>1, ContainedFrame
<1>4. CASE CancelUnsent
    BY <1>4, WithdrawContained
<1>5. CASE CancelSent \/ CancelServed
  <2>1. UNCHANGED <<carrier, nextRequestID, printing, unsent>> /\ pc' # "print"
      BY <1>5 DEF CancelSent, CancelServed, CancelReturns, TypeOK, UserPCs
  <2>. QED
      BY <1>0, <2>1, ContainedFrame
<1>6. CASE UpdateSend
    BY <1>6, SendContained
<1>7. CASE UpdatePrint
    BY <1>7, PrintContained
<1>8. CASE \/ Update \/ UpdateConnect \/ UpdateNotConnected \/ UpdateLive
           \/ UpdateLost \/ UpdateJoined
           \/ UpdateSpawn \/ UpdateSpawnFails \/ UpdateThread \/ UpdateSent
  <2>1. UNCHANGED <<carrier, nextRequestID, printing, unsent>> /\ pc' # "print"
      BY <1>8 DEF Update, UpdateConnect, UpdateNotConnected, UpdateLive, UpdateLost,
                  UpdateJoined, Purge, UpdateSpawn, UpdateSpawnFails, UpdateThread,
                  UpdateSent, Goto
  <2>. QED
      BY <1>0, <2>1, ContainedFrame
<1>9. CASE \/ UpdateTake \/ UpdateServe \/ UpdateDealloc \/ UpdateServed
           \/ UpdateMessage \/ UpdateDone
  <2>1. UNCHANGED <<carrier, nextRequestID, printing, unsent>> /\ pc' # "print"
      BY <1>9 DEF UpdateTake, UpdateServe, UpdateDealloc, UpdateServed, UpdateMessage,
                  UpdateDone, Goto
  <2>. QED
      BY <1>0, <2>1, ContainedFrame
<1>10. CASE ThreadFunc
  <2>1. UNCHANGED <<carrier, nextRequestID, printing, unsent, pc, conns>>
      BY <1>10 DEF ThreadFunc, ReaderTest, ReaderReadReply, ReaderMisreads, ReaderReadPush,
                   ReaderReadFails, ReaderPush, ReaderDispatch, ReaderServe, ReaderSignal
  <2>. QED
      BY <1>0, <2>1, ContainedFrame
<1>11. CASE External
  <2>1. UNCHANGED <<carrier, nextRequestID, printing, unsent, pc, conns>>
      BY <1>11 DEF External, ServerAnswer, ServerPush, ServerClose, LinkReset
  <2>. QED
      BY <1>0, <2>1, ContainedFrame
<1>. QED
    BY <1>1, <1>2, <1>3, <1>4, <1>5, <1>6, <1>7, <1>8, <1>9, <1>10, <1>11
    DEF Next, Call, Cancelling, Updating

\* The lists of requests with a response hold no others than before.
LEMMA PairsFrame ==
    ASSUME UNCHANGED <<hand, served, cur, calls>>
    PROVE  Pairs' = Pairs
    BY DEF Pairs

\* Requests only join those with a response where the reader gives it to them.
LEMMA PairsStep ==
    ASSUME TypeOK, [Next]_vars
    PROVE  \A p \in Pairs' :
               \/ p \in Pairs
               \/ /\ ReaderDispatch /\ sent # <<>>
                  /\ p = [id |-> Head(sent), reply |-> item]
<1>. USE DEF callers, lists, reader, network, history, cancels, object, aside, outside
<1>1. CASE UNCHANGED vars \/ Call \/ Cancelling \/ Update \/ External
  <2>1. UNCHANGED <<hand, served, cur, calls>>
      BY <1>1 DEF vars, Call, MakeRequestAsync, MakeTransactionRequestAsync,
                  MakeRequestSync, Enqueue, SyncReturn, SyncTimeout, Flush, FlushReturn,
                  CancelAsyncRequest, Cancelling, CancelUnsent, CancelSent, CancelServed,
                  Update, Goto, External, ServerAnswer, ServerPush, ServerClose, LinkReset
  <2>. QED
      BY <2>1, PairsFrame
<1>2. CASE \/ UpdateConnect \/ UpdateNotConnected \/ UpdateLive \/ UpdateLost \/ UpdateJoined
           \/ UpdateSpawn \/ UpdateSpawnFails \/ UpdateThread \/ UpdateSend \/ UpdatePrint
           \/ UpdateSent \/ UpdateTake \/ UpdateServed \/ UpdateMessage \/ UpdateDone
  <2>1. UNCHANGED <<hand, served, cur, calls>>
      BY <1>2 DEF UpdateConnect, UpdateNotConnected, UpdateLive, UpdateLost, UpdateJoined,
                  Purge, UpdateSpawn, UpdateSpawnFails, UpdateThread, UpdateSend, UpdatePrint,
                  UpdateSent, UpdateTake, UpdateServed, UpdateMessage, UpdateDone, Goto
  <2>. QED
      BY <2>1, PairsFrame
<1>3. CASE UpdateServe
  <2>1. CASE served = <<>>
      BY <1>3, <2>1, PairsFrame DEF UpdateServe
  <2>2. CASE served # <<>>
    <3>1. /\ cur' = <<Head(served)>> /\ served' = Tail(served) /\ hand' = hand
          /\ calls' = calls \/ calls' = Append(calls, Head(served))
        BY <1>3, <2>2 DEF UpdateServe
    <3>2. /\ served \in Seq(Answered) /\ calls \in Seq(Answered)
          /\ ToSet(served) = {Head(served)} \union ToSet(Tail(served))
          /\ Head(served) \in Answered
        BY <2>2, HeadAndTail DEF TypeOK
    <3>3. ToSet(Append(calls, Head(served))) \subseteq ToSet(calls) \union {Head(served)}
      <4>1. /\ DOMAIN Append(calls, Head(served)) = 1 .. Len(calls) + 1
            /\ DOMAIN calls = 1 .. Len(calls) /\ Len(calls) \in Nat
            /\ \A i \in 1 .. Len(calls) : Append(calls, Head(served))[i] = calls[i]
            /\ Append(calls, Head(served))[Len(calls) + 1] = Head(served)
          BY <3>2, AppendProperties, LenProperties
      <4>. QED
          BY <4>1 DEF ToSet
    <3>4. ToSet(<<Head(served)>>) = {Head(served)}
        BY DEF ToSet
    <3>. QED
        BY <3>1, <3>2, <3>3, <3>4 DEF Pairs
  <2>. QED
      BY <2>1, <2>2
<1>4. CASE UpdateDealloc
  <2>1. ToSet(<<>>) = {}
      BY DEF ToSet
  <2>. QED
      BY <1>4, <2>1 DEF UpdateDealloc, Pairs
<1>5. CASE ReaderDispatch
  <2>1. CASE sent = <<>>
      BY <1>5, <2>1, PairsFrame DEF ReaderDispatch
  <2>2. CASE sent # <<>>
    <3>1. /\ hand' = <<[id |-> Head(sent), reply |-> item]>>
          /\ UNCHANGED <<served, cur, calls>>
        BY <1>5, <2>2 DEF ReaderDispatch
    <3>2. ToSet(<<[id |-> Head(sent), reply |-> item]>>) = {[id |-> Head(sent), reply |-> item]}
        BY DEF ToSet
    <3>. QED
        BY <1>5, <2>2, <3>1, <3>2 DEF Pairs
  <2>. QED
      BY <2>1, <2>2
<1>6. CASE ReaderServe
  <2>1. ToSet(served \o hand) = ToSet(served) \union ToSet(hand)
      BY ToSetConcat DEF TypeOK
  <2>2. ToSet(<<>>) = {}
      BY DEF ToSet
  <2>. QED
      BY <1>6, <2>1, <2>2 DEF ReaderServe, Pairs
<1>7. CASE \/ ReaderTest \/ ReaderReadReply \/ ReaderMisreads \/ ReaderReadPush
           \/ ReaderReadFails \/ ReaderPush \/ ReaderSignal
  <2>1. UNCHANGED <<hand, served, cur, calls>>
      BY <1>7 DEF ReaderTest, ReaderReadReply, ReaderMisreads, ReaderReadPush,
                  ReaderReadFails, ReaderPush, ReaderSignal
  <2>. QED
      BY <2>1, PairsFrame
<1>. QED
    BY <1>1, <1>2, <1>3, <1>4, <1>5, <1>6, <1>7 DEF Next, Updating, ThreadFunc

LEMMA PairsType ==
    ASSUME TypeOK
    PROVE  Pairs \subseteq Answered
<1>1. \A s \in Seq(Answered) : ToSet(s) \subseteq Answered
  <2>. SUFFICES ASSUME NEW s \in Seq(Answered), NEW i \in DOMAIN s PROVE s[i] \in Answered
      BY DEF ToSet
  <2>. QED
      BY LenProperties, ElementOfSeq
<1>. QED
    BY <1>1 DEF Pairs, TypeOK

\* The request that is given a response is given one from its own connection.
LEMMA DispatchContained ==
    ASSUME TypeOK, StreamInv, OrderInv, LateInv, WireHere, ReaderDispatch, sent # <<>>,
           NEW p \in Answered, p.id = Head(sent), p.reply = item
    PROVE  Contained(p)'
<1>. USE DEF callers, lists, reader, network, history, cancels, object, aside
<1>1. /\ thread = "dispatch" /\ item \in Ids
      /\ UNCHANGED <<carrier, torn, nextRequestID, unsent, pc, printing, conns>>
    BY DEF ReaderDispatch, TypeOK
<1>2. carrier[item] = conns /\ conns # 0
    BY <1>1 DEF WireHere, StreamInv, ReaderHasStream, ReaderRuns
<1>3. /\ Head(sent) = sent[1] /\ 1 \in 1 .. Len(sent)
      /\ Head(sent) \in ToSet(sent) /\ Head(sent) \in Ids
  <2>1. sent \in Seq(Ids) /\ Len(sent) \in Nat \ {0}
      BY EmptySeq, LenProperties DEF TypeOK
  <2>2. Head(sent) \in Ids /\ ToSet(sent) = {Head(sent)} \union ToSet(Tail(sent))
      BY <2>1, HeadAndTail
  <2>3. Head(sent) = sent[1]
      BY <2>1, HeadTailProperties
  <2>4. 1 \in 1 .. Len(sent)
      BY <2>1
  <2>. QED
      BY <2>2, <2>3, <2>4
<1>4. conns \notin torn => item >= Head(sent)
    BY <1>1, <1>3 DEF LateInv, WireLate
<1>5. carrier[Head(sent)] \in {0, conns}
    BY <1>3 DEF WireHere
<1>6. Head(sent) \notin ToSet(unsent)
  <2>1. ~ (Head(sent) < Head(sent))
      BY <1>3 DEF Ids
  <2>. QED
      BY <1>3, <2>1, SentInOrder DEF Below
<1>7. Head(sent) < nextRequestID
  <2>1. Head(sent) \in ToSet(Queue)
      BY <1>3, QueueType
  <2>. QED
      BY <2>1 DEF OrderInv
<1>8. /\ carrier'[p.reply] = conns /\ carrier'[p.id] \in {0, conns}
      /\ conns \notin torn => p.reply >= p.id
    BY <1>1, <1>2, <1>4, <1>5
<1>9. p.id < nextRequestID' /\ p.id \notin ToSet(unsent')
    BY <1>1, <1>6, <1>7
<1>. QED
    BY <1>1, <1>2, <1>8, <1>9 DEF Contained

LEMMA ContainedPairs ==
    ASSUME TypeOK, StreamInv, OrderInv, LateInv, WireHere, WrittenFirst, PairsInv, [Next]_vars
    PROVE  PairsInv'
<1>1. ASSUME NEW p \in Pairs' PROVE Contained(p)'
  <2>1. CASE p \in Pairs
    <3>1. PICK q \in Answered : q = p /\ Contained(q)
        BY <2>1, PairsType DEF PairsInv
    <3>2. Contained(q)'
        BY <3>1, ContainedStep
    <3>. QED
        BY <3>1, <3>2
  <2>2. CASE /\ ReaderDispatch /\ sent # <<>>
             /\ p = [id |-> Head(sent), reply |-> item]
    <3>1. p \in Answered
      <4>1. Head(sent) \in Ids /\ item \in Ids
        <5>1. sent \in Seq(Ids)
            BY DEF TypeOK
        <5>2. Head(sent) \in Ids
            BY <2>2, <5>1, HeadAndTail
        <5>3. item \in Ids
            BY <2>2 DEF ReaderDispatch, TypeOK
        <5>. QED
            BY <5>2, <5>3
      <4>. QED
          BY <2>2, <4>1 DEF Answered
    <3>2. p.id = Head(sent) /\ p.reply = item
        BY <2>2
    <3>. QED
        BY <2>2, <3>1, <3>2, DispatchContained
  <2>. QED
      BY <2>1, <2>2, PairsStep
<1>. QED
    BY <1>1 DEF PairsInv

\* A response the reader does not take for one shifts those that follow it on the
\* connection to earlier requests.  Once the parser has given up in the middle of
\* one, any part of what the server sends may be given to any request, and may
\* find none at work; but only on that connection, which the purge separates from
\* every other.  This holds however ThreadFunc classifies what it reads.
THEOREM MisreadsCorrect == Spec => [](MisreadsContained /\ ResponseAwaited)
<1>1. Init => StreamInv /\ LateInv /\ WireHere /\ PairsInv /\ TransactionInv
  <2>. SUFFICES ASSUME Init PROVE StreamInv /\ LateInv /\ WireHere /\ PairsInv /\ TransactionInv
      OBVIOUS
  <2>1. StreamInv /\ LateInv
      BY DEF Init, LateInv, WireLate, NothingSent, One, StreamInv, ReaderHasStream, ReaderRuns
  <2>2. WireHere
      BY DEF Init, WireHere
  <2>3. Pairs = {}
      BY DEF Init, Pairs, ToSet
  <2>4. TransactionInv
      BY TransactionInit
  <2>. QED
      BY <2>1, <2>2, <2>3, <2>4 DEF PairsInv
<1>2. /\ TypeOK /\ StreamInv /\ OrderInv /\ LateInv /\ WireHere /\ PairsInv /\ TransactionInv
      /\ [Next]_vars
      => StreamInv' /\ LateInv' /\ WireHere' /\ PairsInv' /\ TransactionInv'
    BY StreamStep, LateStep, HereStep, ContainedPairs, TransactionStep
    DEF LateInv, TransactionInv
<1>3. TypeOK /\ StreamInv /\ LateInv /\ PairsInv => MisreadsContained /\ ResponseAwaited
  <2>. SUFFICES ASSUME TypeOK, LateInv, PairsInv
                PROVE  MisreadsContained /\ ResponseAwaited
      OBVIOUS
  <2>1. ASSUME NEW i \in DOMAIN calls
        PROVE  /\ carrier[calls[i].reply] \notin torn => calls[i].reply >= calls[i].id
               /\ carrier[calls[i].id] \in {0, carrier[calls[i].reply]}
    <3>1. calls[i] \in Pairs
        BY DEF Pairs, ToSet
    <3>. QED
        BY <3>1 DEF PairsInv, Contained
  <2>2. ASSUME thread = "dispatch", conns \notin torn PROVE sent # <<>>
    <3>1. One(thread = "dispatch") = 1 /\ One(pc = "print") \in {0, 1}
        BY <2>2 DEF One
    <3>2. Len(wire) \in Nat /\ Len(wire) + 1 + One(pc = "print") <= Len(sent)
        BY <2>2, <3>1, LenProperties DEF LateInv, WireLate, TypeOK
    <3>3. Len(sent) # 0
        BY <3>1, <3>2
    <3>. QED
        BY <3>3
  <2>. QED
      BY <2>1, <2>2 DEF MisreadsContained, ResponseAwaited
<1>. QED
    BY <1>1, <1>2, <1>3, QueueCorrect, PTL DEF Spec

=============================================================================
