------------------------- MODULE SimpleClientProofs -------------------------
(***************************************************************************)
(* Theorems about SimpleClient, for every number of requests, messages,    *)
(* cancellations and lost connections.                                     *)
(***************************************************************************)
EXTENDS SimpleClient, SequenceTheorems, TLAPS

-----------------------------------------------------------------------------
(* Sequences                                                               *)

\* What ThreadSafeList::Find unlinks leaves a list of the same kind.
LEMMA RemoveAtType ==
    ASSUME NEW S, NEW s \in Seq(S), NEW i \in DOMAIN s
    PROVE  RemoveAt(s, i) \in Seq(S)
<1>1. i \in 1 .. Len(s)
    BY LenProperties
<1>2. SubSeq(s, 1, i - 1) \in Seq(S)
    BY <1>1, ElementOfSeq, SubSeqProperties
<1>3. SubSeq(s, i + 1, Len(s)) \in Seq(S)
    BY <1>1, ElementOfSeq, LenProperties, SubSeqProperties
<1>. QED
    BY <1>2, <1>3, ConcatProperties DEF RemoveAt

LEMMA SingletonType ==
    ASSUME NEW S, NEW e \in S
    PROVE  <<e>> \in Seq(S)
    OBVIOUS

\* The unsent list after n requests were made at once.
LEMMA EnqueueType ==
    ASSUME TypeOK, NEW n \in Nat, nextRequestID + n <= MaxRequests
    PROVE  unsent \o NewRequests(n) \in Seq(Ids)
<1>1. MaxRequests \in Nat /\ nextRequestID \in 0 .. MaxRequests
    BY BoundsAssumption DEF TypeOK
<1>2. \A i \in 1 .. n : nextRequestID + i - 1 \in Ids
    BY <1>1 DEF Ids
<1>3. NewRequests(n) \in [1 .. n -> Ids]
    BY <1>2 DEF NewRequests
<1>4. NewRequests(n) \in Seq(Ids)
    BY <1>3, SeqDef
<1>. QED
    BY <1>4, ConcatProperties DEF TypeOK

-----------------------------------------------------------------------------
(* Type correctness                                                        *)

LEMMA InitType == Init => TypeOK
    BY BoundsAssumption DEF Init, TypeOK, PCs, UserPCs, NoCancel, Ids, None

\* The two halves of the type invariant: the client and the main thread, ...
ObjectTypes ==
    /\ nextRequestID \in 0 .. MaxRequests /\ inFlight \in Int
    /\ sem \in Nat /\ messages \in Nat
    /\ unsent \in Seq(Ids) /\ sent \in Seq(Ids)
    /\ served \in Seq(Answered) /\ hand \in Seq(Answered) /\ cur \in Seq(Answered)
    /\ pc \in PCs /\ op \in {"none", "flush", "sync"}
    /\ syncID \in Ids \union {None} /\ printing \in Ids \union {None}
    /\ cancel \in [id : Ids \union {None}, pass : 0 .. 2, from : UserPCs]
    /\ noop \subseteq Ids /\ cancelled \subseteq Ids /\ missed \subseteq Ids
    /\ calls \in Seq(Answered) /\ purged \subseteq Ids /\ txns \subseteq Ids
    /\ pc = "print" => printing \in Ids
    /\ pc \in {"cancel", "cancelServed"} => cancel.id \in Ids
    /\ op = "sync" => syncID \in Ids

\* ... and the reader and the connection.
WireTypes ==
    /\ thread \in {"none", "test", "read", "push", "dispatch", "between", "signal", "exited"}
    /\ item \in Ids \union {None}
    /\ sock \in {"null", "open", "invalid"} /\ link \in {"none", "up", "fin", "reset"}
    /\ wire \in Seq(Ids) /\ answered \in 0 .. Len(wire) /\ pushes \in Nat
    /\ carrier \in [Ids -> Nat] /\ conns \in Nat
    /\ torn \subseteq Nat /\ misreads \in Nat
    /\ pushed \in Nat /\ resets \in Nat /\ closes \in Nat
    /\ thread = "dispatch" => item \in Ids

LEMMA TypeParts ==
    /\ TypeOK => ObjectTypes /\ WireTypes
    /\ ObjectTypes' /\ WireTypes' => TypeOK'
<1>1. TypeOK => ObjectTypes
    BY DEF TypeOK, ObjectTypes
<1>2. TypeOK => WireTypes
    BY DEF TypeOK, WireTypes
<1>3. ObjectTypes' /\ WireTypes' => TypeOK'
    BY DEF TypeOK, ObjectTypes, WireTypes
<1>. QED
    BY <1>1, <1>2, <1>3

LEMMA WireFrame ==
    ASSUME WireTypes, UNCHANGED <<reader, network, sock, carrier>>
    PROVE  WireTypes'
    BY DEF WireTypes, reader, network

LEMMA ObjectFrame ==
    ASSUME ObjectTypes, UNCHANGED <<object, cancels, calls, purged, txns, pc, printing>>
    PROVE  ObjectTypes'
    BY DEF ObjectTypes, object, callers, lists, cancels

LEMMA CallType ==
    ASSUME TypeOK, Call
    PROVE  TypeOK'
<1>. USE DEF callers, lists, reader, network, history, cancels, object, aside
<1>. USE BoundsAssumption
<1>1. ASSUME NEW n \in Nat \ {0}, Enqueue(n)
      PROVE  /\ nextRequestID \in Ids
             /\ nextRequestID' \in 0 .. MaxRequests /\ inFlight' \in Int
             /\ unsent' \in Seq(Ids)
  <2>1. unsent' \in Seq(Ids)
      BY <1>1, EnqueueType DEF Enqueue
  <2>2. nextRequestID + n <= MaxRequests /\ nextRequestID' = nextRequestID + n
        /\ inFlight' = inFlight + n
      BY <1>1 DEF Enqueue
  <2>3. nextRequestID \in 0 .. MaxRequests /\ inFlight \in Int
      BY DEF TypeOK
  <2>. QED
      BY <2>1, <2>2, <2>3 DEF Ids
<1>2. CASE MakeRequestAsync
  <2>1. Enqueue(1)
      BY <1>2 DEF MakeRequestAsync
  <2>2. /\ nextRequestID' \in 0 .. MaxRequests /\ inFlight' \in Int
        /\ unsent' \in Seq(Ids)
      BY <2>1, <1>1
  <2>3. WireTypes'
      BY <1>2, TypeParts, WireFrame DEF MakeRequestAsync, Enqueue
  <2>4. ObjectTypes'
    <3>1. ObjectTypes
        BY TypeParts
    <3>. QED
        BY <2>2, <1>2, <3>1 DEF MakeRequestAsync, Enqueue, ObjectTypes
  <2>. QED
      BY <2>3, <2>4, TypeParts
<1>3. CASE MakeTransactionRequestAsync
  <2>1. Enqueue(TxnCommands + 2) /\ TxnCommands + 2 \in Nat \ {0}
      BY <1>3 DEF MakeTransactionRequestAsync
  <2>2. /\ nextRequestID \in Ids
        /\ nextRequestID' \in 0 .. MaxRequests /\ inFlight' \in Int
        /\ unsent' \in Seq(Ids)
      BY <2>1, <1>1
  <2>3. WireTypes'
      BY <1>3, TypeParts, WireFrame DEF MakeTransactionRequestAsync, Enqueue
  <2>4. ObjectTypes'
    <3>1. ObjectTypes
        BY TypeParts
    <3>. QED
        BY <2>2, <1>3, <3>1 DEF MakeTransactionRequestAsync, Enqueue, ObjectTypes
  <2>. QED
      BY <2>3, <2>4, TypeParts
<1>4. CASE MakeRequestSync
  <2>1. Enqueue(1)
      BY <1>4 DEF MakeRequestSync
  <2>2. /\ nextRequestID \in Ids
        /\ nextRequestID' \in 0 .. MaxRequests /\ inFlight' \in Int
        /\ unsent' \in Seq(Ids)
      BY <2>1, <1>1
  <2>3. WireTypes'
      BY <1>4, TypeParts, WireFrame DEF MakeRequestSync, Enqueue
  <2>4. ObjectTypes'
    <3>1. ObjectTypes
        BY TypeParts
    <3>. QED
        BY <2>2, <1>4, <3>1 DEF MakeRequestSync, Enqueue, ObjectTypes, PCs
  <2>. QED
      BY <2>3, <2>4, TypeParts
<1>5. CASE SyncReturn
    BY SMTT(40), <1>5 DEF SyncReturn, TypeOK
<1>6. CASE SyncTimeout
  <2>1. syncID \in Ids
      BY <1>6 DEF SyncTimeout, TypeOK
  <2>2. cancel' \in [id : Ids \union {None}, pass : 0 .. 2, from : UserPCs]
      BY <2>1, <1>6 DEF SyncTimeout, UserPCs
  <2>. QED
      BY SMTT(40), <2>1, <2>2, <1>6 DEF SyncTimeout, TypeOK, PCs
<1>7. CASE Flush
    BY SMTT(40), <1>7 DEF Flush, TypeOK, PCs
<1>8. CASE FlushReturn
    BY SMTT(40), <1>8 DEF FlushReturn, TypeOK
<1>9. CASE CancelAsyncRequest
  <2>1. PICK id \in 0 .. nextRequestID - 1 : cancel' = [id |-> id, pass |-> 1, from |-> pc]
      BY <1>9 DEF CancelAsyncRequest
  <2>2. id \in Ids
    <3>1. nextRequestID \in 0 .. MaxRequests
        BY DEF TypeOK
    <3>. QED
        BY <3>1 DEF Ids
  <2>3. UNCHANGED <<object, reader, network, history, noop, cancelled, missed, sock, printing>>
      BY <1>9 DEF CancelAsyncRequest
  <2>4. pc \in UserPCs /\ pc' = "cancel"
      BY <1>9 DEF CancelAsyncRequest, UserCode
  <2>5. WireTypes'
      BY <2>3, TypeParts, WireFrame
  <2>6. ObjectTypes'
    <3>1. ObjectTypes
        BY TypeParts
    <3>2. cancel' \in [id : Ids \union {None}, pass : 0 .. 2, from : UserPCs] /\ cancel'.id \in Ids
        BY <2>1, <2>2, <2>4
    <3>. QED
        BY <2>3, <2>4, <3>1, <3>2 DEF ObjectTypes, PCs
  <2>. QED
      BY <2>5, <2>6, TypeParts
<1>. QED
    BY <1>2, <1>3, <1>4, <1>5, <1>6, <1>7, <1>8, <1>9 DEF Call

LEMMA CancellingType ==
    ASSUME TypeOK, Cancelling
    PROVE  TypeOK'
<1>. USE DEF callers, lists, reader, network, history, cancels, object, aside
<1>1. ASSUME NEW found \in BOOLEAN, CancelReturns(found), cancel.id \in Ids
      PROVE  /\ cancelled' \subseteq Ids /\ missed' \subseteq Ids
             /\ cancel' \in [id : Ids \union {None}, pass : 0 .. 2, from : UserPCs]
             /\ pc' \in UserPCs
    BY <1>1 DEF CancelReturns, NoCancel, TypeOK, UserPCs
<1>2. CASE CancelUnsent
  <2>1. CancelReturns(TRUE) /\ cancel.id \in Ids
      BY <1>2 DEF CancelUnsent, TypeOK
  <2>2. /\ cancelled' \subseteq Ids /\ missed' \subseteq Ids
        /\ cancel' \in [id : Ids \union {None}, pass : 0 .. 2, from : UserPCs]
        /\ pc' \in UserPCs
      BY <2>1, <1>1
  <2>3. unsent' \in Seq(Ids)
      BY <1>2, RemoveAtType DEF CancelUnsent, TypeOK
  <2>4. inFlight' \in Int
      BY <1>2 DEF CancelUnsent, TypeOK
  <2>. QED
      BY SMTT(40), <2>2, <2>3, <2>4, <1>2 DEF CancelUnsent, TypeOK, PCs, UserPCs
<1>3. CASE CancelSent
  <2>1. cancel.id \in Ids
      BY <1>3 DEF CancelSent, TypeOK
  <2>2. CASE CancelReturns(TRUE) /\ noop' = noop \union {cancel.id}
    <3>1. /\ cancelled' \subseteq Ids /\ missed' \subseteq Ids
          /\ cancel' \in [id : Ids \union {None}, pass : 0 .. 2, from : UserPCs]
          /\ pc' \in UserPCs
        BY <2>1, <2>2, <1>1
    <3>. QED
        BY SMTT(40), <2>1, <2>2, <3>1, <1>3 DEF CancelSent, TypeOK, PCs, UserPCs
  <2>3. CASE pc' = "cancelServed" /\ UNCHANGED cancels
      BY SMTT(40), <2>1, <2>3, <1>3 DEF CancelSent, TypeOK, PCs
  <2>. QED
      BY <2>2, <2>3, <1>3 DEF CancelSent
<1>4. CASE CancelServed
  <2>1. cancel.id \in Ids
      BY <1>4 DEF CancelServed, TypeOK
  <2>2. CASE \E found \in BOOLEAN :
                CancelReturns(found) /\ noop' \in {noop, noop \union {cancel.id}}
    <3>1. /\ cancelled' \subseteq Ids /\ missed' \subseteq Ids
          /\ cancel' \in [id : Ids \union {None}, pass : 0 .. 2, from : UserPCs]
          /\ pc' \in UserPCs
        BY <2>1, <2>2, <1>1
    <3>. QED
        BY SMTT(40), <2>1, <2>2, <3>1, <1>4 DEF CancelServed, TypeOK, PCs, UserPCs
  <2>3. CASE /\ cancel' = [id |-> cancel.id, pass |-> 2, from |-> cancel.from]
             /\ pc' = "cancel"
             /\ UNCHANGED <<noop, cancelled, missed>>
      BY SMTT(40), <2>1, <2>3, <1>4 DEF CancelServed, TypeOK, PCs
  <2>. QED
      BY <2>2, <2>3, <1>4 DEF CancelServed
<1>. QED
    BY <1>2, <1>3, <1>4 DEF Cancelling, Cancelling

\* The steps of the main thread that only move its program counter.
LEMMA GotoType ==
    ASSUME TypeOK, NEW label \in PCs \ {"print", "cancel", "cancelServed"}, Goto(label)
    PROVE  TypeOK'
    BY SMTT(40) DEF Goto, TypeOK, callers, lists, reader, network, history, cancels,
                    object, aside

LEMMA PurgeType ==
    ASSUME TypeOK, Purge, thread' \in {thread, "none"}
    PROVE  TypeOK'
    BY SMTT(40) DEF Purge, TypeOK, PCs, UserPCs, callers, cancels, ToSet

LEMMA UpdateType ==
    ASSUME TypeOK, Update \/ Updating
    PROVE  TypeOK'
<1>. USE DEF callers, lists, reader, network, history, cancels, object, aside
<1>1. CASE \E label \in {"update", "idle", "thread", "serve", "messages"} : Goto(label)
    BY <1>1, GotoType DEF PCs, UserPCs
<1>2. CASE UpdateConnect
    BY SMTT(40), <1>2 DEF UpdateConnect, TypeOK, PCs, UserPCs
<1>3. CASE UpdateLost
  <2>1. CASE Purge /\ UNCHANGED thread
      BY <2>1, PurgeType
  <2>2. CASE pc' = "join" /\ UNCHANGED <<object, aside, reader, network, sock, printing>>
      BY SMTT(40), <2>2 DEF TypeOK, PCs
  <2>. QED
      BY <2>1, <2>2, <1>3 DEF UpdateLost
<1>4. CASE UpdateJoined
    BY <1>4, PurgeType DEF UpdateJoined
<1>5. CASE UpdateSpawn
    BY SMTT(40), <1>5 DEF UpdateSpawn, TypeOK
<1>6. CASE UpdateThread
    BY SMTT(40), <1>6 DEF UpdateThread, TypeOK, PCs, UserPCs
<1>7. CASE UpdateSend
  <2>1. Head(unsent) \in Ids /\ Tail(unsent) \in Seq(Ids)
      BY <1>7, HeadTailProperties DEF UpdateSend, TypeOK
  <2>. QED
      BY SMTT(40), <2>1, <1>7 DEF UpdateSend, TypeOK, PCs
<1>8. CASE UpdatePrint
  <2>1. /\ wire' \in Seq(Ids) /\ answered' \in 0 .. Len(wire')
        /\ carrier' \in [Ids -> Nat]
    <3>1. printing \in Ids /\ wire \in Seq(Ids) /\ answered \in 0 .. Len(wire)
          /\ carrier \in [Ids -> Nat] /\ conns \in Nat
        BY <1>8 DEF UpdatePrint, TypeOK
    <3>2. /\ Append(wire, printing) \in Seq(Ids)
          /\ Len(Append(wire, printing)) = Len(wire) + 1
        BY <3>1, AppendProperties
    <3>3. answered' = answered
        BY <1>8 DEF UpdatePrint
    <3>4. CASE wire' = Append(wire, printing) /\ carrier' = [carrier EXCEPT ![printing] = conns]
        BY <3>1, <3>2, <3>3, <3>4, LenProperties
    <3>5. CASE UNCHANGED <<wire, carrier>>
        BY <3>1, <3>3, <3>5
    <3>. QED
        BY <3>4, <3>5, <1>8 DEF UpdatePrint
  <2>2. sock' \in {"null", "open", "invalid"} /\ link' \in {"none", "up", "fin", "reset"}
      BY <1>8 DEF UpdatePrint, TypeOK
  <2>. QED
      BY SMTT(40), <2>1, <2>2, <1>8 DEF UpdatePrint, TypeOK, PCs
<1>9. CASE UpdateTake
    BY SMTT(40), <1>9 DEF UpdateTake, TypeOK, PCs
<1>10. CASE UpdateServe
  <2>1. CASE served = <<>>
      BY SMTT(40), <2>1, <1>10 DEF UpdateServe, TypeOK, PCs
  <2>2. CASE served # <<>>
    <3>1. Head(served) \in Answered /\ Tail(served) \in Seq(Answered)
        BY <2>2, HeadTailProperties DEF TypeOK
    <3>2. calls' \in Seq(Answered) /\ cur' \in Seq(Answered)
      <4>1. calls \in Seq(Answered)
          BY DEF TypeOK
      <4>2. cur' = <<Head(served)>> /\ calls' \in {calls, Append(calls, Head(served))}
          BY <2>2, <1>10 DEF UpdateServe
      <4>. QED
          BY <3>1, <4>1, <4>2, AppendProperties
    <3>3. served' \in Seq(Answered) /\ pc' = "callback"
        BY <3>1, <2>2, <1>10 DEF UpdateServe
    <3>4. UNCHANGED <<callers, reader, network, cancels, sent, hand, purged, txns,
                      carrier, inFlight, sem, messages, sock, printing>>
        BY <1>10 DEF UpdateServe
    <3>. QED
        BY SMTT(40), <3>2, <3>3, <3>4 DEF TypeOK, PCs, UserPCs
  <2>. QED
      BY <2>1, <2>2
<1>11. CASE UpdateDealloc
    BY SMTT(40), <1>11 DEF UpdateDealloc, TypeOK, PCs
<1>12. CASE UpdateMessage
    BY SMTT(40), <1>12 DEF UpdateMessage, TypeOK
<1>. QED
    BY <1>1, <1>2, <1>3, <1>4, <1>5, <1>6, <1>7, <1>8, <1>9, <1>10, <1>11, <1>12
    DEF Update, Updating, UpdateNotConnected, UpdateLive, UpdateSpawnFails, UpdateSent,
        UpdateServed, UpdateDone

LEMMA ReaderType ==
    ASSUME TypeOK, ThreadFunc
    PROVE  TypeOK'
<1>. USE DEF callers, lists, reader, network, history, cancels, object, aside
<1>1. CASE ReaderTest
    BY SMTT(40), <1>1 DEF ReaderTest, TypeOK
<1>2. CASE ReaderReadReply
  <2>1. wire # <<>> /\ wire \in Seq(Ids) /\ answered \in Nat \ {0}
      BY <1>2 DEF ReaderReadReply, TypeOK
  <2>2. /\ Head(wire) \in Ids /\ wire' \in Seq(Ids) /\ answered' \in 0 .. Len(wire')
    <3>1. Head(wire) \in Ids /\ Tail(wire) \in Seq(Ids) /\ Len(Tail(wire)) = Len(wire) - 1
        BY <2>1, HeadTailProperties
    <3>2. wire' = Tail(wire) /\ answered' = answered - 1
        BY <1>2 DEF ReaderReadReply
    <3>3. answered \in 0 .. Len(wire) /\ Len(wire) \in Nat
        BY LenProperties DEF TypeOK
    <3>. QED
        BY <2>1, <3>1, <3>2, <3>3
  <2>3. /\ \/ thread' = "dispatch" /\ item' = Head(wire)
           \/ thread' \in {"push", "exited"} /\ item' = None
        /\ torn' \subseteq Nat
      BY <1>2 DEF ReaderReadReply, TypeOK
  <2>4. UNCHANGED <<object, aside, link, pushes, conns, misreads, pushed, resets, closes,
                    sock, pc, printing>>
      BY <1>2 DEF ReaderReadReply
  <2>5. ObjectTypes'
      BY <2>4, TypeParts, ObjectFrame
  <2>6. WireTypes'
    <3>1. WireTypes
        BY TypeParts
    <3>. QED
        BY <2>2, <2>3, <2>4, <3>1 DEF WireTypes
  <2>. QED
      BY <2>5, <2>6, TypeParts
<1>3. CASE ReaderReadPush
    BY SMTT(40), <1>3 DEF ReaderReadPush, TypeOK
<1>9. CASE ReaderMisreads
  <2>1. PICK n \in 0 .. answered :
            wire' = SubSeq(wire, n + 1, Len(wire)) /\ answered' = answered - n
      BY <1>9 DEF ReaderMisreads
  <2>2. /\ wire \in Seq(Ids) /\ Len(wire) \in Nat
        /\ answered \in 0 .. Len(wire) /\ n \in 0 .. Len(wire)
      BY LenProperties DEF TypeOK
  <2>3. wire' \in Seq(Ids) /\ answered' \in 0 .. Len(wire')
    <3>1. n + 1 \in 1 .. Len(wire) + 1 /\ Len(wire) \in n .. Len(wire)
        BY <2>2
    <3>2. /\ SubSeq(wire, n + 1, Len(wire)) \in Seq(Ids)
          /\ Len(SubSeq(wire, n + 1, Len(wire))) = Len(wire) - n
        BY <2>2, <3>1, SubSeqProperties
    <3>. QED
        BY <2>1, <2>2, <3>2
  <2>4. /\ \/ thread' = "dispatch" /\ item' \in Ids
           \/ thread' \in {"push", "exited"} /\ item' = None
        /\ pushes' \in Nat /\ misreads' \in Nat
      BY <1>9 DEF ReaderMisreads, TypeOK
  <2>5. UNCHANGED <<object, aside, link, conns, torn, pushed, resets, closes, sock, pc,
                    printing>>
      BY <1>9 DEF ReaderMisreads
  <2>6. ObjectTypes'
      BY <2>5, TypeParts, ObjectFrame
  <2>7. WireTypes'
    <3>1. WireTypes
        BY TypeParts
    <3>. QED
        BY <2>3, <2>4, <2>5, <3>1 DEF WireTypes
  <2>. QED
      BY <2>6, <2>7, TypeParts
<1>4. CASE ReaderReadFails
    BY SMTT(40), <1>4 DEF ReaderReadFails, TypeOK
<1>5. CASE ReaderPush
    BY SMTT(40), <1>5 DEF ReaderPush, TypeOK
<1>6. CASE ReaderDispatch
  <2>1. CASE sent = <<>>
      BY SMTT(40), <2>1, <1>6 DEF ReaderDispatch, TypeOK
  <2>2. CASE sent # <<>>
    <3>1. Head(sent) \in Ids /\ Tail(sent) \in Seq(Ids)
        BY <2>2, HeadTailProperties DEF TypeOK
    <3>2. hand' \in Seq(Answered)
      <4>1. [id |-> Head(sent), reply |-> item] \in Answered
          BY <3>1, <1>6 DEF ReaderDispatch, TypeOK, Answered
      <4>2. hand' = <<[id |-> Head(sent), reply |-> item]>>
          BY <2>2, <1>6 DEF ReaderDispatch
      <4>. QED
          BY <4>1, <4>2, SingletonType
    <3>3. sent' \in Seq(Ids) /\ thread' = "between" /\ item' = None
        BY <3>1, <2>2, <1>6 DEF ReaderDispatch
    <3>4. UNCHANGED <<aside, callers, network, served, cur, inFlight, sem, messages,
                      sock, pc, printing>>
        BY <1>6 DEF ReaderDispatch
    <3>. QED
        BY SMTT(40), <3>2, <3>3, <3>4 DEF TypeOK
  <2>. QED
      BY <2>1, <2>2
<1>7. CASE ReaderServe
  <2>1. served' \in Seq(Answered) /\ hand' \in Seq(Answered)
      BY <1>7, ConcatProperties DEF ReaderServe, TypeOK
  <2>. QED
      BY SMTT(40), <2>1, <1>7 DEF ReaderServe, TypeOK
<1>8. CASE ReaderSignal
    BY SMTT(40), <1>8 DEF ReaderSignal, TypeOK
<1>. QED
    BY <1>1, <1>2, <1>3, <1>4, <1>5, <1>6, <1>7, <1>8, <1>9 DEF ThreadFunc

LEMMA ExternalType ==
    ASSUME TypeOK, External
    PROVE  TypeOK'
<1>. USE DEF callers, lists, reader, network, history, cancels, object, aside, outside
<1>1. CASE ServerAnswer
    BY SMTT(40), <1>1 DEF ServerAnswer, TypeOK
<1>2. CASE ServerPush
    BY SMTT(40), <1>2 DEF ServerPush, TypeOK
<1>3. CASE ServerClose
    BY SMTT(40), <1>3 DEF ServerClose, TypeOK
<1>4. CASE LinkReset
    BY SMTT(40), <1>4 DEF LinkReset, TypeOK
<1>. QED
    BY <1>1, <1>2, <1>3, <1>4 DEF External

\* Every step of either thread and of the server leaves every variable with its
\* type, and an action finds what it is about to use.
THEOREM TypeCorrect == Spec => []TypeOK
<1>1. TypeOK /\ [Next]_vars => TypeOK'
  <2>. SUFFICES ASSUME TypeOK, [Next]_vars PROVE TypeOK'
      OBVIOUS
  <2>1. CASE UNCHANGED vars
      BY SMTT(40), <2>1 DEF vars, TypeOK, callers, lists, reader, network, history,
                            cancels, object, aside
  <2>. QED
      BY <2>1, CallType, CancellingType, UpdateType, ReaderType, ExternalType DEF Next
<1>. QED
    BY <1>1, InitType, PTL DEF Spec

-----------------------------------------------------------------------------
(* The semaphore                                                           *)

\* SemaphoreBacked alone is not inductive: the reader's hand must hold exactly
\* one request when it is about to be put on the served list.
SemaphoreInv ==
    /\ SemaphoreBacked
    /\ Len(hand) = One(thread = "between")

\* A step that touches neither the served list, nor the semaphore, nor the
\* reader's hand, nor the places where the count is about to change.
LEMMA SemaphoreFrame ==
    ASSUME SemaphoreInv, UNCHANGED <<served, sem, hand>>,
           \A label \in {"between", "signal"} : (thread' = label) = (thread = label),
           (pc' = "take") = (pc = "take")
    PROVE  SemaphoreInv'
    BY DEF SemaphoreInv, SemaphoreBacked, One

LEMMA SemaphoreStep ==
    ASSUME TypeOK, SemaphoreInv, [Next]_vars
    PROVE  SemaphoreInv'
<1>. USE DEF callers, lists, reader, network, history, cancels, object, aside, outside
<1>1. CASE UNCHANGED vars
    BY <1>1, SemaphoreFrame DEF vars
<1>2. CASE Call
  <2>1. UNCHANGED <<served, sem, hand, thread>>
      BY <1>2 DEF Call, MakeRequestAsync, MakeTransactionRequestAsync, MakeRequestSync,
                  Enqueue, SyncReturn, SyncTimeout, Flush, FlushReturn, CancelAsyncRequest
  <2>2. (pc' = "take") = (pc = "take")
      BY <1>2 DEF Call, MakeRequestAsync, MakeTransactionRequestAsync, MakeRequestSync,
                  SyncReturn, SyncTimeout, Flush, FlushReturn, CancelAsyncRequest,
                  UserCode, UserPCs
  <2>. QED
      BY <2>1, <2>2, SemaphoreFrame
<1>3. CASE Cancelling
  <2>1. UNCHANGED <<served, sem, hand, thread>>
      BY <1>3 DEF Cancelling, CancelUnsent, CancelSent, CancelServed
  <2>2. pc # "take" /\ pc' # "take"
      BY <1>3 DEF Cancelling, CancelUnsent, CancelSent, CancelServed, CancelReturns,
                  TypeOK, UserPCs
  <2>. QED
      BY <2>1, <2>2, SemaphoreFrame
<1>4. CASE Update \/ Updating
  <2>1. CASE UpdateTake
      BY <2>1 DEF UpdateTake, SemaphoreInv, SemaphoreBacked, One, TypeOK
  <2>2. CASE UpdateServe
    <3>1. Len(served) \in Nat /\ sem \in Nat /\ served # <<>>
        BY <2>2 DEF UpdateServe, SemaphoreInv, SemaphoreBacked, One, TypeOK
    <3>2. Len(Tail(served)) = Len(served) - 1
        BY <3>1, HeadTailProperties DEF TypeOK
    <3>3. /\ served' = Tail(served) /\ pc = "take" /\ pc' = "callback"
          /\ UNCHANGED <<sem, hand, thread>>
        BY <2>2, <3>1 DEF UpdateServe
    <3>. QED
        BY <3>1, <3>2, <3>3 DEF SemaphoreInv, SemaphoreBacked, One
  <2>3. CASE Purge /\ pc # "take" /\ (thread' = thread \/ (thread = "exited" /\ thread' = "none"))
      BY <2>3, SemaphoreFrame DEF Purge
  <2>4. CASE \E label \in PCs \ {"take"} : pc # "take" /\ Goto(label)
      BY <2>4, SemaphoreFrame DEF Goto
  <2>5. CASE UpdateConnect \/ UpdateSpawn \/ UpdateThread \/ UpdateSend \/ UpdatePrint
             \/ UpdateDealloc \/ UpdateMessage
    <3>1. UNCHANGED <<served, sem, hand>>
        BY <2>5 DEF UpdateConnect, UpdateSpawn, UpdateThread, UpdateSend, UpdatePrint,
                    UpdateDealloc, UpdateMessage
    <3>2. /\ pc # "take" /\ pc' # "take"
          /\ \A label \in {"between", "signal"} : (thread' = label) = (thread = label)
        BY <2>5 DEF UpdateConnect, UpdateSpawn, UpdateThread, UpdateSend, UpdatePrint,
                    UpdateDealloc, UpdateMessage
    <3>. QED
        BY <3>1, <3>2, SemaphoreFrame
  <2>6. CASE UpdateLost
    <3>1. CASE Purge /\ UNCHANGED thread
        BY <3>1, <2>3, <2>6 DEF UpdateLost
    <3>2. CASE pc' = "join" /\ UNCHANGED <<object, aside, reader, network, sock, printing>>
        BY <3>2, <2>6, SemaphoreFrame DEF UpdateLost
    <3>. QED
        BY <3>1, <3>2, <2>6 DEF UpdateLost
  <2>7. CASE UpdateJoined
      BY <2>7, <2>3 DEF UpdateJoined
  <2>8. CASE Update \/ UpdateNotConnected \/ UpdateLive \/ UpdateSpawnFails \/ UpdateSent
             \/ UpdateServed \/ UpdateDone
      BY <2>8, <2>4 DEF Update, UpdateNotConnected, UpdateLive, UpdateSpawnFails,
                        UpdateSent, UpdateServed, UpdateDone, PCs, UserPCs
  <2>. QED
      BY <1>4, <2>1, <2>2, <2>5, <2>6, <2>7, <2>8 DEF Updating
<1>5. CASE ThreadFunc
  <2>1. CASE ReaderServe
    <3>1. Len(served \o hand) = Len(served) + Len(hand) /\ Len(served) \in Nat
        BY ConcatProperties, LenProperties DEF TypeOK
    <3>2. /\ served' = served \o hand /\ hand' = <<>>
          /\ thread = "between" /\ thread' = "signal" /\ UNCHANGED <<sem, pc>>
        BY <2>1 DEF ReaderServe
    <3>. QED
        BY <3>1, <3>2 DEF SemaphoreInv, SemaphoreBacked, One, TypeOK
  <2>2. CASE ReaderSignal
      BY <2>2 DEF ReaderSignal, SemaphoreInv, SemaphoreBacked, One, TypeOK
  <2>3. CASE ReaderDispatch
    <3>1. UNCHANGED <<served, sem, pc>> /\ thread = "dispatch"
        BY <2>3 DEF ReaderDispatch
    <3>2. \/ thread' = "test" /\ hand' = hand
          \/ thread' = "between" /\ hand' = <<[id |-> Head(sent), reply |-> item]>>
        BY <2>3 DEF ReaderDispatch
    <3>. QED
        BY <3>1, <3>2 DEF SemaphoreInv, SemaphoreBacked, One
  <2>4. CASE \/ ReaderTest \/ ReaderReadReply \/ ReaderMisreads \/ ReaderReadPush
             \/ ReaderReadFails \/ ReaderPush
    <3>1. UNCHANGED <<served, sem, hand, pc>>
        BY <2>4 DEF ReaderTest, ReaderReadReply, ReaderMisreads, ReaderReadPush,
                    ReaderReadFails, ReaderPush
    <3>2. thread \notin {"between", "signal"} /\ thread' \notin {"between", "signal"}
        BY <2>4 DEF ReaderTest, ReaderReadReply, ReaderMisreads, ReaderReadPush,
                    ReaderReadFails, ReaderPush
    <3>. QED
        BY <3>1, <3>2, SemaphoreFrame
  <2>. QED
      BY <1>5, <2>1, <2>2, <2>3, <2>4 DEF ThreadFunc
<1>6. CASE External
    BY <1>6, SemaphoreFrame DEF External, ServerAnswer, ServerPush, ServerClose, LinkReset
<1>. QED
    BY <1>1, <1>2, <1>3, <1>4, <1>5, <1>6 DEF Next

\* A successful Decrement finds its request on the served list, whatever the
\* reader and CancelAsyncRequest do in between.
THEOREM SemaphoreCorrect == Spec => []SemaphoreBacked
<1>1. Init => SemaphoreInv
    BY DEF Init, SemaphoreInv, SemaphoreBacked, One
<1>2. SemaphoreInv => SemaphoreBacked
    BY DEF SemaphoreInv
<1>. QED
    BY <1>1, <1>2, TypeCorrect, SemaphoreStep, PTL DEF Spec

-----------------------------------------------------------------------------
(* The stream                                                              *)

\* A reader is only started, and a request only sent, on a stream that is there.
StreamInv ==
    /\ ReaderHasStream
    /\ pc \in {"thread", "send", "print"} => sock # "null"

\* Steps that do not touch the socket, start no reader and do not take the main
\* thread to where it uses the stream.
LEMMA StreamFrame ==
    ASSUME StreamInv, UNCHANGED sock, ReaderRuns' => ReaderRuns,
           pc' \in {pc, "idle", "update", "connected", "callback", "messages", "cancel",
                    "cancelServed", "join", "serve", "take"}
    PROVE  StreamInv'
    BY DEF StreamInv, ReaderHasStream, ReaderRuns

LEMMA StreamStep ==
    ASSUME TypeOK, StreamInv, [Next]_vars
    PROVE  StreamInv'
<1>. USE DEF callers, lists, reader, network, history, cancels, object, aside, outside
<1>1. CASE UNCHANGED vars
    BY <1>1, StreamFrame DEF vars, ReaderRuns
<1>2. CASE Call
  <2>1. UNCHANGED <<sock, thread>>
      BY <1>2 DEF Call, MakeRequestAsync, MakeTransactionRequestAsync, MakeRequestSync,
                  Enqueue, SyncReturn, SyncTimeout, Flush, FlushReturn, CancelAsyncRequest
  <2>2. pc' \in {pc, "update", "cancel"}
      BY <1>2 DEF Call, MakeRequestAsync, MakeTransactionRequestAsync, MakeRequestSync,
                  SyncReturn, SyncTimeout, Flush, FlushReturn, CancelAsyncRequest
  <2>. QED
      BY <2>1, <2>2, StreamFrame DEF ReaderRuns
<1>3. CASE Cancelling
  <2>1. UNCHANGED <<sock, thread>>
      BY <1>3 DEF Cancelling, CancelUnsent, CancelSent, CancelServed
  <2>2. pc' \in {"cancel", "cancelServed"} \union UserPCs
      BY <1>3 DEF Cancelling, CancelUnsent, CancelSent, CancelServed, CancelReturns, TypeOK
  <2>. QED
      BY <2>1, <2>2, StreamFrame DEF ReaderRuns, UserPCs
<1>4. CASE Update \/ Updating
  <2>1. CASE Purge /\ ~ReaderRuns'
      BY <2>1 DEF Purge, StreamInv, ReaderHasStream, ReaderRuns
  <2>2. CASE UpdateConnect
      BY <2>2 DEF UpdateConnect, StreamInv, ReaderHasStream, ReaderRuns
  <2>3. CASE UpdateLive
      BY <2>3 DEF UpdateLive, Goto, StreamInv, ReaderHasStream, ReaderRuns
  <2>4. CASE UpdateLost
    <3>1. CASE Purge /\ UNCHANGED thread /\ ~ReaderRuns
        BY <3>1, <2>1 DEF ReaderRuns
    <3>2. CASE pc' = "join" /\ UNCHANGED <<object, aside, reader, network, sock, printing>>
        BY <3>2, StreamFrame DEF ReaderRuns
    <3>. QED
        BY <3>1, <3>2, <2>4 DEF UpdateLost
  <2>5. CASE UpdateJoined
      BY <2>5, <2>1 DEF UpdateJoined, ReaderRuns
  <2>6. CASE UpdateSpawn
      BY <2>6 DEF UpdateSpawn, StreamInv, ReaderHasStream, ReaderRuns
  <2>7. CASE UpdateThread
      BY <2>7 DEF UpdateThread, StreamInv, ReaderHasStream, ReaderRuns
  <2>8. CASE UpdateSend \/ UpdatePrint
      BY <2>8 DEF UpdateSend, UpdatePrint, StreamInv, ReaderHasStream, ReaderRuns
  <2>9. CASE UpdateTake \/ UpdateServe \/ UpdateDealloc \/ UpdateMessage
    <3>1. UNCHANGED <<sock, thread>> /\ pc' \in {pc, "take", "serve", "callback"}
        BY <2>9 DEF UpdateTake, UpdateServe, UpdateDealloc, UpdateMessage
    <3>. QED
        BY <3>1, StreamFrame DEF ReaderRuns
  <2>10. CASE \E label \in {"idle", "update", "serve", "messages"} : Goto(label)
      BY <2>10, StreamFrame DEF Goto, ReaderRuns
  <2>11. CASE Update \/ UpdateNotConnected \/ UpdateSpawnFails \/ UpdateSent \/ UpdateServed
              \/ UpdateDone
      BY <2>10, <2>11 DEF Update, UpdateNotConnected, UpdateSpawnFails, UpdateSent,
                          UpdateServed, UpdateDone
  <2>. QED
      BY <1>4, <2>2, <2>3, <2>4, <2>5, <2>6, <2>7, <2>8, <2>9, <2>11 DEF Updating
<1>5. CASE ThreadFunc
  <2>1. UNCHANGED pc /\ ReaderRuns
      BY <1>5 DEF ThreadFunc, ReaderTest, ReaderReadReply, ReaderMisreads, ReaderReadPush,
                  ReaderReadFails, ReaderPush, ReaderDispatch, ReaderServe, ReaderSignal, ReaderRuns
  <2>2. sock' \in {sock, "invalid"}
      BY <1>5 DEF ThreadFunc, ReaderTest, ReaderReadReply, ReaderMisreads, ReaderReadPush,
                  ReaderReadFails, ReaderPush, ReaderDispatch, ReaderServe, ReaderSignal
  <2>. QED
      BY <2>1, <2>2 DEF StreamInv, ReaderHasStream
<1>6. CASE External
    BY <1>6, StreamFrame DEF External, ServerAnswer, ServerPush, ServerClose, LinkReset,
                             ReaderRuns
<1>. QED
    BY <1>1, <1>2, <1>3, <1>4, <1>5, <1>6 DEF Next

\* Update deletes a stream only when no reader runs on it, and starts a reader
\* only on a stream it has just found connected.
THEOREM StreamCorrect == Spec => []ReaderHasStream
<1>1. Init => StreamInv
    BY DEF Init, StreamInv, ReaderHasStream, ReaderRuns
<1>2. StreamInv => ReaderHasStream
    BY DEF StreamInv
<1>. QED
    BY <1>1, <1>2, TypeCorrect, StreamStep, PTL DEF Spec

-----------------------------------------------------------------------------
(* Responses                                                               *)

\* What waits on the connection, from the response the reader holds to the
\* request written last, is the sent list from its head on.
WireMatches ==
    /\ Len(wire) + One(thread = "dispatch") <= Len(sent)
    /\ \A k \in 1 .. Len(wire) : wire[k] = sent[k + One(thread = "dispatch")]
    /\ thread = "dispatch" => item = sent[1]

\* On a connection that is up nothing on the sent list is missing from the wire
\* but the request being printed.
AllPrinted ==
    sock = "open" /\ link = "up" =>
        /\ Len(wire) + One(thread = "dispatch") + One(pc = "print") = Len(sent)
        /\ pc = "print" => printing = sent[Len(sent)]

\* Without a stream nothing has been sent.
NothingSent == sock = "null" => sent = <<>> /\ wire = <<>>

Own(requests) == \A i \in DOMAIN requests : requests[i].reply = requests[i].id

MatchInv ==
    /\ WireMatches /\ AllPrinted /\ NothingSent
    /\ Own(hand) /\ Own(served) /\ Own(cur) /\ Own(calls)

\* Requests that have their own response still do when lists are put together or
\* taken apart.
LEMMA OwnLists ==
    ASSUME NEW s \in Seq(Answered), NEW t \in Seq(Answered), Own(s), Own(t)
    PROVE  /\ Own(s \o t)
           /\ s # <<>> => Own(Tail(s)) /\ Head(s).reply = Head(s).id
           /\ \A e \in Answered : e.reply = e.id => Own(<<e>>) /\ Own(Append(s, e))
<1>1. Own(s \o t)
  <2>1. /\ s \o t \in Seq(Answered) /\ Len(s \o t) = Len(s) + Len(t)
        /\ \A i \in 1 .. Len(s) + Len(t) :
              (s \o t)[i] = IF i <= Len(s) THEN s[i] ELSE t[i - Len(s)]
      BY ConcatProperties
  <2>. QED
      BY <2>1, LenProperties DEF Own
<1>2. ASSUME s # <<>> PROVE Own(Tail(s)) /\ Head(s).reply = Head(s).id
  <2>1. /\ Tail(s) \in Seq(Answered) /\ Len(Tail(s)) = Len(s) - 1 /\ Head(s) = s[1]
        /\ \A i \in 1 .. Len(Tail(s)) : Tail(s)[i] = s[i + 1]
      BY <1>2, HeadTailProperties
  <2>2. Len(s) \in Nat \ {0}
      BY <1>2, EmptySeq, LenProperties
  <2>. QED
      BY <2>1, <2>2, LenProperties DEF Own
<1>3. ASSUME NEW e \in Answered, e.reply = e.id PROVE Own(<<e>>) /\ Own(Append(s, e))
  <2>1. Own(<<e>>)
      BY <1>3 DEF Own
  <2>2. /\ Append(s, e) \in Seq(Answered) /\ Len(Append(s, e)) = Len(s) + 1
        /\ \A i \in 1 .. Len(s) : Append(s, e)[i] = s[i]
        /\ Append(s, e)[Len(s) + 1] = e
      BY AppendProperties
  <2>. QED
      BY <1>3, <2>1, <2>2, LenProperties DEF Own
<1>. QED
    BY <1>1, <1>2, <1>3

\* Steps that leave the responses and the requests sent where they are.
LEMMA MatchFrame ==
    ASSUME MatchInv,
           UNCHANGED <<sent, wire, hand, served, cur, calls, item, printing>>,
           (thread' = "dispatch") = (thread = "dispatch"),
           (pc' = "print") = (pc = "print"),
           sock' = "open" /\ link' = "up" => sock = "open" /\ link = "up",
           sock' = "null" => sock = "null"
    PROVE  MatchInv'
    BY DEF MatchInv, WireMatches, AllPrinted, NothingSent, Own, One

\* Steps that only move requests that have their response already.
LEMMA ServedFrame ==
    ASSUME MatchInv, UNCHANGED <<sent, wire, item, printing, sock, link>>,
           (thread' = "dispatch") = (thread = "dispatch"),
           (pc' = "print") = (pc = "print"),
           Own(hand'), Own(served'), Own(cur'), Own(calls')
    PROVE  MatchInv'
    BY DEF MatchInv, WireMatches, AllPrinted, NothingSent, Own, One

LEMMA PurgeMatch ==
    ASSUME MatchInv, Purge, thread' # "dispatch"
    PROVE  MatchInv'
    BY DEF MatchInv, Purge, WireMatches, AllPrinted, NothingSent, Own, One

LEMMA SendMatch ==
    ASSUME TypeOK, StreamInv, MatchInv, UpdateSend
    PROVE  MatchInv'
<1>. DEFINE d == One(thread = "dispatch")
<1>. USE DEF callers, lists, reader, network, history, cancels, object, aside
<1>1. /\ pc = "send" /\ pc' = "print" /\ printing' = Head(unsent)
      /\ sent' = Append(sent, Head(unsent))
      /\ UNCHANGED <<wire, hand, served, cur, calls, item, thread, sock, link>>
    BY DEF UpdateSend
<1>2. /\ Len(sent') = Len(sent) + 1 /\ sent'[Len(sent) + 1] = printing'
      /\ \A i \in 1 .. Len(sent) : sent'[i] = sent[i]
  <2>1. sent \in Seq(Ids) /\ Head(unsent) \in Ids
      BY HeadTailProperties DEF UpdateSend, TypeOK
  <2>. QED
      BY <1>1, <2>1, AppendProperties
<1>3. Len(wire) \in Nat /\ Len(sent) \in Nat /\ d \in {0, 1} /\ d' = d
    BY <1>1, LenProperties DEF TypeOK, One
<1>4. WireMatches'
  <2>1. Len(wire) + d <= Len(sent) /\ \A k \in 1 .. Len(wire) : wire[k] = sent[k + d]
      BY DEF MatchInv, WireMatches
  <2>2. Len(wire') + d' <= Len(sent') /\ \A k \in 1 .. Len(wire') : wire'[k] = sent'[k + d']
      BY <1>1, <1>2, <1>3, <2>1
  <2>3. thread' = "dispatch" => item' = sent'[1]
      BY <1>1, <1>2, <1>3, <2>1 DEF MatchInv, WireMatches, One
  <2>. QED
      BY <2>2, <2>3 DEF WireMatches
<1>5. AllPrinted'
    BY <1>1, <1>2, <1>3 DEF MatchInv, AllPrinted, One
<1>6. NothingSent'
    BY <1>1 DEF StreamInv, NothingSent
<1>. QED
    BY <1>1, <1>4, <1>5, <1>6 DEF MatchInv, Own

LEMMA PrintMatch ==
    ASSUME TypeOK, StreamInv, MatchInv, UpdatePrint
    PROVE  MatchInv'
<1>. DEFINE d == One(thread = "dispatch")
<1>. USE DEF callers, lists, reader, network, history, cancels, object, aside
<1>1. /\ pc = "print" /\ pc' = "send" /\ sock # "null" /\ sock' # "null"
      /\ UNCHANGED <<sent, hand, served, cur, calls, item, thread>>
    BY DEF UpdatePrint, StreamInv
<1>2. Len(wire) \in Nat /\ Len(sent) \in Nat /\ d \in {0, 1} /\ d' = d
    BY <1>1, LenProperties DEF TypeOK, One
<1>3. CASE sock = "open" /\ link = "up" /\ wire' = Append(wire, printing)
  <2>1. /\ Len(wire') = Len(wire) + 1 /\ wire'[Len(wire) + 1] = printing
        /\ \A i \in 1 .. Len(wire) : wire'[i] = wire[i]
    <3>1. wire \in Seq(Ids) /\ printing \in Ids
        BY <1>1 DEF TypeOK
    <3>. QED
        BY <1>3, <3>1, AppendProperties
  <2>2. Len(wire) + d + 1 = Len(sent) /\ printing = sent[Len(sent)]
      BY <1>1, <1>3 DEF MatchInv, AllPrinted, One
  <2>3. \A k \in 1 .. Len(wire) : wire[k] = sent[k + d]
      BY DEF MatchInv, WireMatches
  <2>4. \A k \in 1 .. Len(wire') : wire'[k] = sent[k + d]
    <3>. SUFFICES ASSUME NEW k \in 1 .. Len(wire') PROVE wire'[k] = sent[k + d]
        OBVIOUS
    <3>1. CASE k = Len(wire) + 1
      <4>1. k + d = Len(sent)
          BY <1>2, <2>2, <3>1
      <4>. QED
          BY <2>1, <2>2, <3>1, <4>1
    <3>2. CASE k \in 1 .. Len(wire)
        BY <2>1, <2>3, <3>2
    <3>. QED
        BY <1>2, <2>1, <3>1, <3>2
  <2>5. WireMatches'
      BY <1>1, <1>2, <2>1, <2>2, <2>4 DEF MatchInv, WireMatches
  <2>6. AllPrinted' /\ NothingSent'
      BY <1>1, <1>2, <2>1, <2>2 DEF AllPrinted, NothingSent, One
  <2>. QED
      BY <1>1, <2>5, <2>6 DEF MatchInv, Own
<1>4. CASE UNCHANGED wire /\ ~(sock' = "open" /\ link' = "up")
  <2>1. WireMatches' /\ AllPrinted' /\ NothingSent'
      BY <1>1, <1>4 DEF MatchInv, WireMatches, AllPrinted, NothingSent, One
  <2>. QED
      BY <1>1, <2>1 DEF MatchInv, Own
<1>. QED
    BY <1>3, <1>4 DEF UpdatePrint

LEMMA ReplyMatch ==
    ASSUME ReplyKinds = {"plain"}, TypeOK, MatchInv, ReaderReadReply
    PROVE  MatchInv'
<1>. USE DEF callers, lists, reader, network, history, cancels, object, aside
<1>1. /\ thread = "read" /\ thread' = "dispatch" /\ item' = Head(wire) /\ wire' = Tail(wire)
      /\ sock = "open" /\ answered > 0
      /\ UNCHANGED <<sent, hand, served, cur, calls, printing, pc, sock, link>>
    BY DEF ReaderReadReply
<1>2. Len(wire) \in Nat \ {0} /\ Len(sent) \in Nat /\ wire # <<>>
    BY <1>1, LenProperties, EmptySeq DEF TypeOK
<1>3. /\ Len(wire') = Len(wire) - 1 /\ item' = wire[1]
      /\ \A k \in 1 .. Len(wire') : wire'[k] = wire[k + 1]
    BY <1>1, <1>2, HeadTailProperties DEF TypeOK
<1>4. Len(wire) <= Len(sent) /\ \A k \in 1 .. Len(wire) : wire[k] = sent[k]
    BY <1>1, <1>2 DEF MatchInv, WireMatches, One, TypeOK
<1>5. WireMatches'
    BY <1>1, <1>2, <1>3, <1>4 DEF WireMatches, One
<1>6. AllPrinted' /\ NothingSent'
    BY <1>1, <1>2, <1>3 DEF MatchInv, AllPrinted, NothingSent, One
<1>. QED
    BY <1>1, <1>5, <1>6 DEF MatchInv, Own

LEMMA DispatchMatch ==
    ASSUME TypeOK, MatchInv, ReaderDispatch
    PROVE  MatchInv'
<1>. USE DEF callers, lists, reader, network, history, cancels, object, aside
<1>1. thread = "dispatch" /\ UNCHANGED <<wire, served, cur, calls, printing, pc, sock, link>>
    BY DEF ReaderDispatch
<1>2. Len(wire) \in Nat /\ Len(sent) \in Nat /\ Len(wire) + 1 <= Len(sent)
    BY <1>1, LenProperties DEF MatchInv, WireMatches, One, TypeOK
<1>3. sent # <<>> /\ thread' = "between" /\ sent' = Tail(sent)
      /\ hand' = <<[id |-> Head(sent), reply |-> item]>>
    BY <1>2, EmptySeq DEF ReaderDispatch
<1>4. /\ Len(sent') = Len(sent) - 1 /\ Head(sent) = sent[1] /\ Head(sent) \in Ids
      /\ \A k \in 1 .. Len(sent') : sent'[k] = sent[k + 1]
    BY <1>3, HeadTailProperties DEF TypeOK
<1>5. item = sent[1] /\ \A k \in 1 .. Len(wire) : wire[k] = sent[k + 1]
    BY <1>1 DEF MatchInv, WireMatches, One
<1>6. Own(hand')
    BY <1>3, <1>4, <1>5 DEF Own
<1>7. WireMatches'
    BY <1>1, <1>2, <1>3, <1>4, <1>5 DEF WireMatches, One
<1>8. AllPrinted'
    BY <1>1, <1>2, <1>3, <1>4 DEF MatchInv, AllPrinted, One
<1>9. NothingSent'
    BY <1>1, <1>2, EmptySeq DEF MatchInv, NothingSent, TypeOK
<1>. QED
    BY <1>1, <1>6, <1>7, <1>8, <1>9 DEF MatchInv, Own

\* The parser never gives up on a response it takes for one.
LEMMA WholeStep ==
    ASSUME ReplyKinds = {"plain"}, torn = {}, [Next]_vars
    PROVE  torn' = {}
<1>. USE DEF callers, lists, reader, network, history, cancels, object, aside, outside
<1>1. CASE UNCHANGED vars \/ Call \/ Cancelling \/ Update
    BY <1>1 DEF vars, Call, MakeRequestAsync, MakeTransactionRequestAsync, MakeRequestSync,
                Enqueue, SyncReturn, SyncTimeout, Flush, FlushReturn, CancelAsyncRequest,
                Cancelling, CancelUnsent, CancelSent, CancelServed, Update, Goto
<1>2. CASE Updating
    BY <1>2 DEF Updating, UpdateConnect, UpdateNotConnected, UpdateLive, UpdateLost,
                UpdateJoined, Purge, UpdateSpawn, UpdateSpawnFails, UpdateThread, UpdateSend,
                UpdatePrint, UpdateSent, UpdateTake, UpdateServe, UpdateDealloc, UpdateServed,
                UpdateMessage, UpdateDone, Goto
<1>3. CASE ThreadFunc
    BY <1>3 DEF ThreadFunc, ReaderTest, ReaderReadReply, ReaderMisreads, ReaderReadPush,
                ReaderReadFails, ReaderPush, ReaderDispatch, ReaderServe, ReaderSignal
<1>4. CASE External
    BY <1>4 DEF External, ServerAnswer, ServerPush, ServerClose, LinkReset
<1>. QED
    BY <1>1, <1>2, <1>3, <1>4 DEF Next

LEMMA MatchStep ==
    ASSUME ReplyKinds = {"plain"}, torn = {}, TypeOK, StreamInv, MatchInv, [Next]_vars
    PROVE  MatchInv'
<1>. USE DEF callers, lists, reader, network, history, cancels, object, aside, outside
<1>1. CASE UNCHANGED vars
    BY <1>1, MatchFrame DEF vars
<1>2. CASE Call
  <2>1. UNCHANGED <<lists, calls, reader, network, sock, printing>>
      BY <1>2 DEF Call, MakeRequestAsync, MakeTransactionRequestAsync, MakeRequestSync,
                  Enqueue, SyncReturn, SyncTimeout, Flush, FlushReturn, CancelAsyncRequest
  <2>2. (pc' = "print") = (pc = "print")
      BY <1>2 DEF Call, MakeRequestAsync, MakeTransactionRequestAsync, MakeRequestSync,
                  SyncReturn, SyncTimeout, Flush, FlushReturn, CancelAsyncRequest,
                  UserCode, UserPCs
  <2>. QED
      BY <2>1, <2>2, MatchFrame
<1>3. CASE Cancelling
  <2>1. UNCHANGED <<lists, calls, reader, network, sock, printing>>
      BY <1>3 DEF Cancelling, CancelUnsent, CancelSent, CancelServed
  <2>2. pc # "print" /\ pc' # "print"
      BY <1>3 DEF Cancelling, CancelUnsent, CancelSent, CancelServed, CancelReturns,
                  TypeOK, UserPCs
  <2>. QED
      BY <2>1, <2>2, MatchFrame
<1>4. CASE Update \/ Updating
  <2>1. CASE UpdateConnect
    <3>1. sent = <<>> /\ wire = <<>> /\ thread # "dispatch"
        BY <2>1 DEF UpdateConnect, MatchInv, NothingSent, StreamInv, ReaderHasStream,
                    ReaderRuns
    <3>2. /\ pc' = "connected"
          /\ UNCHANGED <<sent, wire, hand, served, cur, calls, item, thread, printing>>
        BY <2>1 DEF UpdateConnect
    <3>. QED
        BY <3>1, <3>2 DEF MatchInv, WireMatches, AllPrinted, NothingSent, Own, One
  <2>2. CASE UpdateLost
    <3>1. CASE Purge /\ UNCHANGED thread /\ ~ReaderRuns
        BY <3>1, PurgeMatch DEF ReaderRuns, TypeOK
    <3>2. CASE pc' = "join" /\ UNCHANGED <<object, aside, reader, network, sock, printing>>
        BY <3>2, <2>2, MatchFrame DEF UpdateLost
    <3>. QED
        BY <3>1, <3>2, <2>2 DEF UpdateLost
  <2>3. CASE UpdateJoined
      BY <2>3, PurgeMatch DEF UpdateJoined
  <2>4. CASE UpdateSend
      BY <2>4, SendMatch
  <2>5. CASE UpdatePrint
      BY <2>5, PrintMatch
  <2>6. CASE UpdateServe
    <3>1. Own(served) /\ Own(cur) /\ Own(calls) /\ Own(hand)
        BY DEF MatchInv
    <3>2. CASE served = <<>>
        BY <2>6, <3>2, MatchFrame DEF UpdateServe
    <3>3. CASE served # <<>>
      <4>1. Head(served) \in Answered
          BY <3>3, HeadTailProperties DEF TypeOK
      <4>2. Own(Tail(served)) /\ Head(served).reply = Head(served).id
          BY <3>1, <3>3, OwnLists DEF TypeOK
      <4>3. Own(<<Head(served)>>) /\ Own(Append(calls, Head(served)))
          BY <3>1, <4>1, <4>2, OwnLists DEF TypeOK
      <4>4. /\ served' = Tail(served) /\ cur' = <<Head(served)>> /\ hand' = hand
            /\ calls' \in {calls, Append(calls, Head(served))}
            /\ pc = "take" /\ pc' = "callback"
            /\ UNCHANGED <<sent, wire, item, thread, printing, sock, link>>
          BY <2>6, <3>3 DEF UpdateServe
      <4>5. Own(served') /\ Own(cur') /\ Own(calls') /\ Own(hand')
          BY <3>1, <4>2, <4>3, <4>4 DEF Own
      <4>. QED
          BY <4>4, <4>5, ServedFrame
    <3>. QED
        BY <3>2, <3>3
  <2>7. CASE UpdateDealloc
    <3>1. Own(hand') /\ Own(served') /\ Own(cur') /\ Own(calls')
        BY <2>7 DEF UpdateDealloc, MatchInv, Own
    <3>. QED
        BY <2>7, <3>1, ServedFrame DEF UpdateDealloc
  <2>8. CASE UpdateSpawn \/ UpdateThread \/ UpdateTake \/ UpdateMessage
    <3>1. /\ UNCHANGED <<lists, calls, item, wire, sock, link, printing>>
          /\ pc # "print" /\ pc' # "print"
          /\ (thread' = "dispatch") = (thread = "dispatch")
        BY <2>8 DEF UpdateSpawn, UpdateThread, UpdateTake, UpdateMessage
    <3>. QED
        BY <3>1, MatchFrame
  <2>9. CASE \E label \in PCs \ {"print"} : pc # "print" /\ Goto(label)
      BY <2>9, MatchFrame DEF Goto
  <2>10. CASE Update \/ UpdateNotConnected \/ UpdateLive \/ UpdateSpawnFails \/ UpdateSent
              \/ UpdateServed \/ UpdateDone
      BY <2>9, <2>10 DEF Update, UpdateNotConnected, UpdateLive, UpdateSpawnFails,
                         UpdateSent, UpdateServed, UpdateDone, PCs, UserPCs
  <2>. QED
      BY <1>4, <2>1, <2>2, <2>3, <2>4, <2>5, <2>6, <2>7, <2>8, <2>10 DEF Updating
<1>5. CASE ThreadFunc
  <2>1. CASE ReaderReadReply
      BY <2>1, ReplyMatch
  <2>2. CASE ReaderDispatch
      BY <2>2, DispatchMatch
  <2>3. CASE ReaderServe
    <3>1. Own(hand) /\ Own(served) /\ Own(cur) /\ Own(calls)
        BY DEF MatchInv
    <3>2. Own(served \o hand)
        BY <3>1, OwnLists DEF TypeOK
    <3>3. Own(hand') /\ Own(served') /\ Own(cur') /\ Own(calls')
        BY <2>3, <3>1, <3>2 DEF ReaderServe, Own
    <3>. QED
        BY <2>3, <3>3, ServedFrame DEF ReaderServe
  <2>4. CASE ReaderTest \/ ReaderReadPush \/ ReaderReadFails \/ ReaderPush \/ ReaderSignal
    <3>1. /\ UNCHANGED <<lists, calls, item, wire, link, printing, pc>>
          /\ thread # "dispatch" /\ thread' # "dispatch"
          /\ sock' \in {sock, "invalid"}
        BY <2>4 DEF ReaderTest, ReaderReadPush, ReaderReadFails, ReaderPush, ReaderSignal
    <3>. QED
        BY <3>1, MatchFrame
  <2>5. ~ReaderMisreads
      BY DEF ReaderMisreads
  <2>. QED
      BY <1>5, <2>1, <2>2, <2>3, <2>4, <2>5 DEF ThreadFunc
<1>6. CASE External
  <2>1. /\ UNCHANGED <<lists, calls, reader, wire, sock, printing, pc>>
        /\ link' = "up" => link = "up"
      BY <1>6 DEF External, ServerAnswer, ServerPush, ServerClose, LinkReset
  <2>. QED
      BY <2>1, MatchFrame
<1>. QED
    BY <1>1, <1>2, <1>3, <1>4, <1>5, <1>6 DEF Next

\* When the reader takes every response for a response, the callback of a request
\* only ever gets the response to that request, and the reader never holds a
\* response nobody waits for: whatever is lost with connections, cancelled or
\* published in between.
THEOREM ResponsesCorrect ==
    ASSUME ReplyKinds = {"plain"}
    PROVE  Spec => [](ResponseMatches /\ ResponseAwaited)
<1>1. Init => MatchInv /\ StreamInv /\ torn = {}
    BY DEF Init, MatchInv, WireMatches, AllPrinted, NothingSent, Own, One, StreamInv,
           ReaderHasStream, ReaderRuns
<1>2. TypeOK /\ StreamInv /\ MatchInv /\ torn = {} /\ [Next]_vars
          => StreamInv' /\ MatchInv' /\ (torn = {})'
    BY StreamStep, MatchStep, WholeStep
<1>3. TypeOK /\ MatchInv => ResponseMatches /\ ResponseAwaited
  <2>. SUFFICES ASSUME TypeOK, MatchInv PROVE ResponseMatches /\ ResponseAwaited
      OBVIOUS
  <2>1. ResponseMatches
      BY DEF MatchInv, Own, ResponseMatches
  <2>2. ResponseAwaited
      BY LenProperties DEF MatchInv, WireMatches, One, ResponseAwaited, TypeOK
  <2>. QED
      BY <2>1, <2>2
<1>. QED
    BY <1>1, <1>2, <1>3, TypeCorrect, PTL DEF Spec
=============================================================================
