------------------------ MODULE ClientTeardownProofs ------------------------
(***************************************************************************)
(* Theorems about ClientTeardown, for any number of clients, requests and  *)
(* faults.                                                                 *)
(***************************************************************************)
EXTENDS ClientTeardown, SequenceTheorems, TLAPS

----------------------------------------------------------------------------
(* The inductive invariant *)

\* What the main thread is about: an Update is for what it returns to.
Phase   == IF pc \in {"update", "wait", "serve"} THEN op ELSE pc
Working == Phase \in {"idle", "flush", "ping"}

\* The requests of the client.
Pending == Len(unsent) + Len(sent) + Len(served)

Types ==
    /\ pc \in {"idle", "update", "wait", "serve", "flush", "ping", "destroy", "delete", "join", "crashed"}
    /\ op \in {"idle", "flush", "ping"}
    /\ address \in Addresses \union {None}
    /\ stream \in Streams \union {None}
    /\ thread \in {"none", "test", "read", "leaving", "exited"}
    /\ Working => unsent \in Seq(Nat)
    /\ sent \in Seq(Nat)
    /\ served \in Seq(Nat \X Nat)
    /\ inFlight \in Int
    /\ ping \in Nat
    /\ clients \in Nat /\ requests \in Nat
    /\ pool \in [Addresses -> Seq(Streams)]
    /\ sock \in [Streams -> {"new", "open", "invalid", "deleted"}]
    /\ addr \in [Streams -> Addresses \union {None}]
    /\ peer \in [Streams -> {"open", "closed", "reset"}]
    /\ asked \in [Streams -> Seq(Nat)]
    /\ wire \in [Streams -> Seq(Nat)]

\* An idle stream is nobody's, and nothing is on its way on it.
Idle(st) == stream # st /\ wire[st] = <<>> /\ asked[st] = <<>>

PoolInv ==
    /\ \A a \in Addresses : IsInjective(pool[a])
    /\ \A a \in Addresses : \A st \in ToSet(pool[a]) :
          sock[st] \in {"open", "invalid"} /\ addr[st] = a /\ Idle(st)
    /\ \A st \in Streams : sock[st] = "new" => Idle(st)

StreamInv ==
    /\ stream # None =>
          /\ addr[stream] = address /\ address # None
          /\ sock[stream] = "deleted" => pc \in {"join", "crashed"}
    /\ stream = None => sent = <<>> /\ pc \notin {"wait", "serve", "delete"}
    /\ thread = "read" => stream # None /\ reads = stream
    /\ address = None => pc \in {"idle", "crashed"}
    /\ address # None => clients >= 1

\* The server owes responses to the requests that were sent, from the oldest on.
WireInv ==
    /\ stream # None =>
          \E rest \in Seq(Nat) :
              /\ sent = wire[stream] \o asked[stream] \o rest
              /\ peer[stream] = "open" => rest = <<>>
    /\ \A x \in ToSet(served) : x[1] = x[2]

\* Flush waits for every request; then PING is the only one, and a reader that has
\* not been told to exit waits for its response.
RecycleInv ==
    /\ Phase \in {"idle", "flush"} => Pending <= inFlight
    /\ Phase = "ping" =>
          /\ signal /\ Pending <= 1
          /\ ping = 0 => pc = "ping" /\ stream # None /\ Pending = 0
          /\ thread = "read" => ping # 0 /\ served = <<>>

Inv == Types /\ PoolInv /\ StreamInv /\ WireInv /\ RecycleInv

----------------------------------------------------------------------------
(* Sequences *)

LEMMA ElementsOfAppend ==
    ASSUME NEW S, NEW s \in Seq(S), NEW x \in S
    PROVE  /\ Append(s, x) \in Seq(S) /\ Len(Append(s, x)) = Len(s) + 1
           /\ ToSet(Append(s, x)) = ToSet(s) \union {x}
<1>1. PICK t \in Seq(S) : t = Append(s, x)
    BY AppendProperties
<1>2. Len(s) \in Nat /\ DOMAIN s = 1 .. Len(s) /\ DOMAIN t = 1 .. Len(s) + 1 /\ Len(t) = Len(s) + 1
    BY <1>1, AppendProperties, LenProperties
<1>3. \A i \in DOMAIN t : IF i = Len(s) + 1 THEN t[i] = x ELSE i \in DOMAIN s /\ t[i] = s[i]
    BY <1>1, <1>2, AppendProperties
<1>4. \A i \in DOMAIN s : i \in DOMAIN t /\ i # Len(s) + 1
    BY <1>2
<1>5. Len(s) + 1 \in DOMAIN t
    BY <1>2
<1>6. ToSet(t) = ToSet(s) \union {x}
    BY <1>3, <1>4, <1>5 DEF ToSet
<1>. QED
    BY <1>1, <1>2, <1>6

LEMMA ElementsOfTail ==
    ASSUME NEW S, NEW s \in Seq(S), s # <<>>
    PROVE  /\ Head(s) \in S /\ Head(s) \in ToSet(s)
           /\ Tail(s) \in Seq(S) /\ Len(Tail(s)) = Len(s) - 1
           /\ \A x \in ToSet(Tail(s)) : x \in ToSet(s)
<1>1. PICK t \in Seq(S) : t = Tail(s)
    BY HeadTailProperties
<1>2. /\ Len(s) \in Nat \ {0} /\ DOMAIN s = 1 .. Len(s)
      /\ Len(t) = Len(s) - 1 /\ DOMAIN t = 1 .. Len(s) - 1
  <2>1. Len(s) \in Nat \ {0} /\ DOMAIN s = 1 .. Len(s)
      BY EmptySeq, LenProperties
  <2>2. Len(t) = Len(s) - 1 /\ DOMAIN t = 1 .. Len(t)
      BY <1>1, HeadTailProperties, LenProperties
  <2>. QED
      BY <2>1, <2>2
<1>3. \A i \in DOMAIN t : i + 1 \in DOMAIN s /\ t[i] = s[i + 1]
    BY <1>1, <1>2, HeadTailProperties
<1>4. 1 \in DOMAIN s /\ Head(s) = s[1] /\ s[1] \in S
    BY <1>2, HeadTailProperties, ElementOfSeq
<1>5. s[1] \in ToSet(s) /\ \A x \in ToSet(t) : x \in ToSet(s)
    BY <1>3, <1>4 DEF ToSet
<1>. QED
    BY <1>1, <1>2, <1>4, <1>5

LEMMA InjectiveTail ==
    ASSUME NEW S, NEW s \in Seq(S), s # <<>>, IsInjective(s)
    PROVE  IsInjective(Tail(s)) /\ Head(s) \notin ToSet(Tail(s))
<1>1. PICK t \in Seq(S) : t = Tail(s)
    BY HeadTailProperties
<1>2. /\ Len(s) \in Nat \ {0} /\ DOMAIN s = 1 .. Len(s)
      /\ Len(t) = Len(s) - 1 /\ DOMAIN t = 1 .. Len(s) - 1
  <2>1. Len(s) \in Nat \ {0} /\ DOMAIN s = 1 .. Len(s)
      BY EmptySeq, LenProperties
  <2>2. Len(t) = Len(s) - 1 /\ DOMAIN t = 1 .. Len(t)
      BY <1>1, HeadTailProperties, LenProperties
  <2>. QED
      BY <2>1, <2>2
<1>3. \A i \in DOMAIN t : i \in Nat \ {0} /\ i + 1 \in DOMAIN s /\ t[i] = s[i + 1]
    BY <1>1, <1>2, HeadTailProperties
<1>4. 1 \in DOMAIN s /\ Head(s) = s[1]
    BY <1>2, HeadTailProperties
<1>5. IsInjective(t)
    BY <1>3 DEF IsInjective
<1>6. s[1] \notin ToSet(t)
    BY <1>3, <1>4 DEF IsInjective, ToSet
<1>. QED
    BY <1>1, <1>4, <1>5, <1>6

LEMMA InjectiveAppend ==
    ASSUME NEW S, NEW s \in Seq(S), IsInjective(s), NEW x \in S, x \notin ToSet(s)
    PROVE  IsInjective(Append(s, x))
<1>1. PICK t \in Seq(S) : t = Append(s, x)
    BY AppendProperties
<1>2. Len(s) \in Nat /\ DOMAIN s = 1 .. Len(s) /\ DOMAIN t = 1 .. Len(s) + 1
    BY <1>1, AppendProperties, LenProperties
<1>3. \A i \in DOMAIN t : IF i = Len(s) + 1 THEN t[i] = x ELSE i \in DOMAIN s /\ t[i] = s[i]
    BY <1>1, <1>2, AppendProperties
<1>4. \A i \in DOMAIN s : s[i] # x
    BY DEF ToSet
<1>5. IsInjective(t)
    BY <1>3, <1>4 DEF IsInjective
<1>. QED
    BY <1>1, <1>5

\* The head of a sequence that begins with w is the head of w.
LEMMA HeadOfConcat ==
    ASSUME NEW S, NEW w \in Seq(S), NEW v \in Seq(S), w # <<>>
    PROVE  /\ w \o v # <<>> /\ Head(w \o v) = Head(w)
           /\ Tail(w \o v) = Tail(w) \o v
<1>1. PICK s \in Seq(S) : s = w \o v
    BY ConcatProperties
<1>2. /\ Len(w) \in Nat \ {0} /\ Len(v) \in Nat /\ Len(s) = Len(w) + Len(v)
      /\ \A i \in 1 .. Len(w) + Len(v) : s[i] = IF i <= Len(w) THEN w[i] ELSE v[i - Len(w)]
    BY <1>1, ConcatProperties, LenProperties, EmptySeq
<1>3. s # <<>> /\ Head(s) = s[1] /\ Head(w) = w[1] /\ s[1] = w[1]
    BY <1>2, EmptySeq, HeadTailProperties
<1>4. PICK x \in Seq(S) : x = Tail(w)
    BY HeadTailProperties
<1>5. Len(x) = Len(w) - 1 /\ \A i \in 1 .. Len(w) - 1 : x[i] = w[i + 1]
    BY <1>4, HeadTailProperties
<1>6. PICK y \in Seq(S) : y = x \o v
    BY ConcatProperties
<1>7. /\ Len(y) = Len(w) - 1 + Len(v)
      /\ \A i \in 1 .. Len(w) - 1 + Len(v) : y[i] = IF i <= Len(w) - 1 THEN x[i] ELSE v[i - (Len(w) - 1)]
  <2>1. /\ Len(y) = Len(x) + Len(v)
        /\ \A i \in 1 .. Len(x) + Len(v) : y[i] = IF i <= Len(x) THEN x[i] ELSE v[i - Len(x)]
      BY <1>6, ConcatProperties
  <2>2. Len(x) = Len(w) - 1
      BY <1>5
  <2>. QED
      BY <2>1, <2>2
<1>8. PICK z \in Seq(S) : z = Tail(s)
    BY <1>3, HeadTailProperties
<1>9. Len(z) = Len(w) + Len(v) - 1 /\ \A i \in 1 .. Len(w) + Len(v) - 1 : z[i] = s[i + 1]
    BY <1>2, <1>3, <1>8, HeadTailProperties
<1>10. Len(y) = Len(z) /\ \A i \in 1 .. Len(y) : y[i] = z[i]
    BY <1>2, <1>5, <1>7, <1>9
<1>11. y = z
    BY <1>10, SeqEqual
<1>. QED
    BY <1>1, <1>3, <1>4, <1>6, <1>8, <1>11

LEMMA Regrouped ==
    \A x, y, z \in Seq(Nat) : (x \o y) \o z = x \o (y \o z)
    OBVIOUS

\* Nothing is in the parts of an empty sequence.
LEMMA EmptyConcat ==
    ASSUME NEW S, NEW w \in Seq(S), NEW v \in Seq(S), w \o v = <<>>
    PROVE  w = <<>> /\ v = <<>>
<1>1. Len(w \o v) = Len(w) + Len(v) /\ Len(w) \in Nat /\ Len(v) \in Nat
    BY ConcatProperties, LenProperties
<1>2. Len(w \o v) = 0
    BY EmptySeq
<1>3. Len(w) = 0 /\ Len(v) = 0
    BY <1>1, <1>2
<1>. QED
    BY <1>3, EmptySeq

\* What moves from the head of one to the end of the other stays where it was.
LEMMA HeadMoves ==
    ASSUME NEW S, NEW w \in Seq(S), NEW v \in Seq(S), v # <<>>
    PROVE  Append(w, Head(v)) \o Tail(v) = w \o v
<1>1. Head(v) \in S /\ Tail(v) \in Seq(S) /\ v = <<Head(v)>> \o Tail(v)
    BY HeadTailProperties
<1>2. Append(w, Head(v)) = w \o <<Head(v)>> /\ <<Head(v)>> \in Seq(S)
    BY <1>1, AppendIsConcat
<1>3. (w \o <<Head(v)>>) \o Tail(v) = w \o (<<Head(v)>> \o Tail(v))
    BY <1>1, <1>2, ConcatAssociative
<1>. QED
    BY <1>1, <1>2, <1>3

----------------------------------------------------------------------------
(* Types *)

LEMMA InitTypes == Init => Types
    BY BoundsAssumption DEF Init, PoolInit, Types, Working, Phase

LEMMA CallTypes ==
    ASSUME Types, StreamInv,
           \/ \E a \in Addresses : Create(a)
           \/ MakeRequestAsync \/ Update \/ \E recycle \in BOOLEAN : Destroy(recycle)
    PROVE  Types'
<1>1. CASE \E a \in Addresses : Create(a)
    BY <1>1 DEF Types, Working, Phase, Create, poolVars, serverVars
<1>2. CASE MakeRequestAsync
    BY <1>2 DEF Types, Working, Phase, MakeRequestAsync, poolVars, serverVars
<1>3. CASE Update
    BY <1>3 DEF Types, Working, Phase, Update, Waiting, poolVars, clientVars, serverVars, bounds
<1>4. CASE \E recycle \in BOOLEAN : Destroy(recycle)
    BY <1>4 DEF Types, Working, Phase, Destroy, poolVars, clientVars, serverVars, bounds
<1>. QED
    BY <1>1, <1>2, <1>3, <1>4

LEMMA UpdatingTypes ==
    ASSUME Types, StreamInv, Updating
    PROVE  Types'
<1>1. CASE UpdateConnect
  <2>1. address \in Addresses /\ pool[address] \in Seq(Streams)
      BY <1>1 DEF Types, StreamInv, UpdateConnect
  <2>2. pool[address] # <<>> => Head(pool[address]) \in Streams /\ Tail(pool[address]) \in Seq(Streams)
      BY <2>1, HeadTailProperties
  <2>3. /\ stream' \in Streams \union {None} /\ pool' \in [Addresses -> Seq(Streams)]
        /\ sock' \in [Streams -> {"new", "open", "invalid", "deleted"}]
        /\ addr' \in [Streams -> Addresses \union {None}]
        /\ pc' \in {pc, op}
      BY <1>1, <2>1, <2>2 DEF Types, UpdateConnect, CheckoutSocketStream, CheckoutFails, poolVars
  <2>. QED
      BY <1>1, <2>3 DEF Types, Working, Phase, UpdateConnect, serverVars, bounds
<1>2. CASE UpdateLost \/ UpdateWaited
  <2>1. stream \in Streams /\ <<>> \in Seq(Nat)
      BY <1>2 DEF Types, StreamInv, UpdateLost, UpdateWaited
  <2>. QED
    BY <1>2, <2>1 DEF Types, Working, Phase, UpdateLost, UpdateWaited, LoseStream, poolVars, serverVars, bounds
<1>3. CASE UpdateWaits
    BY <1>3 DEF Types, Working, Phase, UpdateWaits, poolVars, clientVars, serverVars, bounds
<1>4. CASE UpdateSpawn
    BY <1>4 DEF Types, Working, Phase, UpdateSpawn, poolVars, serverVars, bounds
<1>5. CASE UpdateThreadExited
    BY <1>5 DEF Types, Working, Phase, UpdateThreadExited, poolVars, serverVars, bounds
<1>6. CASE UpdateSend
  <2>1. stream \in Streams /\ unsent \in Seq(Nat)
      BY <1>6 DEF Types, Working, Phase, UpdateSend, Connected
  <2>2. sent \o unsent \in Seq(Nat) /\ asked[stream] \o unsent \in Seq(Nat) /\ <<>> \in Seq(Nat)
      BY <2>1, ConcatProperties DEF Types
  <2>3. /\ sent' \in Seq(Nat) /\ unsent' \in Seq(Nat) /\ asked' \in [Streams -> Seq(Nat)]
        /\ peer' \in [Streams -> {"open", "closed", "reset"}]
      BY <1>6, <2>1, <2>2 DEF Types, UpdateSend
  <2>. QED
      BY <1>6, <2>3 DEF Types, UpdateSend, poolVars, bounds
<1>7. CASE UpdateServe
    BY <1>7 DEF Types, Working, Phase, UpdateServe, poolVars, serverVars, bounds
<1>. QED
    BY <1>1, <1>2, <1>3, <1>4, <1>5, <1>6, <1>7 DEF Updating

\* What is left of the unsent requests does not matter: none of them will be sent.
LEMMA GivesUp ==
    ASSUME TimesOut
    PROVE  /\ pc \in {"flush", "ping"} /\ pc' = "destroy"
           /\ UNCHANGED <<poolVars, op, address, stream, thread, reads, signal, sent, served,
                          inFlight, ping, serverVars, touched, bounds>>
    BY Zenon DEF TimesOut, Waiting

LEMMA DestroyingTypes ==
    ASSUME Types, StreamInv, RecycleInv, Destroying \/ TimesOut
    PROVE  Types'
<1>1. CASE Flushed
  <2>1. MaxRequests + clients \in Nat /\ unsent \in Seq(Nat)
      BY <1>1, BoundsAssumption DEF Types, Working, Phase, Flushed
  <2>2. Append(unsent, MaxRequests + clients) \in Seq(Nat)
      BY <2>1, AppendProperties
  <2>3. CASE Recyclable
    <3>1. /\ ping' = MaxRequests + clients /\ unsent' = Append(unsent, ping')
          /\ inFlight' = inFlight + 1 /\ pc' = "ping"
        BY <1>1, <2>3 DEF Flushed
    <3>2. ping' \in Nat /\ unsent' \in Seq(Nat) /\ inFlight' \in Int
        BY <2>1, <2>2, <3>1 DEF Types
    <3>. QED
        BY <1>1, <3>1, <3>2 DEF Types, Working, Phase, Flushed, poolVars, serverVars, bounds
  <2>4. CASE ~Recyclable
      BY <1>1, <2>1, <2>4 DEF Types, Working, Phase, Flushed, poolVars, serverVars, bounds
  <2>. QED
      BY <2>3, <2>4
<1>2. CASE Recycle
  <2>1. stream \in Streams /\ addr[stream] \in Addresses /\ pool[addr[stream]] \in Seq(Streams)
      BY <1>2 DEF Types, StreamInv, RecycleInv, Phase, Recycle
  <2>2. Append(pool[addr[stream]], stream) \in Seq(Streams)
      BY <2>1, AppendProperties
  <2>. QED
    BY <1>2, <2>1, <2>2 DEF Types, Working, Phase, Recycle, CheckinSocketStream, serverVars, bounds
<1>3. CASE Disconnect
    BY <1>3 DEF Types, Working, Phase, Disconnect, clientVars, serverVars, bounds
<1>4. CASE DeleteStream
    BY <1>4 DEF Types, Working, Phase, DeleteStream, clientVars, serverVars, bounds
<1>5. CASE Join
    BY <1>5 DEF Types, Working, Phase, Join, NoClient, poolVars, serverVars, bounds
<1>6. CASE TimesOut
    BY <1>6, GivesUp DEF Types, Working, Phase, poolVars, serverVars, bounds
<1>. QED
    BY <1>1, <1>2, <1>3, <1>4, <1>5, <1>6 DEF Destroying

LEMMA ReaderTypes ==
    ASSUME Types, StreamInv, ThreadFunc
    PROVE  Types'
<1>1. CASE ReaderTest
    BY <1>1 DEF Types, Working, Phase, ReaderTest, poolVars, serverVars, bounds
<1>2. CASE ReaderTestsGone \/ ReaderFailsGone
    BY <1>2 DEF Types, Working, Phase, ReaderTestsGone, ReaderFailsGone, UseOfGone, poolVars, serverVars, bounds
<1>3. CASE ReaderRead
  <2>1. reads \in Streams /\ wire[reads] \in Seq(Nat) /\ wire[reads] # <<>>
      BY <1>3 DEF Types, ReaderRead, StreamInv
  <2>2. Head(wire[reads]) \in Nat /\ Tail(wire[reads]) \in Seq(Nat)
      BY <2>1, HeadTailProperties
  <2>3. ASSUME sent # <<>>
        PROVE  Tail(sent) \in Seq(Nat) /\ Append(served, <<Head(sent), Head(wire[reads])>>) \in Seq(Nat \X Nat)
    <3>1. Head(sent) \in Nat /\ Tail(sent) \in Seq(Nat)
        BY <2>3, HeadTailProperties DEF Types
    <3>2. <<Head(sent), Head(wire[reads])>> \in Nat \X Nat
        BY <2>2, <3>1
    <3>. QED
        BY <3>1, <3>2, AppendProperties DEF Types
  <2>4. /\ sent' \in Seq(Nat) /\ served' \in Seq(Nat \X Nat)
        /\ wire' \in [Streams -> Seq(Nat)]
      BY <1>3, <2>1, <2>2, <2>3 DEF Types, ReaderRead
  <2>. QED
      BY <1>3, <2>4 DEF Types, Working, Phase, ReaderRead, poolVars, bounds
<1>4. CASE ReaderFails
    BY <1>4 DEF Types, Working, Phase, ReaderFails, StreamInv, serverVars, bounds
<1>5. CASE ReaderExits
    BY <1>5 DEF Types, Working, Phase, ReaderExits, poolVars, serverVars, bounds
<1>. QED
    BY <1>1, <1>2, <1>3, <1>4, <1>5 DEF ThreadFunc

LEMMA ServerTypes ==
    ASSUME Types,
           \/ \E st \in Streams : ServerAnswer(st)
           \/ \E st \in Streams, how \in {"closed", "reset"} : ServerClose(st, how)
    PROVE  Types'
<1>1. CASE \E st \in Streams : ServerAnswer(st)
    BY <1>1 DEF Types, Working, Phase, ServerAnswer, poolVars, clientVars, bounds
<1>2. CASE \E st \in Streams, how \in {"closed", "reset"} : ServerClose(st, how)
    BY <1>2 DEF Types, Working, Phase, ServerClose, poolVars, clientVars, bounds
<1>. QED
    BY <1>1, <1>2

LEMMA TypeStep ==
    ASSUME Types, StreamInv, RecycleInv, Next
    PROVE  Types'
    BY CallTypes, UpdatingTypes, DestroyingTypes, ReaderTypes, ServerTypes DEF Next

----------------------------------------------------------------------------
(* The pool *)

LEMMA PooledAreStreams ==
    ASSUME Types, NEW a \in Addresses, NEW st \in ToSet(pool[a])
    PROVE  st \in Streams
<1>1. PICK s \in Seq(Streams) : s = pool[a]
    BY DEF Types
<1>2. PICK i \in DOMAIN s : s[i] = st
    BY <1>1 DEF ToSet
<1>. QED
    BY <1>2, LenProperties, ElementOfSeq

\* What happens to a stream that is in use leaves the idle ones alone.
LEMMA InUse ==
    ASSUME Types, PoolInv, NEW u \in Streams, ~Idle(u), pool' = pool,
           \A st \in Streams \ {u} :
               /\ sock'[st] = sock[st] /\ addr'[st] = addr[st]
               /\ wire'[st] = wire[st] /\ asked'[st] = asked[st],
           sock'[u] # "new", stream' \in {stream, None}
    PROVE  PoolInv'
<1>1. None \notin Streams
    BY PoolAssumption
<1>2. \A st \in Streams : Idle(st) => Idle(st)'
    BY <1>1 DEF Idle
<1>3. ASSUME NEW a \in Addresses, NEW st \in ToSet(pool[a])
      PROVE  sock'[st] \in {"open", "invalid"} /\ addr'[st] = a /\ Idle(st)'
  <2>1. st \in Streams /\ sock[st] \in {"open", "invalid"} /\ addr[st] = a /\ Idle(st)
      BY PooledAreStreams DEF PoolInv
  <2>2. st \in Streams \ {u}
      BY <2>1
  <2>. QED
      BY <1>2, <2>1, <2>2
<1>4. ASSUME NEW st \in Streams, sock'[st] = "new"
      PROVE  Idle(st)'
  <2>1. st \in Streams \ {u}
      BY <1>4
  <2>. QED
      BY <1>2, <1>4, <2>1 DEF PoolInv
<1>. QED
    BY <1>3, <1>4 DEF PoolInv

LEMMA PoolFrame ==
    ASSUME Types, PoolInv, UNCHANGED <<poolVars, asked, wire>>, stream' \in {stream, None}
    PROVE  PoolInv'
<1>1. None \notin Streams
    BY PoolAssumption
<1>2. \A st \in Streams : Idle(st) => Idle(st)'
    BY <1>1 DEF Idle
<1>3. \A a \in Addresses : \A st \in ToSet(pool[a]) : st \in Streams
    BY PooledAreStreams
<1>. QED
    BY <1>2, <1>3 DEF PoolInv, poolVars

\* A stream that is handed out is no longer in the pool, and it is idle but for
\* its new owner.
LEMMA CheckoutPool ==
    ASSUME Types, PoolInv, StreamInv, UpdateConnect
    PROVE  /\ PoolInv'
           /\ stream' # None =>
                 /\ stream' \in Streams
                 /\ addr'[stream'] = address /\ sock'[stream'] \in {"open", "invalid"}
                 /\ wire[stream'] = <<>> /\ asked[stream'] = <<>>
<1>0. address \in Addresses /\ stream = None /\ UNCHANGED <<asked, wire>>
    BY DEF Types, StreamInv, UpdateConnect, serverVars
<1>1. CASE CheckoutFails(address) /\ UNCHANGED stream
    BY <1>0, <1>1, PoolFrame DEF CheckoutFails
<1>2. ASSUME NEW st \in Streams, CheckoutSocketStream(address, st), stream' = st
      PROVE  /\ PoolInv'
             /\ addr'[st] = address /\ sock'[st] \in {"open", "invalid"}
             /\ wire[st] = <<>> /\ asked[st] = <<>>
  <2>1. CASE pool[address] # <<>>
    <3>1. PICK s \in Seq(Streams) : s = pool[address]
        BY <1>0 DEF Types
    <3>2. s # <<>> /\ IsInjective(s) /\ st = Head(s)
        BY <1>0, <1>2, <2>1, <3>1 DEF PoolInv, CheckoutSocketStream
    <3>3. /\ st \in ToSet(s) /\ IsInjective(Tail(s)) /\ st \notin ToSet(Tail(s))
          /\ \A x \in ToSet(Tail(s)) : x \in ToSet(s)
        BY <3>2, ElementsOfTail, InjectiveTail
    <3>4. /\ pool'[address] = Tail(s) /\ \A a \in Addresses \ {address} : pool'[a] = pool[a]
          /\ sock' = sock /\ addr' = addr
        BY <1>0, <1>2, <2>1, <3>1 DEF CheckoutSocketStream, Types
    <3>5. sock[st] \in {"open", "invalid"} /\ addr[st] = address /\ Idle(st)
        BY <1>0, <3>1, <3>3 DEF PoolInv
    <3>6. ASSUME NEW a \in Addresses
          PROVE  /\ IsInjective(pool'[a])
                 /\ \A x \in ToSet(pool'[a]) : x \in ToSet(pool[a]) /\ x # st
      <4>1. CASE a = address
          BY <3>1, <3>3, <3>4, <4>1
      <4>2. CASE a # address
        <5>1. pool'[a] = pool[a]
            BY <3>4, <4>2
        <5>2. \A x \in ToSet(pool[a]) : addr[x] = a
            BY DEF PoolInv
        <5>. QED
            BY <3>5, <4>2, <5>1, <5>2 DEF PoolInv
      <4>. QED
          BY <4>1, <4>2
    <3>7. \A x \in Streams : Idle(x) /\ x # st => Idle(x)'
        BY <1>0, <1>2 DEF Idle
    <3>8. \A a \in Addresses : \A x \in ToSet(pool[a]) : x \in Streams
        BY PooledAreStreams
    <3>9. \A x \in Streams : sock'[x] = "new" => Idle(x)'
        BY <3>4, <3>5, <3>7 DEF PoolInv
    <3>10. \A a \in Addresses : \A x \in ToSet(pool'[a]) :
               sock'[x] \in {"open", "invalid"} /\ addr'[x] = a /\ Idle(x)'
        BY <3>4, <3>6, <3>7, <3>8 DEF PoolInv
    <3>. QED
        BY <3>4, <3>5, <3>6, <3>9, <3>10 DEF PoolInv, Idle
  <2>2. CASE pool[address] = <<>>
    <3>1. /\ pool' = pool /\ sock[st] = "new"
          /\ sock'[st] = "open" /\ addr'[st] = address
          /\ \A x \in Streams \ {st} : sock'[x] = sock[x] /\ addr'[x] = addr[x]
        BY <1>2, <2>2 DEF CheckoutSocketStream, Types
    <3>2. Idle(st)
        BY <3>1 DEF PoolInv
    <3>3. \A x \in Streams \ {st} : Idle(x) => Idle(x)'
        BY <1>0, <1>2 DEF Idle
    <3>4. ASSUME NEW a \in Addresses, NEW x \in ToSet(pool[a])
          PROVE  sock'[x] \in {"open", "invalid"} /\ addr'[x] = a /\ Idle(x)'
      <4>1. x \in Streams /\ sock[x] \in {"open", "invalid"} /\ addr[x] = a /\ Idle(x)
          BY PooledAreStreams DEF PoolInv
      <4>2. x \in Streams \ {st}
          BY <3>1, <4>1
      <4>. QED
          BY <3>1, <3>3, <4>1, <4>2
    <3>5. ASSUME NEW x \in Streams, sock'[x] = "new"
          PROVE  Idle(x)'
      <4>1. x \in Streams \ {st}
          BY <3>1, <3>5
      <4>. QED
          BY <3>1, <3>3, <3>5, <4>1 DEF PoolInv
    <3>. QED
        BY <3>1, <3>2, <3>4, <3>5 DEF PoolInv, Idle
  <2>. QED
      BY <2>1, <2>2
<1>3. \/ \E st \in Streams : CheckoutSocketStream(address, st) /\ stream' = st
      \/ CheckoutFails(address) /\ UNCHANGED stream
    BY DEF UpdateConnect
<1>. QED
    BY <1>0, <1>1, <1>2, <1>3

\* A stream that is checked in is in the pool once, and nothing will come on it.
LEMMA CheckinPool ==
    ASSUME Types, PoolInv, StreamInv, WireInv, RecycleInv, Recycle
    PROVE  PoolInv'
<1>1. /\ stream \in Streams /\ address \in Addresses /\ addr[stream] = address
      /\ sock[stream] \in {"open", "invalid"} \/ sock[stream] = "new"
      /\ stream' = None /\ UNCHANGED <<sock, addr, asked, wire>>
    BY DEF Types, StreamInv, RecycleInv, Phase, Recycle, CheckinSocketStream, serverVars
<1>2. None \notin Streams
    BY PoolAssumption
<1>3. sent = <<>>
    BY EmptySeq, LenProperties DEF Types, RecycleInv, Phase, Pending, Recycle, Working
<1>4. wire[stream] = <<>> /\ asked[stream] = <<>>
  <2>1. PICK w \in Seq(Nat), v \in Seq(Nat) : w = wire[stream] /\ v = asked[stream]
      BY <1>1 DEF Types
  <2>2. PICK rest \in Seq(Nat) : sent = (w \o v) \o rest
      BY <1>1, <1>2, <2>1 DEF WireInv
  <2>3. PICK t \in Seq(Nat) : t = w \o v
      BY ConcatProperties
  <2>4. t = <<>>
      BY <1>3, <2>2, <2>3, EmptyConcat
  <2>. QED
      BY <2>1, <2>3, <2>4, EmptyConcat
<1>5. sock[stream] # "new"
    BY <1>1, <1>2 DEF PoolInv, Idle
<1>6. PICK s \in Seq(Streams) : s = pool[address]
    BY <1>1 DEF Types
<1>7. /\ pool'[address] = Append(s, stream)
      /\ \A a \in Addresses \ {address} : pool'[a] = pool[a]
    BY <1>1, <1>6 DEF Recycle, CheckinSocketStream, Types
<1>8. stream \notin ToSet(s) /\ IsInjective(s)
    BY <1>1, <1>6 DEF PoolInv, Idle
<1>9. IsInjective(Append(s, stream)) /\ ToSet(Append(s, stream)) = ToSet(s) \union {stream}
    BY <1>1, <1>8, InjectiveAppend, ElementsOfAppend
<1>10. \A x \in Streams : Idle(x) => Idle(x)'
    BY <1>1, <1>2 DEF Idle
<1>11. stream' # stream /\ wire'[stream] = <<>> /\ asked'[stream] = <<>>
    BY <1>1, <1>2, <1>4
<1>12. ASSUME NEW a \in Addresses
       PROVE  /\ IsInjective(pool'[a])
              /\ \A x \in ToSet(pool'[a]) :
                    sock'[x] \in {"open", "invalid"} /\ addr'[x] = a /\ Idle(x)'
  <2>1. CASE a = address
    <3>1. ASSUME NEW x \in ToSet(s)
          PROVE  sock[x] \in {"open", "invalid"} /\ addr[x] = a /\ Idle(x)'
        BY <1>1, <1>6, <1>10, <2>1, PooledAreStreams DEF PoolInv
    <3>2. ASSUME NEW x \in ToSet(pool'[a])
          PROVE  sock'[x] \in {"open", "invalid"} /\ addr'[x] = a /\ Idle(x)'
      <4>1. CASE x \in ToSet(s)
          BY <1>1, <3>1, <4>1
      <4>2. CASE x = stream
          BY <1>1, <1>5, <1>11, <2>1, <4>2 DEF Idle
      <4>. QED
          BY <1>7, <1>9, <2>1, <4>1, <4>2
    <3>. QED
        BY <1>7, <1>9, <2>1, <3>2
  <2>2. CASE a # address
    <3>1. pool'[a] = pool[a]
        BY <1>7, <2>2
    <3>2. ASSUME NEW x \in ToSet(pool[a])
          PROVE  sock[x] \in {"open", "invalid"} /\ addr[x] = a /\ Idle(x)'
        BY <1>10, PooledAreStreams DEF PoolInv
    <3>. QED
        BY <1>1, <3>1, <3>2 DEF PoolInv
  <2>. QED
      BY <2>1, <2>2
<1>. QED
    BY <1>1, <1>10, <1>12 DEF PoolInv

LEMMA PoolStep ==
    ASSUME Inv, Next
    PROVE  PoolInv'
<1>. USE DEF Inv
<1>1. CASE \/ \E a \in Addresses : Create(a)
           \/ MakeRequestAsync \/ Update \/ \E recycle \in BOOLEAN : Destroy(recycle)
  <2>1. UNCHANGED <<poolVars, asked, wire>> /\ stream' = stream
      BY <1>1 DEF Create, MakeRequestAsync, Update, Destroy, clientVars, serverVars
  <2>. QED
      BY <2>1, PoolFrame
<1>2. CASE UpdateConnect
    BY <1>2, CheckoutPool
<1>3. CASE UpdateLost \/ UpdateWaited \/ UpdateSend
  <2>1. /\ stream \in Streams /\ ~Idle(stream)
      BY <1>3 DEF Types, StreamInv, UpdateLost, UpdateWaited, UpdateSend, Connected, Idle
  <2>2. /\ pool' = pool /\ addr' = addr /\ wire' = wire /\ stream' \in {stream, None}
        /\ sock'[stream] # "new"
        /\ \A st \in Streams \ {stream} : sock'[st] = sock[st] /\ asked'[st] = asked[st]
      BY <1>3, <2>1 DEF Types, UpdateLost, UpdateWaited, LoseStream, UpdateSend, Connected, poolVars, serverVars
  <2>. QED
      BY <2>1, <2>2, InUse
<1>4. CASE UpdateWaits \/ UpdateSpawn \/ UpdateThreadExited \/ UpdateServe \/ TimesOut
  <2>1. UNCHANGED <<poolVars, asked, wire>> /\ stream' = stream
      BY <1>4, GivesUp DEF UpdateWaits, UpdateSpawn, UpdateThreadExited, UpdateServe, clientVars, serverVars
  <2>. QED
      BY <2>1, PoolFrame
<1>5. CASE Flushed \/ Join
  <2>1. UNCHANGED <<poolVars, asked, wire>> /\ stream' \in {stream, None}
      BY <1>5 DEF Flushed, Join, NoClient, clientVars, serverVars
  <2>. QED
      BY <2>1, PoolFrame
<1>6. CASE Recycle
    BY <1>6, CheckinPool
<1>7. CASE Disconnect \/ DeleteStream
  <2>1. CASE stream = None
    <3>1. UNCHANGED <<poolVars, asked, wire>> /\ stream' = stream
        BY <1>7, <2>1 DEF Disconnect, DeleteStream, StreamInv, poolVars, clientVars, serverVars
    <3>. QED
        BY <3>1, PoolFrame
  <2>2. CASE stream # None
    <3>1. stream \in Streams /\ ~Idle(stream)
        BY <2>2 DEF Types, Idle
    <3>2. /\ pool' = pool /\ addr' = addr /\ wire' = wire /\ asked' = asked /\ stream' = stream
          /\ sock'[stream] # "new"
          /\ \A st \in Streams \ {stream} : sock'[st] = sock[st]
        BY <1>7, <3>1, <2>2 DEF Types, Disconnect, DeleteStream, clientVars, serverVars
    <3>. QED
        BY <3>1, <3>2, InUse
  <2>. QED
      BY <2>1, <2>2
<1>8. CASE ReaderRead \/ ReaderFails
  <2>1. stream \in Streams /\ reads = stream /\ ~Idle(stream)
      BY <1>8 DEF Types, StreamInv, ReaderRead, ReaderFails, Idle
  <2>2. /\ pool' = pool /\ addr' = addr /\ asked' = asked /\ stream' = stream
        /\ sock'[stream] # "new"
        /\ \A st \in Streams \ {stream} : sock'[st] = sock[st] /\ wire'[st] = wire[st]
      BY <1>8, <2>1 DEF Types, ReaderRead, ReaderFails, poolVars, serverVars
  <2>. QED
      BY <2>1, <2>2, InUse
<1>9. CASE ReaderTest \/ ReaderTestsGone \/ ReaderFailsGone \/ ReaderExits
  <2>1. UNCHANGED <<poolVars, asked, wire>> /\ stream' = stream
      BY <1>9 DEF ReaderTest, ReaderTestsGone, ReaderFailsGone, UseOfGone, ReaderExits, serverVars
  <2>. QED
      BY <2>1, PoolFrame
<1>10. ASSUME NEW st \in Streams, ServerAnswer(st)
       PROVE  PoolInv'
  <2>1. ~Idle(st) /\ sock[st] # "new"
      BY <1>10 DEF ServerAnswer, PoolInv, Idle
  <2>2. /\ pool' = pool /\ addr' = addr /\ sock' = sock /\ stream' = stream
        /\ \A x \in Streams \ {st} : asked'[x] = asked[x] /\ wire'[x] = wire[x]
      BY <1>10 DEF Types, ServerAnswer, poolVars, clientVars
  <2>. QED
      BY <2>1, <2>2, InUse
<1>11. CASE \E st \in Streams, how \in {"closed", "reset"} : ServerClose(st, how)
  <2>1. UNCHANGED <<poolVars, asked, wire>> /\ stream' = stream
      BY <1>11 DEF ServerClose, clientVars
  <2>. QED
      BY <2>1, PoolFrame
<1>. QED
    BY <1>1, <1>2, <1>3, <1>4, <1>5, <1>6, <1>7, <1>8, <1>9, <1>10, <1>11
       DEF Next, Updating, Destroying, ThreadFunc

----------------------------------------------------------------------------
(* The client and its stream *)

LEMMA StreamStep ==
    ASSUME Inv, Next
    PROVE  StreamInv'
<1>. USE DEF Inv
<1>1. CASE \E a \in Addresses : Create(a)
    BY <1>1 DEF Types, StreamInv, Create, poolVars
<1>2. CASE \/ MakeRequestAsync \/ Update \/ \E recycle \in BOOLEAN : Destroy(recycle)
    BY <1>2 DEF StreamInv, MakeRequestAsync, Update, Waiting, Destroy, poolVars, clientVars, bounds
<1>3. CASE UpdateConnect
  <2>1. /\ stream = None /\ address \in Addresses /\ address' = address /\ clients' = clients
        /\ sent' = sent /\ thread' = thread /\ reads' = reads
        /\ stream' = None => pc' = op
        /\ address # None /\ thread # "read"
      BY <1>3, PoolAssumption DEF Types, StreamInv, UpdateConnect, bounds
  <2>2. stream' # None => addr'[stream'] = address /\ sock'[stream'] \in {"open", "invalid"}
      BY <1>3, CheckoutPool
  <2>. QED
      BY <2>1, <2>2 DEF Types, StreamInv
<1>4. CASE UpdateLost \/ UpdateWaited
    BY <1>4 DEF Types, StreamInv, UpdateLost, UpdateWaited, LoseStream, Running, bounds
<1>5. CASE UpdateWaits \/ UpdateSpawn \/ UpdateThreadExited
    BY <1>5 DEF Types, StreamInv, UpdateWaits, UpdateSpawn, UpdateThreadExited, poolVars, clientVars, bounds
<1>6. CASE UpdateSend
    BY <1>6 DEF Types, StreamInv, UpdateSend, Connected, poolVars, bounds
<1>7. CASE UpdateServe
    BY <1>7 DEF Types, StreamInv, UpdateServe, poolVars, bounds
<1>8. CASE Flushed
    BY <1>8 DEF StreamInv, Flushed, poolVars, bounds
<1>9. CASE TimesOut
    BY <1>9, GivesUp DEF StreamInv, poolVars, bounds
<1>10. CASE Recycle
  <2>1. sent = <<>>
      BY <1>10, EmptySeq, LenProperties DEF Types, RecycleInv, Phase, Pending, Recycle, Working
  <2>2. thread # "read"
      BY <1>10 DEF RecycleInv, Phase, Recycle
  <2>. QED
      BY <1>10, <2>1, <2>2 DEF StreamInv, Recycle, CheckinSocketStream, bounds
<1>11. CASE Disconnect \/ DeleteStream
    BY <1>11 DEF Types, StreamInv, Disconnect, DeleteStream, clientVars, bounds
<1>12. CASE Join
    BY <1>12 DEF StreamInv, Join, NoClient
<1>13. CASE ReaderTest
    BY <1>13 DEF Types, StreamInv, ReaderTest, Gone, poolVars, bounds
<1>14. CASE ReaderTestsGone \/ ReaderFailsGone
    BY <1>14 DEF StreamInv, ReaderTestsGone, ReaderFailsGone, UseOfGone, poolVars, bounds
<1>15. CASE ReaderRead
    BY <1>15 DEF StreamInv, ReaderRead, poolVars, bounds
<1>16. CASE ReaderFails
    BY <1>16 DEF Types, StreamInv, ReaderFails, bounds
<1>17. CASE ReaderExits
    BY <1>17 DEF StreamInv, ReaderExits, poolVars, bounds
<1>18. CASE \E st \in Streams : ServerAnswer(st)
    BY <1>18 DEF StreamInv, ServerAnswer, poolVars, clientVars, bounds
<1>19. CASE \E st \in Streams, how \in {"closed", "reset"} : ServerClose(st, how)
    BY <1>19 DEF StreamInv, ServerClose, poolVars, clientVars
<1>. QED
    BY <1>1, <1>2, <1>3, <1>4, <1>5, <1>6, <1>7, <1>8, <1>9, <1>10, <1>11, <1>12, <1>13, <1>14,
       <1>15, <1>16, <1>17, <1>18, <1>19
       DEF Next, Updating, Destroying, ThreadFunc

----------------------------------------------------------------------------
(* The responses on their way *)

LEMMA WireFrame ==
    ASSUME WireInv, sent' = sent, served' = served,
           \/ stream' = None
           \/ /\ stream' = stream /\ wire' = wire /\ asked' = asked
              /\ stream # None /\ peer'[stream] = "open" => peer[stream] = "open"
    PROVE  WireInv'
    BY DEF WireInv

\* What is printed is asked for, or the server takes no more.
LEMMA SendWire ==
    ASSUME Inv, UpdateSend
    PROVE  WireInv'
<1>. USE DEF Inv
<1>1. /\ stream \in Streams /\ stream # None /\ stream' = stream /\ wire' = wire
      /\ served' = served /\ sent' = sent \o unsent
      /\ unsent \in Seq(Nat)
    BY DEF Types, UpdateSend, Connected, Working, Phase
<1>2. PICK w \in Seq(Nat), v \in Seq(Nat), u \in Seq(Nat) : w = wire[stream] /\ v = asked[stream] /\ u = unsent
    BY <1>1 DEF Types
<1>3. PICK rest \in Seq(Nat) : sent = (w \o v) \o rest /\ (peer[stream] = "open" => rest = <<>>)
    BY <1>1, <1>2 DEF WireInv
<1>4. w \o v \in Seq(Nat) /\ rest \o u \in Seq(Nat) /\ v \o u \in Seq(Nat) /\ <<>> \in Seq(Nat)
    BY ConcatProperties, EmptySeq
<1>5. CASE peer[stream] = "open"
  <2>1. asked'[stream] = v \o u /\ rest = <<>>
      BY <1>1, <1>2, <1>3, <1>5 DEF UpdateSend, Types
  <2>2. (w \o v) \o rest = w \o v
      BY <1>4, <2>1, ConcatEmptySeq
  <2>3. (w \o v) \o u = w \o (v \o u)
      BY Regrouped
  <2>4. (w \o (v \o u)) \o <<>> = w \o (v \o u)
    <3>1. w \o (v \o u) \in Seq(Nat)
        BY <1>4, ConcatProperties
    <3>. QED
        BY <3>1, ConcatEmptySeq
  <2>5. sent' = (wire'[stream'] \o asked'[stream']) \o <<>>
      BY <1>1, <1>2, <1>3, <2>1, <2>2, <2>3, <2>4
  <2>. QED
      BY <1>1, <1>4, <2>5 DEF WireInv
<1>6. CASE peer[stream] # "open"
  <2>1. asked' = asked /\ peer'[stream] # "open"
      BY <1>1, <1>6 DEF UpdateSend, Types
  <2>2. ((w \o v) \o rest) \o u = (w \o v) \o (rest \o u)
    <3>1. PICK t \in Seq(Nat) : t = w \o v
        BY <1>4
    <3>2. (t \o rest) \o u = t \o (rest \o u)
        BY <3>1, Regrouped
    <3>. QED
        BY <3>1, <3>2
  <2>3. sent' = (wire'[stream'] \o asked'[stream']) \o (rest \o u)
      BY <1>1, <1>2, <1>3, <2>1, <2>2
  <2>. QED
      BY <1>1, <1>4, <2>1, <2>3 DEF WireInv
<1>. QED
    BY <1>5, <1>6

\* What is read answers the oldest of the requests that were sent.
LEMMA ReadWire ==
    ASSUME Inv, ReaderRead
    PROVE  /\ WireInv' /\ sent # <<>>
           /\ sent' = Tail(sent) /\ served' = Append(served, <<Head(sent), Head(wire[stream])>>)
<1>. USE DEF Inv
<1>1. /\ stream \in Streams /\ stream # None /\ reads = stream /\ stream' = stream
      /\ asked' = asked /\ peer' = peer /\ wire[stream] # <<>>
      /\ wire'[stream] = Tail(wire[stream])
    BY DEF Types, StreamInv, ReaderRead
<1>2. PICK w \in Seq(Nat), v \in Seq(Nat) : w = wire[stream] /\ v = asked[stream]
    BY <1>1 DEF Types
<1>3. PICK rest \in Seq(Nat) : sent = (w \o v) \o rest /\ (peer[stream] = "open" => rest = <<>>)
    BY <1>1, <1>2 DEF WireInv
<1>4. PICK x \in Seq(Nat) : x = w \o v
    BY ConcatProperties
<1>5. /\ x # <<>> /\ Head(x) = Head(w) /\ Tail(x) = Tail(w) \o v
    BY <1>1, <1>2, <1>4, HeadOfConcat
<1>6. /\ sent # <<>> /\ Head(sent) = Head(x) /\ Tail(sent) = Tail(x) \o rest
    BY <1>3, <1>4, <1>5, HeadOfConcat
<1>7. sent' = Tail(sent) /\ served' = Append(served, <<Head(sent), Head(w)>>)
    BY <1>1, <1>2, <1>6 DEF ReaderRead
<1>8. sent' = (wire'[stream'] \o asked'[stream']) \o rest
    BY <1>1, <1>2, <1>5, <1>6, <1>7
<1>9. \A y \in ToSet(served') : y[1] = y[2]
  <2>1. Head(w) \in Nat /\ Head(sent) = Head(w)
      BY <1>1, <1>2, <1>5, <1>6, HeadTailProperties
  <2>2. PICK pairs : pairs = Nat \X Nat
      OBVIOUS
  <2>3. PICK y \in pairs : y = <<Head(sent), Head(w)>>
      BY <2>1, <2>2
  <2>4. served \in Seq(pairs)
      BY <2>2 DEF Types
  <2>5. ToSet(Append(served, y)) = ToSet(served) \union {y}
      BY <2>4, ElementsOfAppend
  <2>. QED
      BY <1>7, <2>1, <2>3, <2>5 DEF WireInv
<1>. QED
    BY <1>1, <1>2, <1>3, <1>6, <1>7, <1>8, <1>9 DEF WireInv

\* A response takes the place of its request.
LEMMA AnswerWire ==
    ASSUME Inv, NEW st \in Streams, ServerAnswer(st)
    PROVE  WireInv'
<1>. USE DEF Inv
<1>1. /\ stream' = stream /\ sent' = sent /\ served' = served /\ peer' = peer
      /\ asked[st] # <<>>
      /\ asked'[st] = Tail(asked[st]) /\ wire'[st] = Append(wire[st], Head(asked[st]))
      /\ \A x \in Streams \ {st} : asked'[x] = asked[x] /\ wire'[x] = wire[x]
    BY DEF Types, ServerAnswer, clientVars
<1>2. CASE st = stream
  <2>1. PICK w \in Seq(Nat), v \in Seq(Nat) : w = wire[st] /\ v = asked[st]
      BY DEF Types
  <2>2. Append(w, Head(v)) \o Tail(v) = w \o v
      BY <1>1, <2>1, HeadMoves
  <2>. QED
      BY <1>1, <1>2, <2>1, <2>2 DEF WireInv
<1>3. CASE st # stream
  <2>1. stream # None => stream \in Streams \ {st}
      BY <1>3 DEF Types
  <2>. QED
      BY <1>1, <2>1 DEF WireInv
<1>. QED
    BY <1>2, <1>3

LEMMA WireStep ==
    ASSUME Inv, Next
    PROVE  WireInv'
<1>. USE DEF Inv
<1>1. CASE \/ \E a \in Addresses : Create(a)
           \/ MakeRequestAsync \/ Update \/ \E recycle \in BOOLEAN : Destroy(recycle)
  <2>1. sent' = sent /\ served' = served /\ stream' = stream /\ UNCHANGED serverVars
      BY <1>1 DEF Create, MakeRequestAsync, Update, Destroy, clientVars
  <2>. QED
      BY <2>1, WireFrame DEF serverVars
<1>2. CASE UpdateConnect
  <2>1. sent = <<>> /\ sent' = sent /\ served' = served /\ UNCHANGED serverVars
      BY <1>2 DEF StreamInv, UpdateConnect
  <2>2. stream' # None => wire[stream'] = <<>> /\ asked[stream'] = <<>>
      BY <1>2, CheckoutPool
  <2>3. <<>> \in Seq(Nat) /\ <<>> \o <<>> = <<>>
      BY EmptySeq, ConcatEmptySeq
  <2>4. sent' = (<<>> \o <<>>) \o <<>>
      BY <2>1, <2>3
  <2>. QED
      BY <2>1, <2>2, <2>3, <2>4 DEF WireInv, serverVars
<1>3. CASE UpdateLost \/ UpdateWaited
    BY <1>3 DEF UpdateLost, UpdateWaited, LoseStream, WireInv
<1>4. CASE UpdateWaits \/ UpdateSpawn \/ UpdateThreadExited \/ TimesOut \/ Flushed
  <2>1. sent' = sent /\ served' = served /\ stream' = stream /\ UNCHANGED serverVars
      BY <1>4, GivesUp DEF UpdateWaits, UpdateSpawn, UpdateThreadExited, Flushed, clientVars
  <2>. QED
      BY <2>1, WireFrame DEF serverVars
<1>5. CASE UpdateSend
    BY <1>5, SendWire
<1>6. CASE UpdateServe
  <2>1. sent' = sent /\ served' = <<>> /\ stream' = stream /\ UNCHANGED serverVars
      BY <1>6 DEF UpdateServe
  <2>2. ToSet(<<>>) = {}
      BY DEF ToSet
  <2>. QED
      BY <2>1, <2>2 DEF WireInv, serverVars
<1>7. CASE Recycle
  <2>1. sent' = sent /\ served' = served /\ stream' = None
      BY <1>7 DEF Recycle
  <2>. QED
      BY <2>1, WireFrame
<1>8. CASE Disconnect \/ DeleteStream
  <2>1. sent' = sent /\ served' = served /\ stream' = stream /\ UNCHANGED serverVars
      BY <1>8 DEF Disconnect, DeleteStream, clientVars
  <2>. QED
      BY <2>1, WireFrame DEF serverVars
<1>9. CASE Join
  <2>1. served' = <<>> /\ stream' = None
      BY <1>9 DEF Join, NoClient
  <2>2. ToSet(<<>>) = {}
      BY DEF ToSet
  <2>. QED
      BY <2>1, <2>2 DEF WireInv
<1>10. CASE ReaderRead
    BY <1>10, ReadWire
<1>11. CASE ReaderTest \/ ReaderTestsGone \/ ReaderFails \/ ReaderFailsGone \/ ReaderExits
  <2>1. sent' = sent /\ served' = served /\ stream' = stream /\ UNCHANGED serverVars
      BY <1>11 DEF ReaderTest, ReaderTestsGone, ReaderFails, ReaderFailsGone, UseOfGone, ReaderExits
  <2>. QED
      BY <2>1, WireFrame DEF serverVars
<1>12. CASE \E st \in Streams : ServerAnswer(st)
    BY <1>12, AnswerWire
<1>13. CASE \E st \in Streams, how \in {"closed", "reset"} : ServerClose(st, how)
  <2>1. /\ sent' = sent /\ served' = served /\ stream' = stream /\ wire' = wire /\ asked' = asked
        /\ stream # None /\ peer'[stream] = "open" => peer[stream] = "open"
      BY <1>13 DEF Types, ServerClose, clientVars
  <2>. QED
      BY <2>1, WireFrame
<1>. QED
    BY <1>1, <1>2, <1>3, <1>4, <1>5, <1>6, <1>7, <1>8, <1>9, <1>10, <1>11, <1>12, <1>13
       DEF Next, Updating, Destroying, ThreadFunc

----------------------------------------------------------------------------
(* Flush and PING *)

\* An Update does not change what it is for.
LEMMA RecycleFrame ==
    ASSUME Inv,
           UNCHANGED <<unsent, sent, served, inFlight, ping, signal>>,
           thread' = "read" => thread = "read" \/ ~signal,
           \/ Phase' = Phase /\ (Phase = "ping" => ping # 0 \/ (pc' = pc /\ stream' = stream))
           \/ Phase' \notin {"idle", "flush", "ping"}
    PROVE  RecycleInv'
    BY DEF RecycleInv, Pending, Inv

\* A request that is sent or served is still one request.
LEMMA PendingMoves ==
    ASSUME Inv, Working
    PROVE  /\ Len(unsent) \in Nat /\ Len(sent) \in Nat /\ Len(served) \in Nat
           /\ UpdateSend => Len(sent') = Len(sent) + Len(unsent) /\ Len(unsent') = 0
           /\ ReaderRead => Len(sent') = Len(sent) - 1 /\ Len(served') = Len(served) + 1 /\ sent # <<>>
<1>. USE DEF Inv
<1>1. unsent \in Seq(Nat) /\ sent \in Seq(Nat) /\ served \in Seq(Nat \X Nat)
    BY DEF Types
<1>2. ASSUME UpdateSend
      PROVE  Len(sent') = Len(sent) + Len(unsent) /\ Len(unsent') = 0
    BY <1>1, <1>2, ConcatProperties, EmptySeq DEF UpdateSend
<1>3. ASSUME ReaderRead
      PROVE  Len(sent') = Len(sent) - 1 /\ Len(served') = Len(served) + 1 /\ sent # <<>>
  <2>1. /\ sent # <<>> /\ sent' = Tail(sent)
        /\ served' = Append(served, <<Head(sent), Head(wire[stream])>>)
      BY <1>3, ReadWire
  <2>2. stream \in Streams /\ wire[stream] \in Seq(Nat) /\ wire[stream] # <<>>
      BY <1>3 DEF Types, StreamInv, ReaderRead
  <2>3. Head(sent) \in Nat /\ Head(wire[stream]) \in Nat /\ Len(Tail(sent)) = Len(sent) - 1
      BY <1>1, <2>1, <2>2, HeadTailProperties
  <2>4. PICK pairs : pairs = Nat \X Nat
      OBVIOUS
  <2>5. PICK y \in pairs : y = <<Head(sent), Head(wire[stream])>>
      BY <2>3, <2>4
  <2>6. Len(Append(served, y)) = Len(served) + 1
      BY <1>1, <2>4, ElementsOfAppend
  <2>. QED
      BY <2>1, <2>3, <2>5, <2>6
<1>. QED
    BY <1>1, <1>2, <1>3, LenProperties

LEMMA RecycleStep ==
    ASSUME Inv, Next
    PROVE  RecycleInv'
<1>. USE DEF Inv
<1>1. CASE \E a \in Addresses : Create(a)
  <2>1. /\ UNCHANGED <<unsent, sent, served, inFlight, ping, signal, thread, pc, stream>>
        /\ Phase' = Phase
      BY <1>1 DEF Create, Phase
  <2>. QED
      BY <2>1, RecycleFrame
<1>2. CASE MakeRequestAsync
  <2>1. /\ Phase = "idle" /\ Phase' = "idle" /\ inFlight' = inFlight + 1 /\ inFlight \in Int
        /\ UNCHANGED <<sent, served>> /\ unsent \in Seq(Nat)
        /\ unsent' = Append(unsent, requests + 1) /\ requests + 1 \in Nat
      BY <1>2 DEF MakeRequestAsync, Phase, Types, Working
  <2>2. Len(unsent') = Len(unsent) + 1
      BY <2>1, ElementsOfAppend
  <2>. QED
      BY <2>1, <2>2, PendingMoves DEF RecycleInv, Pending, Working
<1>3. CASE Update \/ \E recycle \in BOOLEAN : Destroy(recycle)
  <2>1. CASE Update
    <3>1. /\ UNCHANGED <<unsent, sent, served, inFlight, ping, signal, thread>>
          /\ Phase' = Phase /\ (Phase = "ping" => ping # 0)
        BY <2>1 DEF Update, Waiting, Phase, clientVars
    <3>. QED
        BY <3>1, RecycleFrame
  <2>2. CASE \E recycle \in BOOLEAN : Destroy(recycle)
      BY <2>2, PendingMoves DEF Destroy, clientVars, RecycleInv, Phase, Pending
  <2>. QED
      BY <1>3, <2>1, <2>2
<1>4. CASE UpdateConnect \/ UpdateWaits \/ UpdateSpawn \/ UpdateThreadExited
  <2>1. /\ UNCHANGED <<unsent, sent, served, inFlight, ping, signal>>
        /\ thread' = "read" => thread = "read"
      BY <1>4 DEF UpdateConnect, UpdateWaits, UpdateSpawn, UpdateThreadExited, clientVars
  <2>2. Phase' = Phase /\ pc # "ping"
      BY <1>4 DEF Types, UpdateConnect, UpdateWaits, UpdateSpawn, UpdateThreadExited, Phase
  <2>. QED
      BY <2>1, <2>2, RecycleFrame DEF RecycleInv
<1>5. CASE UpdateLost \/ UpdateWaited
  <2>1. /\ Phase' = Phase /\ pc # "ping" /\ Phase = op
        /\ UNCHANGED <<unsent, served, inFlight, ping, signal>> /\ sent' = <<>>
        /\ thread' # "read"
      BY <1>5 DEF Types, UpdateLost, UpdateWaited, LoseStream, Phase, Running
  <2>2. Len(sent') = 0
      BY <2>1, EmptySeq
  <2>. QED
      BY <2>1, <2>2, PendingMoves DEF RecycleInv, Pending, Types, Working
<1>6. CASE UpdateSend
  <2>1. /\ Phase' = Phase /\ pc # "ping" /\ Phase = op /\ Working
        /\ UNCHANGED <<served, inFlight, ping, signal, thread>>
      BY <1>6 DEF Types, UpdateSend, Phase, Working
  <2>2. Len(unsent') + Len(sent') + Len(served') = Len(unsent) + Len(sent) + Len(served)
      BY <1>6, <2>1, PendingMoves
  <2>. QED
      BY <2>1, <2>2 DEF RecycleInv, Pending
<1>7. CASE UpdateServe
  <2>1. /\ Phase' = Phase /\ pc # "ping" /\ pc' = Phase /\ Working
        /\ UNCHANGED <<unsent, sent, signal, thread, stream>>
        /\ inFlight' = inFlight - Len(served) /\ served' = <<>>
        /\ ping' = IF \E x \in ToSet(served) : x[1] = ping THEN 0 ELSE ping
        /\ stream # None /\ inFlight \in Int
      BY <1>7 DEF Types, UpdateServe, Phase, Working, StreamInv
  <2>2. Len(served') = 0
      BY <2>1, EmptySeq
  <2>3. ToSet(<<>>) = {}
      BY DEF ToSet
  <2>4. Phase \in {"idle", "flush"} => RecycleInv'
      BY <2>1, <2>2, PendingMoves DEF RecycleInv, Pending
  <2>5. ASSUME Phase = "ping" PROVE RecycleInv'
    <3>1. /\ signal /\ Len(unsent) + Len(sent) + Len(served) <= 1 /\ ping # 0
          /\ thread = "read" => served = <<>>
        BY <2>1, <2>5 DEF RecycleInv, Pending
    <3>2. ping' = 0 => served # <<>>
        BY <2>1, <2>3, <3>1
    <3>3. served # <<>> => Len(served) >= 1
        BY PendingMoves, <2>1, EmptySeq DEF Types
    <3>4. Len(unsent') + Len(sent') + Len(served') <= 1
        BY <2>1, <2>2, <3>1, PendingMoves
    <3>5. ping' = 0 => Len(unsent') + Len(sent') + Len(served') = 0
        BY <2>1, <2>2, <3>1, <3>2, <3>3, PendingMoves
    <3>6. thread' = "read" => ping' # 0 /\ served' = <<>>
        BY <2>1, <3>1, <3>2
    <3>. QED
        BY <2>1, <2>5, <3>1, <3>4, <3>5, <3>6 DEF RecycleInv, Pending
  <2>. QED
      BY <2>1, <2>4, <2>5 DEF Working
<1>8. CASE Flushed
  <2>1. CASE Recyclable
    <3>1. /\ Phase = "flush" /\ inFlight = 0 /\ Phase' = "ping" /\ signal'
          /\ UNCHANGED <<sent, served, thread>> /\ ping' = MaxRequests + clients
          /\ unsent' = Append(unsent, ping') /\ stream # None
        BY <1>8, <2>1 DEF Flushed, Recyclable, Connected, Phase
    <3>2. Len(unsent) = 0 /\ Len(sent) = 0 /\ Len(served) = 0
        BY <3>1, PendingMoves DEF RecycleInv, Pending, Working
    <3>3. ping' \in Nat /\ ping' # 0 /\ served = <<>>
        BY <3>1, <3>2, BoundsAssumption, EmptySeq DEF Types, StreamInv
    <3>4. Len(unsent') = 1
        BY <3>1, <3>2, <3>3, ElementsOfAppend DEF Types, Working
    <3>. QED
        BY <3>1, <3>2, <3>3, <3>4 DEF RecycleInv, Pending
  <2>2. CASE ~Recyclable
      BY <1>8, <2>2 DEF Flushed, RecycleInv, Phase
  <2>. QED
      BY <2>1, <2>2
<1>9. CASE TimesOut
    BY <1>9, GivesUp DEF RecycleInv, Phase
<1>10. CASE Recycle \/ Disconnect \/ DeleteStream
    BY <1>10 DEF Recycle, Disconnect, DeleteStream, RecycleInv, Phase
<1>11. CASE Join
    BY <1>11, EmptySeq DEF Join, NoClient, RecycleInv, Phase, Pending
<1>12. CASE ReaderTest
  <2>1. /\ UNCHANGED <<unsent, sent, served, inFlight, ping, signal, pc, stream>>
        /\ Phase' = Phase /\ (thread' = "read" => ~signal)
      BY <1>12 DEF ReaderTest, Phase
  <2>. QED
      BY <2>1, RecycleFrame
<1>13. CASE ReaderTestsGone \/ ReaderFailsGone
  <2>1. /\ UNCHANGED <<unsent, sent, served, inFlight, ping, signal, op, stream>>
        /\ thread' # "read" /\ pc' \in {pc, "crashed"}
      BY <1>13 DEF ReaderTestsGone, ReaderFailsGone, UseOfGone
  <2>2. \/ Phase' = Phase /\ pc' = pc
        \/ Phase' = "crashed"
      BY <2>1 DEF Phase
  <2>. QED
      BY <2>1, <2>2, RecycleFrame
<1>14. CASE ReaderRead
  <2>1. /\ UNCHANGED <<unsent, inFlight, ping, signal, pc, op, stream>> /\ Phase' = Phase
        /\ thread = "read" /\ thread' # "read"
      BY <1>14 DEF ReaderRead, Phase
  <2>2. Working => Len(unsent') + Len(sent') + Len(served') = Len(unsent) + Len(sent) + Len(served)
      BY <1>14, <2>1, PendingMoves
  <2>. QED
      BY <2>1, <2>2 DEF RecycleInv, Pending, Working
<1>15. CASE ReaderFails \/ ReaderExits
  <2>1. /\ UNCHANGED <<unsent, sent, served, inFlight, ping, signal, pc, stream>>
        /\ Phase' = Phase /\ thread' # "read"
      BY <1>15 DEF ReaderFails, ReaderExits, Phase
  <2>. QED
      BY <2>1, RecycleFrame
<1>16. CASE \/ \E st \in Streams : ServerAnswer(st)
            \/ \E st \in Streams, how \in {"closed", "reset"} : ServerClose(st, how)
  <2>1. /\ UNCHANGED <<unsent, sent, served, inFlight, ping, signal, thread, pc, stream>>
        /\ Phase' = Phase
      BY <1>16 DEF ServerAnswer, ServerClose, clientVars, Phase
  <2>. QED
      BY <2>1, RecycleFrame
<1>. QED
    BY <1>1, <1>2, <1>3, <1>4, <1>5, <1>6, <1>7, <1>8, <1>9, <1>10, <1>11, <1>12, <1>13, <1>14,
       <1>15, <1>16
       DEF Next, Updating, Destroying, ThreadFunc

----------------------------------------------------------------------------
(* The theorems *)

LEMMA InitInv == Init => Inv
<1>. SUFFICES ASSUME Init PROVE Inv
    OBVIOUS
<1>1. Types
    BY InitTypes
<1>2. ToSet(<<>>) = {} /\ IsInjective(<<>>) /\ Len(<<>>) = 0
    BY EmptySeq DEF ToSet, IsInjective
<1>3. PoolInv
    BY <1>2, PoolAssumption DEF Init, PoolInit, PoolInv, Idle
<1>4. StreamInv
    BY DEF Init, StreamInv
<1>5. WireInv
    BY <1>2 DEF Init, WireInv
<1>6. RecycleInv
    BY <1>2 DEF Init, RecycleInv, Phase, Pending
<1>. QED
    BY <1>1, <1>3, <1>4, <1>5, <1>6 DEF Inv

LEMMA InvStep == Inv /\ [Next]_vars => Inv'
<1>1. ASSUME Inv, Next
      PROVE  Inv'
    BY <1>1, TypeStep, PoolStep, StreamStep, WireStep, RecycleStep DEF Inv
<1>2. ASSUME Inv, UNCHANGED vars
      PROVE  Inv'
  <2>. USE <1>2 DEF vars, poolVars, clientVars, serverVars, bounds, Inv
  <2>1. Types'
      BY DEF Types, Working, Phase
  <2>2. PoolInv'
      BY DEF PoolInv, Idle
  <2>3. StreamInv'
      BY DEF StreamInv
  <2>4. WireInv'
      BY DEF WireInv
  <2>5. RecycleInv'
      BY DEF RecycleInv, Phase, Pending
  <2>. QED
      BY <2>1, <2>2, <2>3, <2>4, <2>5
<1>. QED
    BY <1>1, <1>2

LEMMA Invariance == Spec => []Inv
<1>1. Init => Inv
    BY InitInv
<1>2. Inv /\ [Next]_vars => Inv'
    BY InvStep
<1>. QED
    BY <1>1, <1>2, PTL DEF Spec

\* However many clients come and go, with and without recycling, while the server
\* closes connections: a stream is its client's or in the pool once, on the list of
\* its own address, and no reception thread reads what is in the pool.
THEOREM OwnerCorrect == Spec => []OneOwner
<1>1. Inv => OneOwner
    BY DEF Inv, PoolInv, StreamInv, Idle, OneOwner
<1>. QED
    BY <1>1, Invariance, PTL

\* TryToRecycleConnection checks a stream in only with nothing left to come on it, so
\* what the next client reads are the responses to its own requests, in order.
THEOREM ResponsesCorrect == Spec => []OwnResponses
<1>1. ASSUME Inv
      PROVE  OwnResponses
  <2>. USE <1>1 DEF Inv
  <2>1. ASSUME thread = "read", wire[reads] # <<>>
        PROVE  sent # <<>>
    <3>1. stream \in Streams /\ stream # None /\ reads = stream
        BY <2>1 DEF Types, StreamInv
    <3>2. PICK w \in Seq(Nat), v \in Seq(Nat) : w = wire[stream] /\ v = asked[stream]
        BY <3>1 DEF Types
    <3>3. PICK rest \in Seq(Nat) : sent = (w \o v) \o rest
        BY <3>1, <3>2 DEF WireInv
    <3>4. PICK x \in Seq(Nat) : x = w \o v
        BY ConcatProperties
    <3>5. x # <<>>
        BY <2>1, <3>1, <3>2, <3>4, EmptyConcat
    <3>. QED
        BY <3>3, <3>4, <3>5, EmptyConcat
  <2>. QED
      BY <2>1 DEF StreamInv, WireInv, OwnResponses
<1>. QED
    BY <1>1, Invariance, PTL
=============================================================================
