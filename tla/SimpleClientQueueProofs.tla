---------------------- MODULE SimpleClientQueueProofs ----------------------
(***************************************************************************)
(* The lists of a SimpleClient as one queue.  QueueStep says what a step   *)
(* of either thread can do to that queue; the theorems about the order of  *)
(* the requests, about what becomes of them and about what is counted      *)
(* follow from it, and so does that the client implements RequestQueue.    *)
(***************************************************************************)
EXTENDS SimpleClientProofs, FiniteSetTheorems, FunctionTheorems

-----------------------------------------------------------------------------
(* Sequences                                                               *)

LEMMA ToSetConcat ==
    ASSUME NEW S, NEW s \in Seq(S), NEW t \in Seq(S)
    PROVE  ToSet(s \o t) = ToSet(s) \union ToSet(t)
<1>1. /\ s \o t \in Seq(S) /\ Len(s \o t) = Len(s) + Len(t)
      /\ \A i \in 1 .. Len(s) + Len(t) :
            (s \o t)[i] = IF i <= Len(s) THEN s[i] ELSE t[i - Len(s)]
    BY ConcatProperties
<1>2. /\ DOMAIN s = 1 .. Len(s) /\ DOMAIN t = 1 .. Len(t) /\ Len(s) \in Nat /\ Len(t) \in Nat
      /\ DOMAIN (s \o t) = 1 .. Len(s) + Len(t)
    BY <1>1, LenProperties
<1>3. ToSet(s \o t) \subseteq ToSet(s) \union ToSet(t)
  <2>. SUFFICES ASSUME NEW i \in 1 .. Len(s) + Len(t)
                PROVE  (s \o t)[i] \in ToSet(s) \union ToSet(t)
      BY <1>2 DEF ToSet
  <2>. QED
      BY <1>1, <1>2 DEF ToSet
<1>4. ToSet(s) \subseteq ToSet(s \o t)
    BY <1>1, <1>2 DEF ToSet
<1>5. ToSet(t) \subseteq ToSet(s \o t)
  <2>. SUFFICES ASSUME NEW i \in 1 .. Len(t) PROVE t[i] \in ToSet(s \o t)
      BY <1>2 DEF ToSet
  <2>1. (s \o t)[Len(s) + i] = t[i] /\ Len(s) + i \in 1 .. Len(s) + Len(t)
      BY <1>1, <1>2
  <2>. QED
      BY <1>2, <2>1 DEF ToSet
<1>. QED
    BY <1>3, <1>4, <1>5

\* A sequence is its head, and the rest.
LEMMA HeadAndTail ==
    ASSUME NEW S, NEW s \in Seq(S), s # <<>>
    PROVE  /\ s = <<Head(s)>> \o Tail(s)
           /\ Head(s) \in S /\ Tail(s) \in Seq(S) /\ <<Head(s)>> \in Seq(S)
           /\ ToSet(s) = {Head(s)} \union ToSet(Tail(s))
<1>1. /\ Head(s) \in S /\ Tail(s) \in Seq(S) /\ Len(Tail(s)) = Len(s) - 1
      /\ Head(s) = s[1] /\ \A i \in 1 .. Len(Tail(s)) : Tail(s)[i] = s[i + 1]
    BY HeadTailProperties
<1>2. <<Head(s)>> \in Seq(S)
    BY <1>1
<1>3. Len(s) \in Nat \ {0}
    BY EmptySeq, LenProperties
<1>4. /\ <<Head(s)>> \o Tail(s) \in Seq(S) /\ Len(<<Head(s)>> \o Tail(s)) = Len(s)
      /\ \A i \in 1 .. Len(s) : (<<Head(s)>> \o Tail(s))[i] =
             IF i <= 1 THEN <<Head(s)>>[i] ELSE Tail(s)[i - 1]
  <2>1. Len(<<Head(s)>>) = 1
      OBVIOUS
  <2>. QED
      BY <1>1, <1>2, <1>3, <2>1, ConcatProperties
<1>5. ASSUME NEW i \in 1 .. Len(s) PROVE (<<Head(s)>> \o Tail(s))[i] = s[i]
  <2>1. CASE i = 1
    <3>1. (<<Head(s)>> \o Tail(s))[1] = <<Head(s)>>[1]
        BY <1>4, <2>1
    <3>. QED
        BY <1>1, <2>1, <3>1
  <2>2. CASE i # 1
    <3>1. i - 1 \in 1 .. Len(s) - 1 /\ (i - 1) + 1 = i /\ ~ (i <= 1)
        BY <1>3, <2>2
    <3>2. (<<Head(s)>> \o Tail(s))[i] = Tail(s)[i - 1]
        BY <1>4, <3>1
    <3>3. Tail(s)[i - 1] = s[i]
        BY <1>1, <3>1
    <3>. QED
        BY <3>2, <3>3
  <2>. QED
      BY <2>1, <2>2
<1>6. s = <<Head(s)>> \o Tail(s)
    BY <1>4, <1>5, SeqEqual
<1>7. ToSet(<<Head(s)>>) = {Head(s)}
    BY DEF ToSet
<1>8. ToSet(<<Head(s)>> \o Tail(s)) = ToSet(<<Head(s)>>) \union ToSet(Tail(s))
    BY <1>1, <1>2, ToSetConcat
<1>. QED
    BY <1>1, <1>2, <1>6, <1>7, <1>8

LEMMA AssociativeIds ==
    \A p, s, t \in Seq(Ids) : p \o (s \o t) = (p \o s) \o t
<1>. SUFFICES ASSUME NEW p \in Seq(Ids), NEW s \in Seq(Ids), NEW t \in Seq(Ids)
              PROVE  p \o (s \o t) = (p \o s) \o t
    OBVIOUS
<1>1. (p \o s) \o t = p \o (s \o t)
    BY ConcatAssociative
<1>. QED
    BY <1>1, Zenon

LEMMA IdsOfLists ==
    ASSUME NEW s \in Seq(Answered)
    PROVE  /\ IdsOf(s) \in Seq(Ids) /\ Len(IdsOf(s)) = Len(s)
           /\ DOMAIN IdsOf(s) = DOMAIN s
           /\ \A i \in DOMAIN s : IdsOf(s)[i] = s[i].id
           /\ s = <<>> <=> IdsOf(s) = <<>>
<1>1. /\ DOMAIN s = 1 .. Len(s) /\ Len(s) \in Nat
      /\ \A i \in 1 .. Len(s) : s[i] \in Answered
    BY LenProperties, ElementOfSeq
<1>2. IdsOf(s) \in [1 .. Len(s) -> Ids]
    BY <1>1 DEF IdsOf, Answered
<1>3. IdsOf(s) \in Seq(Ids)
    BY <1>1, <1>2, SeqDef
<1>4. Len(IdsOf(s)) = Len(s)
    BY <1>1, <1>2, <1>3, LenProperties
<1>5. s = <<>> <=> IdsOf(s) = <<>>
    BY <1>3, <1>4, EmptySeq
<1>. QED
    BY <1>1, <1>3, <1>4, <1>5 DEF IdsOf

LEMMA IdsOfConcat ==
    ASSUME NEW s \in Seq(Answered), NEW t \in Seq(Answered)
    PROVE  IdsOf(s \o t) = IdsOf(s) \o IdsOf(t)
<1>1. /\ s \o t \in Seq(Answered) /\ Len(s \o t) = Len(s) + Len(t)
      /\ \A i \in 1 .. Len(s) + Len(t) :
            (s \o t)[i] = IF i <= Len(s) THEN s[i] ELSE t[i - Len(s)]
    BY ConcatProperties
<1>2. Len(s) \in Nat /\ Len(t) \in Nat
    BY LenProperties
<1>3. /\ IdsOf(s \o t) \in Seq(Ids) /\ Len(IdsOf(s \o t)) = Len(s) + Len(t)
      /\ \A i \in 1 .. Len(s) + Len(t) : IdsOf(s \o t)[i] = (s \o t)[i].id
    BY <1>1, IdsOfLists, LenProperties
<1>4. /\ IdsOf(s) \in Seq(Ids) /\ Len(IdsOf(s)) = Len(s)
      /\ \A i \in 1 .. Len(s) : IdsOf(s)[i] = s[i].id
      /\ IdsOf(t) \in Seq(Ids) /\ Len(IdsOf(t)) = Len(t)
      /\ \A i \in 1 .. Len(t) : IdsOf(t)[i] = t[i].id
    BY IdsOfLists, LenProperties
<1>5. PICK a \in Seq(Ids), b \in Seq(Ids) : a = IdsOf(s) /\ b = IdsOf(t)
    BY <1>4
<1>6. /\ a \o b \in Seq(Ids)
      /\ Len(a \o b) = Len(a) + Len(b)
      /\ \A i \in 1 .. Len(a) + Len(b) :
            (a \o b)[i] = IF i <= Len(a) THEN a[i] ELSE b[i - Len(a)]
    BY ConcatProperties
<1>7. ASSUME NEW i \in 1 .. Len(s) + Len(t)
      PROVE  IdsOf(s \o t)[i] = (a \o b)[i]
  <2>1. IdsOf(s \o t)[i] = (s \o t)[i].id
      BY <1>3
  <2>2. CASE i <= Len(s)
    <3>1. (s \o t)[i] = s[i] /\ (a \o b)[i] = a[i]
        BY <1>1, <1>4, <1>5, <1>6, <2>2
    <3>. QED
        BY <1>2, <1>4, <1>5, <2>1, <2>2, <3>1
  <2>3. CASE i > Len(s)
    <3>1. i - Len(s) \in 1 .. Len(t)
        BY <1>2, <2>3
    <3>2. (s \o t)[i] = t[i - Len(s)] /\ (a \o b)[i] = b[i - Len(s)]
        BY <1>1, <1>2, <1>4, <1>5, <1>6, <2>3
    <3>. QED
        BY <1>4, <1>5, <2>1, <3>1, <3>2
  <2>4. i <= Len(s) \/ i > Len(s)
      BY <1>2
  <2>. QED
      BY <2>2, <2>3, <2>4
<1>8. IdsOf(s \o t) = a \o b
    BY <1>3, <1>4, <1>5, <1>6, <1>7, SeqEqual
<1>. QED
    BY <1>5, <1>8

LEMMA IdsOfOne ==
    ASSUME NEW e \in Answered
    PROVE  IdsOf(<<e>>) = <<e.id>> /\ IdsOf(<<>>) = <<>>
    BY DEF IdsOf

LEMMA SubSeqOfIds ==
    \A s \in Seq(Ids), m, n \in Nat :
        m >= 1 /\ n <= Len(s) =>
            /\ SubSeq(s, m, n) \in Seq(Ids)
            /\ Len(SubSeq(s, m, n)) = IF m <= n THEN n - m + 1 ELSE 0
            /\ \A i \in 1 .. n - m + 1 : SubSeq(s, m, n)[i] = s[m + i - 1]
<1>. SUFFICES ASSUME NEW s \in Seq(Ids), NEW m \in Nat, NEW n \in Nat, m >= 1, n <= Len(s)
              PROVE  /\ SubSeq(s, m, n) \in Seq(Ids)
                     /\ Len(SubSeq(s, m, n)) = IF m <= n THEN n - m + 1 ELSE 0
                     /\ \A i \in 1 .. n - m + 1 : SubSeq(s, m, n)[i] = s[m + i - 1]
    OBVIOUS
<1>1. m \in Int /\ n \in Int
    OBVIOUS
<1>2. ASSUME NEW i \in m .. n PROVE s[i] \in Ids
  <2>1. i \in 1 .. Len(s)
      BY LenProperties
  <2>. QED
      BY <2>1, ElementOfSeq
<1>. QED
    BY <1>1, <1>2, SubSeqProperties

\* A sequence without its i-th element.
LEMMA WithoutOne ==
    \A s \in Seq(Ids) : \A i \in DOMAIN s :
        \E x, z \in Seq(Ids) : s = (x \o <<s[i]>>) \o z /\ RemoveAt(s, i) = x \o z
<1>. TAKE s \in Seq(Ids)
<1>. TAKE i \in DOMAIN s
<1>. DEFINE x == SubSeq(s, 1, i - 1)
            z == SubSeq(s, i + 1, Len(s))
<1>1. i \in 1 .. Len(s) /\ Len(s) \in Nat /\ s[i] \in Ids
    BY LenProperties, ElementOfSeq
<1>2. /\ x \in Seq(Ids) /\ Len(x) = i - 1
      /\ \A k \in 1 .. i - 1 : x[k] = s[k]
    BY <1>1, ElementOfSeq, SubSeqProperties
<1>3. /\ z \in Seq(Ids) /\ Len(z) = Len(s) - i
      /\ \A k \in 1 .. Len(s) - i : z[k] = s[i + k]
    BY <1>1, ElementOfSeq, SubSeqProperties
<1>. HIDE DEF x, z
<1>4. <<s[i]>> \in Seq(Ids) /\ Len(<<s[i]>>) = 1 /\ <<s[i]>>[1] = s[i]
    BY <1>1
<1>5. /\ x \o <<s[i]>> \in Seq(Ids) /\ Len(x \o <<s[i]>>) = i
      /\ \A k \in 1 .. i : (x \o <<s[i]>>)[k] = s[k]
  <2>1. PICK y \in Seq(Ids) : y = <<s[i]>>
      BY <1>4
  <2>2. /\ x \o y \in Seq(Ids) /\ Len(x \o y) = Len(x) + Len(y)
        /\ \A k \in 1 .. Len(x) + Len(y) :
              (x \o y)[k] = IF k <= Len(x) THEN x[k] ELSE y[k - Len(x)]
      BY <1>2, ConcatProperties
  <2>. QED
      BY <1>1, <1>2, <1>4, <2>1, <2>2
<1>6. PICK y \in Seq(Ids) : y = x \o <<s[i]>>
    BY <1>5
<1>7. Len(y) = i /\ \A k \in 1 .. i : y[k] = s[k]
    BY <1>5, <1>6
<1>8. /\ y \o z \in Seq(Ids) /\ Len(y \o z) = Len(s)
      /\ \A k \in 1 .. Len(s) : (y \o z)[k] = s[k]
  <2>1. /\ y \o z \in Seq(Ids) /\ Len(y \o z) = Len(y) + Len(z)
        /\ \A k \in 1 .. Len(y) + Len(z) :
              (y \o z)[k] = IF k <= Len(y) THEN y[k] ELSE z[k - Len(y)]
      BY <1>3, ConcatProperties
  <2>2. Len(y) + Len(z) = Len(s)
      BY <1>1, <1>3, <1>7
  <2>3. ASSUME NEW k \in 1 .. Len(s) PROVE (y \o z)[k] = s[k]
    <3>1. (y \o z)[k] = IF k <= i THEN y[k] ELSE z[k - i]
        BY <1>7, <2>1, <2>2
    <3>2. CASE k <= i
        BY <1>1, <1>7, <3>1, <3>2
    <3>3. CASE k > i
      <4>1. PICK j \in 1 .. Len(s) - i : j = k - i /\ i + j = k
          BY <1>1, <3>3
      <4>2. z[j] = s[i + j]
          BY <1>3
      <4>3. ~ (k <= i)
          BY <1>1, <3>3
      <4>4. (y \o z)[k] = z[k - i]
          BY <3>1, <4>3
      <4>. QED
          BY <4>1, <4>2, <4>4
    <3>4. k <= i \/ k > i
        BY <1>1
    <3>. QED
        BY <3>2, <3>3, <3>4
  <2>. QED
      BY <2>1, <2>2, <2>3
<1>9. s = y \o z
    BY <1>8, SeqEqual
<1>10. RemoveAt(s, i) = x \o z
    BY DEF RemoveAt, x, z
<1>. QED
    BY <1>2, <1>3, <1>6, <1>9, <1>10

-----------------------------------------------------------------------------
(* Order                                                                   *)

Increasing(s) == \A i, j \in DOMAIN s : i < j => s[i] < s[j]

Below(s, t) == \A a \in ToSet(s), b \in ToSet(t) : a < b

\* Two lists in a row are in order when each is, and the first comes first.
LEMMA IncreasingConcat ==
    ASSUME NEW s \in Seq(Ids), NEW t \in Seq(Ids)
    PROVE  Increasing(s \o t) <=> Increasing(s) /\ Increasing(t) /\ Below(s, t)
<1>1. /\ s \o t \in Seq(Ids) /\ Len(s \o t) = Len(s) + Len(t)
      /\ \A i \in 1 .. Len(s) + Len(t) :
            (s \o t)[i] = IF i <= Len(s) THEN s[i] ELSE t[i - Len(s)]
    BY ConcatProperties
<1>2. /\ Len(s) \in Nat /\ Len(t) \in Nat
      /\ DOMAIN s = 1 .. Len(s) /\ DOMAIN t = 1 .. Len(t)
      /\ DOMAIN (s \o t) = 1 .. Len(s) + Len(t)
    BY <1>1, LenProperties
<1>3. \A i \in 1 .. Len(s) : (s \o t)[i] = s[i] /\ i \in 1 .. Len(s) + Len(t)
    BY <1>1, <1>2
<1>4. \A i \in 1 .. Len(t) :
          (s \o t)[Len(s) + i] = t[i] /\ Len(s) + i \in 1 .. Len(s) + Len(t)
    BY <1>1, <1>2
<1>5. ASSUME Increasing(s \o t) PROVE Increasing(s) /\ Increasing(t) /\ Below(s, t)
  <2>1. Increasing(s)
      BY <1>2, <1>3, <1>5 DEF Increasing
  <2>2. ASSUME NEW i \in 1 .. Len(t), NEW j \in 1 .. Len(t), i < j PROVE t[i] < t[j]
    <3>1. Len(s) + i < Len(s) + j
        BY <1>2, <2>2
    <3>. QED
        BY <1>2, <1>4, <1>5, <3>1 DEF Increasing
  <2>3. ASSUME NEW i \in 1 .. Len(s), NEW j \in 1 .. Len(t) PROVE s[i] < t[j]
    <3>1. i < Len(s) + j
        BY <1>2
    <3>. QED
        BY <1>2, <1>3, <1>4, <1>5, <3>1 DEF Increasing
  <2>. QED
      BY <1>2, <2>1, <2>2, <2>3 DEF Increasing, Below, ToSet
<1>6. ASSUME Increasing(s), Increasing(t), Below(s, t) PROVE Increasing(s \o t)
  <2>. SUFFICES ASSUME NEW i \in 1 .. Len(s) + Len(t), NEW j \in 1 .. Len(s) + Len(t), i < j
                PROVE  (s \o t)[i] < (s \o t)[j]
      BY <1>2 DEF Increasing
  <2>1. CASE j <= Len(s)
    <3>1. (s \o t)[i] = s[i] /\ (s \o t)[j] = s[j] /\ i \in 1 .. Len(s) /\ j \in 1 .. Len(s)
        BY <1>2, <1>3, <2>1
    <3>. QED
        BY <1>2, <1>6, <3>1 DEF Increasing
  <2>2. CASE i <= Len(s) /\ j > Len(s)
    <3>0. i \in 1 .. Len(s) /\ j - Len(s) \in 1 .. Len(t)
        BY <1>2, <2>2
    <3>1. s[i] \in ToSet(s) /\ t[j - Len(s)] \in ToSet(t)
        BY <1>2, <3>0 DEF ToSet
    <3>. QED
        BY <1>1, <1>2, <1>6, <2>2, <3>1 DEF Below
  <2>3. CASE i > Len(s)
    <3>1. i - Len(s) \in 1 .. Len(t) /\ j - Len(s) \in 1 .. Len(t) /\ i - Len(s) < j - Len(s)
        BY <1>2, <2>3
    <3>2. (s \o t)[i] = t[i - Len(s)] /\ (s \o t)[j] = t[j - Len(s)]
        BY <1>1, <1>2, <2>3
    <3>. QED
        BY <1>2, <1>6, <3>1, <3>2 DEF Increasing
  <2>4. j <= Len(s) \/ (i <= Len(s) /\ j > Len(s)) \/ i > Len(s)
      BY <1>2
  <2>. QED
      BY <2>1, <2>2, <2>3, <2>4
<1>. QED
    BY <1>5, <1>6

\* A list in order has as many members as elements.
LEMMA IncreasingSize ==
    ASSUME NEW s \in Seq(Ids), Increasing(s)
    PROVE  IsFiniteSet(ToSet(s)) /\ Cardinality(ToSet(s)) = Len(s)
<1>1. DOMAIN s = 1 .. Len(s) /\ Len(s) \in Nat /\ \A i \in 1 .. Len(s) : s[i] \in Int
  <2>1. DOMAIN s = 1 .. Len(s) /\ Len(s) \in Nat
      BY LenProperties
  <2>2. \A i \in 1 .. Len(s) : s[i] \in Ids
      BY ElementOfSeq
  <2>. QED
      BY <2>1, <2>2 DEF Ids
<1>2. IsFiniteSet(1 .. Len(s)) /\ Cardinality(1 .. Len(s)) = Len(s)
  <2>1. 1 \in Int /\ Len(s) \in Int
      BY <1>1
  <2>2. /\ IsFiniteSet(1 .. Len(s))
        /\ Cardinality(1 .. Len(s)) = IF 1 > Len(s) THEN 0 ELSE Len(s) - 1 + 1
      BY <2>1, FS_Interval
  <2>. QED
      BY <1>1, <2>2
<1>3. s \in Bijection(1 .. Len(s), ToSet(s))
  <2>1. s \in [1 .. Len(s) -> ToSet(s)]
      BY <1>1, SeqDef DEF ToSet
  <2>2. \A i, j \in 1 .. Len(s) : i # j => s[i] # s[j]
      BY <1>1 DEF Increasing
  <2>3. \A e \in ToSet(s) : \E i \in 1 .. Len(s) : s[i] = e
      BY <1>1 DEF ToSet
  <2>. QED
      BY <2>1, <2>2, <2>3, Fun_IsBij
<1>4. ExistsBijection(1 .. Len(s), ToSet(s))
    BY <1>3 DEF ExistsBijection
<1>. QED
    BY <1>2, <1>4, FS_Bijection

-----------------------------------------------------------------------------
(* What a step does to the queue                                           *)

\* The requests whose callback has not been called, oldest first.
Queue == IdsOf(served) \o IdsOf(hand) \o sent \o unsent

\* The request whose callback is running, and those whose callback has been called.
Called == ToSet(IdsOf(calls))
Past == ToSet(IdsOf(cur)) \union Called

\* A request has been taken off the served list exactly while its callback runs
\* (which may make requests, and cancel some).
CurInv ==
    Len(cur) = One(\/ pc = "callback"
                   \/ pc \in {"cancel", "cancelServed"} /\ cancel.from = "callback")

Quiet == UNCHANGED <<Queue, cur, calls, nextRequestID, inFlight, purged, noop, cancelled>>

Making(n) ==
    /\ nextRequestID' = nextRequestID + n /\ nextRequestID' <= MaxRequests
    /\ inFlight' = inFlight + n
    /\ Queue' = Queue \o NewRequests(n)
    /\ UNCHANGED <<cur, calls, purged, noop, cancelled>>

\* The callback of the oldest request is called, if it was not cancelled.
Calling(request) ==
    /\ Queue' \in Seq(Ids) /\ Queue = <<request.id>> \o Queue'
    /\ cur = <<>> /\ cur' = <<request>>
    /\ calls' = IF request.id \in noop THEN calls ELSE Append(calls, request)
    /\ UNCHANGED <<nextRequestID, inFlight, purged, noop, cancelled>>

Returning ==
    /\ Len(cur) = 1 /\ cur' = <<>>
    /\ inFlight' = inFlight - 1
    /\ UNCHANGED <<Queue, calls, nextRequestID, purged, noop, cancelled>>

Leaves(y) == \E x, z \in Seq(Ids) : Queue = (x \o y) \o z /\ Queue' = x \o z

Purging(y) ==
    /\ Leaves(y)
    /\ purged' = purged \union ToSet(y)
    /\ UNCHANGED <<cur, calls, nextRequestID, inFlight, noop, cancelled>>

Withdrawing(id) ==
    /\ id \in Ids /\ Leaves(<<id>>)
    /\ cancelled' = cancelled \union {id}
    /\ inFlight' = inFlight - 1
    /\ UNCHANGED <<cur, calls, nextRequestID, purged, noop>>

Silencing(id) ==
    /\ id \in ToSet(Queue)
    /\ noop' = noop \union {id} /\ cancelled' = cancelled \union {id}
    /\ UNCHANGED <<Queue, cur, calls, nextRequestID, inFlight, purged>>

LEMMA CurFrame ==
    ASSUME CurInv, UNCHANGED <<cur, cancel>>,
           \/ pc' = pc
           \/ /\ pc \notin {"callback", "cancel", "cancelServed"}
              /\ pc' \notin {"callback", "cancel", "cancelServed"}
    PROVE  CurInv'
    BY DEF CurInv, One

LEMMA CurStep ==
    ASSUME TypeOK, CurInv, [Next]_vars
    PROVE  CurInv'
<1>. USE DEF callers, lists, reader, network, history, cancels, object, aside, outside
<1>1. CASE UNCHANGED vars
    BY <1>1, CurFrame DEF vars
<1>2. CASE Call
  <2>1. CASE SyncTimeout
    <3>1. cancel'.from = "idle" /\ pc' = "cancel" /\ pc = "idle" /\ cur' = cur
        BY <2>1 DEF SyncTimeout
    <3>. QED
        BY <3>1 DEF CurInv, One
  <2>2. CASE CancelAsyncRequest
    <3>1. cancel'.from = pc /\ pc' = "cancel" /\ pc \in UserPCs /\ cur' = cur
        BY <2>2 DEF CancelAsyncRequest, UserCode
    <3>. QED
        BY <3>1 DEF CurInv, One, UserPCs
  <2>3. CASE \/ MakeRequestAsync \/ MakeTransactionRequestAsync \/ MakeRequestSync
             \/ SyncReturn \/ Flush \/ FlushReturn
    <3>1. UNCHANGED <<cur, cancel>>
        BY <2>3 DEF MakeRequestAsync, MakeTransactionRequestAsync, MakeRequestSync,
                    Enqueue, SyncReturn, Flush, FlushReturn
    <3>2. pc' = pc \/ (pc = "idle" /\ pc' = "update")
        BY <2>3 DEF MakeRequestAsync, MakeTransactionRequestAsync, MakeRequestSync,
                    SyncReturn, Flush, FlushReturn
    <3>. QED
        BY <3>1, <3>2, CurFrame
  <2>. QED
      BY <1>2, <2>1, <2>2, <2>3 DEF Call
<1>3. CASE Cancelling
  <2>1. cur' = cur /\ pc \in {"cancel", "cancelServed"}
      BY <1>3 DEF Cancelling, CancelUnsent, CancelSent, CancelServed
  <2>2. CASE pc' = cancel.from
    <3>1. cancel.from \in UserPCs
        BY DEF TypeOK
    <3>. QED
        BY <2>1, <2>2, <3>1 DEF CurInv, One, UserPCs
  <2>3. CASE pc' \in {"cancel", "cancelServed"} /\ cancel'.from = cancel.from
      BY <2>1, <2>3 DEF CurInv, One
  <2>. QED
      BY <1>3, <2>2, <2>3 DEF Cancelling, CancelUnsent, CancelSent, CancelServed, CancelReturns
<1>4. CASE Update \/ Updating
  <2>1. CASE UpdateServe
    <3>1. CASE served = <<>>
        BY <2>1, <3>1, CurFrame DEF UpdateServe
    <3>2. CASE served # <<>>
      <4>1. cur' = <<Head(served)>> /\ pc' = "callback"
          BY <2>1, <3>2 DEF UpdateServe
      <4>. QED
          BY <4>1 DEF CurInv, One
    <3>. QED
        BY <3>1, <3>2
  <2>2. CASE UpdateDealloc
    <3>1. cur' = <<>> /\ pc' = "serve"
        BY <2>2 DEF UpdateDealloc
    <3>. QED
        BY <3>1 DEF CurInv, One
  <2>3. CASE \E label \in {"update", "idle", "thread", "serve", "messages"} :
                pc # "callback" /\ pc \notin {"cancel", "cancelServed"} /\ Goto(label)
      BY <2>3, CurFrame DEF Goto
  <2>4. CASE \/ Update \/ UpdateNotConnected \/ UpdateLive \/ UpdateSpawnFails
             \/ UpdateSent \/ UpdateServed \/ UpdateDone
      BY <2>3, <2>4 DEF Update, UpdateNotConnected, UpdateLive, UpdateSpawnFails,
                        UpdateSent, UpdateServed, UpdateDone
  <2>5. CASE \/ UpdateConnect \/ UpdateLost \/ UpdateJoined \/ UpdateSpawn
             \/ UpdateThread \/ UpdateSend \/ UpdatePrint \/ UpdateTake \/ UpdateMessage
    <3>1. UNCHANGED <<cur, cancel>>
        BY <2>5 DEF UpdateConnect, UpdateLost, UpdateJoined, Purge, UpdateSpawn,
                    UpdateThread, UpdateSend, UpdatePrint, UpdateTake, UpdateMessage
    <3>2. \/ pc' = pc
          \/ /\ pc \notin {"callback", "cancel", "cancelServed"}
             /\ pc' \notin {"callback", "cancel", "cancelServed"}
        BY <2>5 DEF UpdateConnect, UpdateLost, UpdateJoined, Purge, UpdateSpawn,
                    UpdateThread, UpdateSend, UpdatePrint, UpdateTake, UpdateMessage
    <3>. QED
        BY <3>1, <3>2, CurFrame
  <2>. QED
      BY <1>4, <2>1, <2>2, <2>4, <2>5 DEF Updating
<1>5. CASE ThreadFunc \/ External
  <2>1. UNCHANGED <<cur, cancel, pc>>
      BY <1>5 DEF ThreadFunc, ReaderTest, ReaderReadReply, ReaderMisreads, ReaderReadPush,
                  ReaderReadFails, ReaderPush, ReaderDispatch, ReaderServe, ReaderSignal,
                  External, ServerAnswer, ServerPush, ServerClose, LinkReset
  <2>. QED
      BY <2>1, CurFrame
<1>. QED
    BY <1>1, <1>2, <1>3, <1>4, <1>5 DEF Next

LEMMA QueueType ==
    ASSUME TypeOK
    PROVE  /\ IdsOf(served) \in Seq(Ids) /\ IdsOf(hand) \in Seq(Ids)
           /\ sent \in Seq(Ids) /\ unsent \in Seq(Ids)
           /\ IdsOf(served) \o IdsOf(hand) \in Seq(Ids)
           /\ IdsOf(served) \o IdsOf(hand) \o sent \in Seq(Ids)
           /\ Queue \in Seq(Ids)
           /\ ToSet(Queue) = ToSet(IdsOf(served)) \union ToSet(IdsOf(hand))
                                 \union ToSet(sent) \union ToSet(unsent)
<1>1. served \in Seq(Answered) /\ hand \in Seq(Answered) /\ sent \in Seq(Ids) /\ unsent \in Seq(Ids)
    BY DEF TypeOK
<1>2. PICK a \in Seq(Ids), b \in Seq(Ids) : a = IdsOf(served) /\ b = IdsOf(hand)
    BY <1>1, IdsOfLists
<1>3. a \o b \in Seq(Ids) /\ ToSet(a \o b) = ToSet(a) \union ToSet(b)
    BY ConcatProperties, ToSetConcat
<1>4. PICK ab \in Seq(Ids) : ab = a \o b
    BY <1>3
<1>5. ab \o sent \in Seq(Ids)
    BY <1>1, ConcatProperties
<1>6. ToSet(ab \o sent) = ToSet(ab) \union ToSet(sent)
    BY <1>1, ToSetConcat
<1>7. PICK abc \in Seq(Ids) : abc = ab \o sent
    BY <1>5
<1>8. abc \o unsent \in Seq(Ids)
    BY <1>1, ConcatProperties
<1>9. ToSet(abc \o unsent) = ToSet(abc) \union ToSet(unsent)
    BY <1>1, ToSetConcat
<1>10. Queue = abc \o unsent
    BY <1>2, <1>4, <1>7 DEF Queue
<1>. QED
    BY <1>1, <1>2, <1>3, <1>4, <1>5, <1>6, <1>7, <1>8, <1>9, <1>10

\* New requests enter the queue at its end.
LEMMA EnqueueQueue ==
    ASSUME TypeOK, NEW n \in Nat, Enqueue(n)
    PROVE  Making(n)
<1>. USE DEF lists, cancels
<1>1. unsent' = unsent \o NewRequests(n) /\ UNCHANGED <<served, hand, sent>>
    BY DEF Enqueue
<1>2. PICK new \in Seq(Ids) : new = NewRequests(n)
  <2>1. NewRequests(n) \in [1 .. n -> Ids]
    <3>1. MaxRequests \in Nat /\ nextRequestID \in 0 .. MaxRequests
        BY BoundsAssumption DEF TypeOK
    <3>2. \A i \in 1 .. n : nextRequestID + i - 1 \in Ids
        BY <3>1 DEF Enqueue, Ids
    <3>. QED
        BY <3>2 DEF NewRequests
  <2>. QED
      BY <2>1, SeqDef
<1>3. PICK abc \in Seq(Ids) : abc = IdsOf(served) \o IdsOf(hand) \o sent
    BY QueueType
<1>4. unsent \in Seq(Ids)
    BY DEF TypeOK
<1>5. abc \o (unsent \o new) = (abc \o unsent) \o new
  <2>1. PICK d \in Seq(Ids) : d = unsent
      BY <1>4
  <2>2. abc \o (d \o new) = (abc \o d) \o new
      BY AssociativeIds
  <2>. QED
      BY <2>1, <2>2
<1>6. Queue = abc \o unsent /\ Queue' = abc \o (unsent \o new)
    BY <1>1, <1>2, <1>3 DEF Queue, IdsOf
<1>7. Queue' = Queue \o NewRequests(n)
    BY <1>2, <1>5, <1>6
<1>. QED
    BY <1>7 DEF Enqueue, Making

\* Update moves the head of the unsent list to the end of the sent list.
LEMMA SendQueue ==
    ASSUME TypeOK, UpdateSend
    PROVE  Queue' = Queue
<1>1. /\ sent' = Append(sent, Head(unsent)) /\ unsent' = Tail(unsent) /\ unsent # <<>>
      /\ served' = served /\ hand' = hand
    BY DEF UpdateSend
<1>2. /\ unsent = <<Head(unsent)>> \o Tail(unsent)
      /\ <<Head(unsent)>> \in Seq(Ids) /\ Tail(unsent) \in Seq(Ids) /\ Head(unsent) \in Ids
    BY <1>1, HeadAndTail DEF TypeOK
<1>3. PICK h \in Seq(Ids), d \in Seq(Ids) : h = <<Head(unsent)>> /\ d = Tail(unsent)
    BY <1>2
<1>4. PICK ab \in Seq(Ids) : ab = IdsOf(served) \o IdsOf(hand)
    BY QueueType
<1>5. Append(sent, Head(unsent)) = sent \o h /\ sent \in Seq(Ids)
    BY <1>2, <1>3, AppendIsConcat DEF TypeOK
<1>6. sent \o h \in Seq(Ids) /\ ab \o sent \in Seq(Ids)
    BY <1>5, ConcatProperties
<1>7. ab \o (sent \o h) = (ab \o sent) \o h
  <2>1. PICK x \in Seq(Ids) : x = sent
      BY <1>5
  <2>2. ab \o (x \o h) = (ab \o x) \o h
      BY AssociativeIds
  <2>. QED
      BY <2>1, <2>2
<1>8. (ab \o sent) \o (h \o d) = ((ab \o sent) \o h) \o d
  <2>1. PICK x \in Seq(Ids) : x = ab \o sent
      BY <1>6
  <2>2. x \o (h \o d) = (x \o h) \o d
      BY AssociativeIds
  <2>. QED
      BY <2>1, <2>2
<1>9. Queue = (ab \o sent) \o (h \o d) /\ Queue' = (ab \o (sent \o h)) \o d
    BY <1>1, <1>2, <1>3, <1>4, <1>5 DEF Queue, IdsOf
<1>. QED
    BY <1>7, <1>8, <1>9

\* The reader takes the head of the sent list into its hand.
LEMMA DispatchQueue ==
    ASSUME TypeOK, SemaphoreInv, ReaderDispatch, sent # <<>>
    PROVE  Queue' = Queue
<1>1. /\ sent' = Tail(sent) /\ hand' = <<[id |-> Head(sent), reply |-> item]>>
      /\ thread = "dispatch" /\ UNCHANGED <<served, unsent>>
    BY DEF ReaderDispatch, callers
<1>2. hand = <<>>
    BY <1>1, EmptySeq DEF SemaphoreInv, One, TypeOK
<1>3. /\ sent = <<Head(sent)>> \o Tail(sent)
      /\ <<Head(sent)>> \in Seq(Ids) /\ Tail(sent) \in Seq(Ids) /\ Head(sent) \in Ids
    BY HeadAndTail DEF TypeOK
<1>4. IdsOf(hand) = <<>> /\ IdsOf(hand)' = <<Head(sent)>>
    BY <1>1, <1>2 DEF IdsOf
<1>5. PICK h \in Seq(Ids), c \in Seq(Ids) : h = <<Head(sent)>> /\ c = Tail(sent)
    BY <1>3
<1>6. PICK a \in Seq(Ids) : a = IdsOf(served)
    BY QueueType
<1>7. a \o <<>> = a
    BY ConcatEmptySeq
<1>8. a \o (h \o c) = (a \o h) \o c
    BY AssociativeIds
<1>9. Queue = ((a \o <<>>) \o (h \o c)) \o unsent /\ Queue' = ((a \o h) \o c) \o unsent
    BY <1>1, <1>3, <1>4, <1>5, <1>6 DEF Queue, IdsOf
<1>. QED
    BY <1>7, <1>8, <1>9

\* ... and puts it at the end of the served list.
LEMMA ServeQueue ==
    ASSUME TypeOK, ReaderServe
    PROVE  Queue' = Queue
<1>1. served' = served \o hand /\ hand' = <<>> /\ UNCHANGED <<sent, unsent>>
    BY DEF ReaderServe, callers
<1>2. IdsOf(served \o hand) = IdsOf(served) \o IdsOf(hand)
    BY IdsOfConcat DEF TypeOK
<1>3. PICK ab \in Seq(Ids) : ab = IdsOf(served) \o IdsOf(hand)
    BY QueueType
<1>4. ab \o <<>> = ab
    BY ConcatEmptySeq
<1>5. IdsOf(hand)' = <<>> /\ IdsOf(served)' = IdsOf(served \o hand)
    BY <1>1 DEF IdsOf
<1>6. Queue = (ab \o sent) \o unsent /\ Queue' = ((ab \o <<>>) \o sent) \o unsent
    BY <1>1, <1>2, <1>3, <1>5 DEF Queue
<1>. QED
    BY <1>4, <1>6

\* Update calls the callback of the oldest request of all.
LEMMA CallQueue ==
    ASSUME TypeOK, CurInv, UpdateServe, served # <<>>
    PROVE  Calling(Head(served))
<1>1. /\ served' = Tail(served) /\ cur' = <<Head(served)>> /\ pc = "take"
      /\ calls' = IF Head(served).id \in noop THEN calls ELSE Append(calls, Head(served))
      /\ UNCHANGED <<hand, sent, unsent, nextRequestID, inFlight, purged, noop, cancelled>>
    BY DEF UpdateServe, callers, cancels
<1>2. cur = <<>>
    BY <1>1, EmptySeq DEF CurInv, One, TypeOK
<1>3. /\ served = <<Head(served)>> \o Tail(served)
      /\ <<Head(served)>> \in Seq(Answered) /\ Tail(served) \in Seq(Answered)
      /\ Head(served) \in Answered
    BY HeadAndTail DEF TypeOK
<1>4. IdsOf(served) = IdsOf(<<Head(served)>>) \o IdsOf(Tail(served))
    BY <1>3, IdsOfConcat
<1>5. IdsOf(<<Head(served)>>) = <<Head(served).id>> /\ <<Head(served).id>> \in Seq(Ids)
    BY <1>3, IdsOfOne, SingletonType DEF Answered
<1>6. PICK h \in Seq(Ids), a \in Seq(Ids), b \in Seq(Ids) :
          h = <<Head(served).id>> /\ a = IdsOf(Tail(served)) /\ b = IdsOf(hand)
    BY <1>3, <1>5, IdsOfLists, QueueType
<1>7. sent \in Seq(Ids) /\ unsent \in Seq(Ids)
    BY DEF TypeOK
<1>8. a \o b \in Seq(Ids)
    BY ConcatProperties
<1>9. (a \o b) \o sent \in Seq(Ids)
    BY <1>7, <1>8, ConcatProperties
<1>10. h \o (a \o b) = (h \o a) \o b
    BY AssociativeIds
<1>11. h \o ((a \o b) \o sent) = (h \o (a \o b)) \o sent
  <2>1. PICK c \in Seq(Ids), d \in Seq(Ids) : c = a \o b /\ d = sent
      BY <1>7, <1>8
  <2>2. h \o (c \o d) = (h \o c) \o d
      BY AssociativeIds
  <2>. QED
      BY <2>1, <2>2
<1>12. h \o (((a \o b) \o sent) \o unsent) = (h \o ((a \o b) \o sent)) \o unsent
  <2>1. PICK c \in Seq(Ids), d \in Seq(Ids) : c = (a \o b) \o sent /\ d = unsent
      BY <1>7, <1>9
  <2>2. h \o (c \o d) = (h \o c) \o d
      BY AssociativeIds
  <2>. QED
      BY <2>1, <2>2
<1>13. Queue = (((h \o a) \o b) \o sent) \o unsent
    BY <1>4, <1>5, <1>6 DEF Queue
<1>14. Queue' = ((a \o b) \o sent) \o unsent /\ Queue' \in Seq(Ids)
  <2>1. Queue' = ((a \o b) \o sent) \o unsent
      BY <1>1, <1>6 DEF Queue, IdsOf
  <2>2. ((a \o b) \o sent) \o unsent \in Seq(Ids)
      BY <1>7, <1>9, ConcatProperties
  <2>. QED
      BY <2>1, <2>2
<1>15. Queue = <<Head(served).id>> \o Queue'
    BY <1>6, <1>10, <1>11, <1>12, <1>13, <1>14
<1>. QED
    BY <1>1, <1>2, <1>14, <1>15 DEF Calling

\* A lost connection empties the sent list.
LEMMA PurgeQueue ==
    ASSUME TypeOK, Purge
    PROVE  Purging(sent)
<1>1. /\ sent' = <<>> /\ purged' = purged \union ToSet(sent)
      /\ UNCHANGED <<served, hand, cur, unsent, calls, nextRequestID, inFlight, noop, cancelled>>
    BY DEF Purge, callers, cancels
<1>2. PICK ab \in Seq(Ids) : ab = IdsOf(served) \o IdsOf(hand)
    BY QueueType
<1>3. ab \o <<>> = ab
    BY ConcatEmptySeq
<1>4. Queue = (ab \o sent) \o unsent /\ Queue' = (ab \o <<>>) \o unsent
    BY <1>1, <1>2 DEF Queue, IdsOf
<1>5. Leaves(sent)
    BY <1>2, <1>3, <1>4 DEF Leaves, TypeOK
<1>. QED
    BY <1>1, <1>5 DEF Purging

\* A request still unsent is cancelled.
LEMMA WithdrawQueue ==
    ASSUME TypeOK, CancelUnsent
    PROVE  Withdrawing(cancel.id)
<1>1. PICK i \in DOMAIN unsent : unsent[i] = cancel.id /\ unsent' = RemoveAt(unsent, i)
    BY DEF CancelUnsent
<1>2. /\ cancelled' = cancelled \union {cancel.id} /\ inFlight' = inFlight - 1
      /\ UNCHANGED <<served, hand, sent, cur, calls, nextRequestID, purged, noop>>
    BY DEF CancelUnsent, CancelReturns, lists, history
<1>3. PICK x \in Seq(Ids), z \in Seq(Ids) :
          unsent = (x \o <<cancel.id>>) \o z /\ unsent' = x \o z
  <2>1. unsent \in Seq(Ids)
      BY DEF TypeOK
  <2>2. \E x, z \in Seq(Ids) :
            unsent = (x \o <<unsent[i]>>) \o z /\ RemoveAt(unsent, i) = x \o z
      BY <2>1, WithoutOne
  <2>. QED
      BY <1>1, <2>2
<1>4. PICK y \in Seq(Ids) : y = <<cancel.id>>
    BY SingletonType DEF CancelUnsent, TypeOK
<1>5. PICK abc \in Seq(Ids) : abc = IdsOf(served) \o IdsOf(hand) \o sent
    BY QueueType
<1>6. abc \o x \in Seq(Ids) /\ x \o y \in Seq(Ids)
    BY ConcatProperties
<1>7. /\ abc \o (x \o y) = (abc \o x) \o y
      /\ abc \o (x \o z) = (abc \o x) \o z
      /\ abc \o ((x \o y) \o z) = (abc \o (x \o y)) \o z
  <2>1. abc \o (x \o y) = (abc \o x) \o y
      BY AssociativeIds
  <2>2. abc \o (x \o z) = (abc \o x) \o z
      BY AssociativeIds
  <2>3. abc \o ((x \o y) \o z) = (abc \o (x \o y)) \o z
      BY <1>6, AssociativeIds
  <2>. QED
      BY <2>1, <2>2, <2>3
<1>8. Queue = abc \o ((x \o y) \o z) /\ Queue' = abc \o (x \o z)
    BY <1>2, <1>3, <1>4, <1>5 DEF Queue, IdsOf
<1>9. Leaves(<<cancel.id>>)
    BY <1>4, <1>6, <1>7, <1>8 DEF Leaves
<1>. QED
    BY <1>2, <1>9 DEF Withdrawing, CancelUnsent, TypeOK

\* What the program, the reader and the server can do to the queue.
QueueAction ==
    \/ Quiet
    \/ \E n \in {1, TxnCommands + 2} : Making(n)
    \/ served # <<>> /\ Calling(Head(served))
    \/ Returning
    \/ Purging(sent)
    \/ Withdrawing(cancel.id)
    \/ Silencing(cancel.id)

LEMMA QuietStep ==
    UNCHANGED <<served, hand, sent, unsent, cur, calls, nextRequestID, inFlight, purged,
                noop, cancelled>> => Quiet
    BY DEF Quiet, Queue, IdsOf

LEMMA SilenceQueue ==
    ASSUME TypeOK, noop' = noop \union {cancel.id}, CancelReturns(TRUE),
           cancel.id \in ToSet(sent) \/ IsServed(cancel.id),
           UNCHANGED <<object, history>>
    PROVE  Silencing(cancel.id)
<1>1. cancel.id \in ToSet(Queue)
  <2>1. CASE cancel.id \in ToSet(sent)
      BY <2>1, QueueType
  <2>2. CASE IsServed(cancel.id)
    <3>1. PICK i \in DOMAIN served : served[i].id = cancel.id
        BY <2>2 DEF IsServed
    <3>2. cancel.id \in ToSet(IdsOf(served))
        BY <3>1 DEF ToSet, IdsOf
    <3>. QED
        BY <3>2, QueueType
  <2>. QED
      BY <2>1, <2>2
<1>2. UNCHANGED <<served, hand, sent, unsent, cur, calls, nextRequestID, inFlight, purged>>
    BY DEF object, history, callers, lists
<1>3. Queue' = Queue
    BY <1>2 DEF Queue, IdsOf
<1>. QED
    BY <1>1, <1>2, <1>3 DEF Silencing, CancelReturns

LEMMA QueueStep ==
    ASSUME TypeOK, SemaphoreInv, CurInv, [Next]_vars
    PROVE  QueueAction
<1>. USE DEF callers, lists, reader, network, history, cancels, object, aside, outside
<1>1. CASE UNCHANGED vars
    BY <1>1, QuietStep DEF vars, QueueAction
<1>2. CASE Call
  <2>1. CASE MakeRequestAsync \/ MakeRequestSync
      BY <2>1, EnqueueQueue DEF MakeRequestAsync, MakeRequestSync, QueueAction
  <2>2. CASE MakeTransactionRequestAsync
    <3>1. TxnCommands + 2 \in Nat
        BY BoundsAssumption
    <3>. QED
        BY <2>2, <3>1, EnqueueQueue DEF MakeTransactionRequestAsync, QueueAction
  <2>3. CASE SyncReturn \/ SyncTimeout \/ Flush \/ FlushReturn \/ CancelAsyncRequest
      BY <2>3, QuietStep DEF SyncReturn, SyncTimeout, Flush, FlushReturn,
                             CancelAsyncRequest, QueueAction
  <2>. QED
      BY <1>2, <2>1, <2>2, <2>3 DEF Call
<1>3. CASE Cancelling
  <2>1. CASE CancelUnsent
      BY <2>1, WithdrawQueue DEF QueueAction
  <2>2. CASE CancelSent
    <3>1. CASE cancel.id \in ToSet(sent)
        BY <2>2, <3>1, SilenceQueue DEF CancelSent, QueueAction
    <3>2. CASE cancel.id \notin ToSet(sent)
        BY <2>2, <3>2, QuietStep DEF CancelSent, QueueAction
    <3>. QED
        BY <3>1, <3>2
  <2>3. CASE CancelServed
    <3>1. CASE IsServed(cancel.id)
        BY <2>3, <3>1, SilenceQueue DEF CancelServed, QueueAction
    <3>2. CASE ~IsServed(cancel.id)
        BY <2>3, <3>2, QuietStep DEF CancelServed, CancelReturns, QueueAction
    <3>. QED
        BY <3>1, <3>2
  <2>. QED
      BY <1>3, <2>1, <2>2, <2>3 DEF Cancelling
<1>4. CASE Update \/ Updating
  <2>1. CASE UpdateSend
    <3>1. UNCHANGED <<cur, calls, nextRequestID, inFlight, purged, noop, cancelled>>
        BY <2>1 DEF UpdateSend
    <3>. QED
        BY <2>1, <3>1, SendQueue DEF QueueAction, Quiet
  <2>2. CASE UpdateServe
    <3>1. CASE served = <<>>
        BY <2>2, <3>1, QuietStep DEF UpdateServe, QueueAction
    <3>2. CASE served # <<>>
        BY <2>2, <3>2, CallQueue DEF QueueAction
    <3>. QED
        BY <3>1, <3>2
  <2>3. CASE UpdateDealloc
    <3>1. Len(cur) = 1
        BY <2>3 DEF UpdateDealloc, CurInv, One
    <3>2. UNCHANGED <<served, hand, sent, unsent>>
        BY <2>3 DEF UpdateDealloc
    <3>3. Queue' = Queue
        BY <3>2 DEF Queue, IdsOf
    <3>. QED
        BY <2>3, <3>1, <3>3 DEF UpdateDealloc, Returning, QueueAction
  <2>4. CASE UpdateLost
    <3>1. CASE Purge
        BY <3>1, PurgeQueue DEF QueueAction
    <3>2. CASE pc' = "join" /\ UNCHANGED <<object, aside, reader, network, sock, printing>>
        BY <3>2, QuietStep DEF QueueAction
    <3>. QED
        BY <2>4, <3>1, <3>2 DEF UpdateLost
  <2>5. CASE UpdateJoined
      BY <2>5, PurgeQueue DEF UpdateJoined, QueueAction
  <2>6. CASE UpdateConnect \/ UpdateSpawn \/ UpdateThread \/ UpdatePrint \/ UpdateTake
             \/ UpdateMessage
      BY <2>6, QuietStep DEF UpdateConnect, UpdateSpawn, UpdateThread, UpdatePrint,
                             UpdateTake, UpdateMessage, QueueAction
  <2>7. CASE \/ Update \/ UpdateNotConnected \/ UpdateLive \/ UpdateSpawnFails
             \/ UpdateSent \/ UpdateServed \/ UpdateDone
      BY <2>7, QuietStep DEF Goto, Update, UpdateNotConnected, UpdateLive,
                             UpdateSpawnFails, UpdateSent, UpdateServed, UpdateDone, QueueAction
  <2>. QED
      BY <1>4, <2>1, <2>2, <2>3, <2>4, <2>5, <2>6, <2>7 DEF Updating
<1>5. CASE ThreadFunc
  <2>1. CASE ReaderDispatch
    <3>1. UNCHANGED <<cur, calls, nextRequestID, inFlight, purged, noop, cancelled>>
        BY <2>1 DEF ReaderDispatch
    <3>2. CASE sent = <<>>
        BY <2>1, <3>2, QuietStep DEF ReaderDispatch, QueueAction
    <3>3. CASE sent # <<>>
        BY <2>1, <3>1, <3>3, DispatchQueue DEF QueueAction, Quiet
    <3>. QED
        BY <3>2, <3>3
  <2>2. CASE ReaderServe
    <3>1. UNCHANGED <<cur, calls, nextRequestID, inFlight, purged, noop, cancelled>>
        BY <2>2 DEF ReaderServe
    <3>. QED
        BY <2>2, <3>1, ServeQueue DEF QueueAction, Quiet
  <2>3. CASE \/ ReaderTest \/ ReaderReadReply \/ ReaderMisreads \/ ReaderReadPush
             \/ ReaderReadFails \/ ReaderPush \/ ReaderSignal
      BY <2>3, QuietStep DEF ReaderTest, ReaderReadReply, ReaderMisreads, ReaderReadPush,
                             ReaderReadFails, ReaderPush, ReaderSignal, QueueAction
  <2>. QED
      BY <1>5, <2>1, <2>2, <2>3 DEF ThreadFunc
<1>6. CASE External
    BY <1>6, QuietStep DEF External, ServerAnswer, ServerPush, ServerClose, LinkReset,
                           QueueAction
<1>. QED
    BY <1>1, <1>2, <1>3, <1>4, <1>5, <1>6 DEF Next

\* New requests are in order, and later than any there was.
LEMMA NewInOrder ==
    ASSUME TypeOK, NEW n \in Nat, nextRequestID + n <= MaxRequests
    PROVE  /\ NewRequests(n) \in Seq(Ids) /\ Len(NewRequests(n)) = n
           /\ Increasing(NewRequests(n))
           /\ ToSet(NewRequests(n)) = nextRequestID .. nextRequestID + n - 1
<1>1. MaxRequests \in Nat /\ nextRequestID \in 0 .. MaxRequests
    BY BoundsAssumption DEF TypeOK
<1>2. NewRequests(n) \in [1 .. n -> Ids]
    BY <1>1 DEF NewRequests, Ids
<1>3. NewRequests(n) \in Seq(Ids) /\ DOMAIN NewRequests(n) = 1 .. n
    BY <1>2, SeqDef
<1>4. Len(NewRequests(n)) = n
    BY <1>3, LenProperties
<1>5. \A i \in 1 .. n : NewRequests(n)[i] = nextRequestID + i - 1
    BY DEF NewRequests
<1>6. Increasing(NewRequests(n))
    BY <1>1, <1>3, <1>5 DEF Increasing
<1>7. ToSet(NewRequests(n)) = {nextRequestID + i - 1 : i \in 1 .. n}
    BY <1>3, <1>5 DEF ToSet
<1>8. \A k \in nextRequestID .. nextRequestID + n - 1 :
          k - nextRequestID + 1 \in 1 .. n /\ k = nextRequestID + (k - nextRequestID + 1) - 1
    BY <1>1
<1>9. \A i \in 1 .. n : nextRequestID + i - 1 \in nextRequestID .. nextRequestID + n - 1
    BY <1>1
<1>. QED
    BY <1>3, <1>4, <1>6, <1>7, <1>8, <1>9

LEMMA MembersAreIds ==
    ASSUME NEW s \in Seq(Ids)
    PROVE  ToSet(s) \subseteq Ids
<1>1. DOMAIN s = 1 .. Len(s)
    BY LenProperties
<1>2. \A i \in 1 .. Len(s) : s[i] \in Ids
    BY ElementOfSeq
<1>. QED
    BY <1>1, <1>2 DEF ToSet

\* What a run of requests taken out of the queue leaves behind.
LEMMA LeavesOrder ==
    ASSUME NEW y \in Seq(Ids), Leaves(y), Increasing(Queue)
    PROVE  /\ Increasing(Queue') /\ Increasing(y)
           /\ ToSet(y) \subseteq ToSet(Queue) /\ ToSet(Queue') = ToSet(Queue) \ ToSet(y)
           /\ Len(Queue') + Len(y) = Len(Queue)
<1>1. PICK x \in Seq(Ids), z \in Seq(Ids) : Queue = (x \o y) \o z /\ Queue' = x \o z
    BY DEF Leaves
<1>2. PICK xy \in Seq(Ids) : xy = x \o y
    BY ConcatProperties
<1>3. Len(xy) = Len(x) + Len(y) /\ Len(Queue') = Len(x) + Len(z)
    BY <1>1, <1>2, ConcatProperties
<1>4. Len(Queue) = Len(xy) + Len(z)
    BY <1>1, <1>2, ConcatProperties
<1>5. ToSet(xy) = ToSet(x) \union ToSet(y) /\ ToSet(Queue') = ToSet(x) \union ToSet(z)
    BY <1>1, <1>2, ToSetConcat
<1>6. ToSet(Queue) = ToSet(xy) \union ToSet(z)
    BY <1>1, <1>2, ToSetConcat
<1>7. Increasing(xy) /\ Increasing(z) /\ Below(xy, z)
    BY <1>1, <1>2, IncreasingConcat
<1>8. Increasing(x) /\ Increasing(y) /\ Below(x, y)
    BY <1>2, <1>7, IncreasingConcat
<1>9. Below(x, z) /\ Below(y, z)
    BY <1>5, <1>7 DEF Below
<1>10. Increasing(x \o z)
    BY <1>7, <1>8, <1>9, IncreasingConcat
<1>11. ToSet(x) \subseteq Int /\ ToSet(y) \subseteq Int /\ ToSet(z) \subseteq Int
    BY MembersAreIds DEF Ids
<1>12. ToSet(x) \intersect ToSet(y) = {} /\ ToSet(y) \intersect ToSet(z) = {}
    BY <1>8, <1>9, <1>11 DEF Below
<1>13. Len(x) \in Nat /\ Len(y) \in Nat /\ Len(z) \in Nat
    BY LenProperties
<1>14. Len(Queue') + Len(y) = Len(Queue)
    BY <1>3, <1>4, <1>13
<1>15. ToSet(y) \subseteq ToSet(Queue) /\ ToSet(Queue') = ToSet(Queue) \ ToSet(y)
    BY <1>5, <1>6, <1>12
<1>. QED
    BY <1>1, <1>8, <1>10, <1>14, <1>15

\* What is left when the oldest request is called.
LEMMA CallingOrder ==
    ASSUME NEW request \in Answered, Calling(request), Increasing(Queue)
    PROVE  /\ Increasing(Queue') /\ \A id \in ToSet(Queue') : request.id < id
           /\ ToSet(Queue) = {request.id} \union ToSet(Queue')
           /\ Len(Queue') + 1 = Len(Queue)
<1>1. Queue' \in Seq(Ids)
    BY DEF Calling
<1>2. PICK h \in Seq(Ids) : h = <<request.id>>
    BY SingletonType DEF Answered
<1>3. ToSet(h) = {request.id} /\ Len(h) = 1
    BY <1>2 DEF ToSet
<1>4. Queue = h \o Queue'
    BY <1>2 DEF Calling
<1>5. Increasing(Queue') /\ Below(h, Queue')
    BY <1>1, <1>4, IncreasingConcat
<1>6. ToSet(Queue) = ToSet(h) \union ToSet(Queue')
    BY <1>1, <1>4, ToSetConcat
<1>7. Len(Queue) = Len(h) + Len(Queue') /\ Len(Queue') \in Nat
    BY <1>1, <1>4, ConcatProperties, LenProperties
<1>. QED
    BY <1>3, <1>5, <1>6, <1>7 DEF Below

\* The callbacks called, when one more is.
LEMMA AppendIds ==
    ASSUME NEW s \in Seq(Answered), NEW request \in Answered
    PROVE  /\ IdsOf(Append(s, request)) = IdsOf(s) \o <<request.id>>
           /\ ToSet(IdsOf(Append(s, request))) = ToSet(IdsOf(s)) \union {request.id}
<1>1. PICK e \in Seq(Answered) : e = <<request>>
    BY SingletonType
<1>2. Append(s, request) = s \o e
    BY <1>1, AppendIsConcat
<1>3. IdsOf(s \o e) = IdsOf(s) \o IdsOf(e)
    BY IdsOfConcat
<1>4. IdsOf(e) = <<request.id>>
    BY <1>1, IdsOfOne
<1>5. ToSet(IdsOf(e)) = {request.id}
    BY <1>4 DEF ToSet
<1>6. PICK a \in Seq(Ids), b \in Seq(Ids) : a = IdsOf(s) /\ b = IdsOf(e)
    BY IdsOfLists
<1>7. ToSet(a \o b) = ToSet(a) \union ToSet(b)
    BY ToSetConcat
<1>. QED
    BY <1>2, <1>3, <1>4, <1>5, <1>6, <1>7

-----------------------------------------------------------------------------
(* Order                                                                   *)

\* That the queue is in order is not inductive: new requests must be later than
\* any before them, and those called must be earlier than those that wait.
OrderInv ==
    /\ Increasing(Queue)
    /\ Increasing(IdsOf(calls))
    /\ \A id \in ToSet(Queue) \union Past : id < nextRequestID
    /\ \A id \in Past, later \in ToSet(Queue) : id < later

LEMMA OrderFrame ==
    ASSUME OrderInv, Increasing(Queue'), ToSet(Queue') \subseteq ToSet(Queue),
           Past' \subseteq Past, UNCHANGED <<calls, nextRequestID>>
    PROVE  OrderInv'
<1>1. IdsOf(calls)' = IdsOf(calls)
    BY DEF IdsOf
<1>. QED
    BY <1>1 DEF OrderInv

LEMMA OrderStep ==
    ASSUME TypeOK, QueueAction, OrderInv
    PROVE  OrderInv'
<1>1. Queue \in Seq(Ids) /\ ToSet(Queue) \subseteq Ids
    BY QueueType, MembersAreIds
<1>2. CASE Quiet \/ \E id \in {cancel.id} : Silencing(id)
  <2>1. Queue' = Queue /\ UNCHANGED <<cur, calls, nextRequestID>>
      BY <1>2 DEF Quiet, Silencing
  <2>2. Past' = Past /\ ToSet(Queue') = ToSet(Queue)
      BY <2>1 DEF Past, Called, IdsOf
  <2>3. Increasing(Queue')
      BY <2>1 DEF OrderInv
  <2>. QED
      BY <2>1, <2>2, <2>3, OrderFrame
<1>3. CASE \E n \in {1, TxnCommands + 2} : Making(n)
  <2>1. PICK n \in Nat : Making(n) /\ n > 0
      BY <1>3, BoundsAssumption
  <2>2. /\ nextRequestID' = nextRequestID + n /\ nextRequestID + n <= MaxRequests
        /\ Queue' = Queue \o NewRequests(n) /\ UNCHANGED <<cur, calls>>
      BY <2>1 DEF Making
  <2>3. PICK new \in Seq(Ids) :
            /\ new = NewRequests(n) /\ Increasing(new)
            /\ ToSet(new) = nextRequestID .. nextRequestID + n - 1
      BY <2>2, NewInOrder
  <2>4. Below(Queue, new)
    <3>1. \A a \in ToSet(Queue) : a \in Int /\ a < nextRequestID
        BY <1>1 DEF OrderInv, Ids
    <3>2. nextRequestID \in Int
        BY DEF TypeOK
    <3>. QED
        BY <2>3, <3>1, <3>2 DEF Below
  <2>5. Increasing(Queue \o new)
      BY <1>1, <2>3, <2>4, IncreasingConcat DEF OrderInv
  <2>6. ToSet(Queue \o new) = ToSet(Queue) \union ToSet(new)
      BY <1>1, ToSetConcat
  <2>7. Queue' = Queue \o new
      BY <2>2, <2>3
  <2>8. Past' = Past /\ IdsOf(calls)' = IdsOf(calls)
      BY <2>2 DEF Past, Called, IdsOf
  <2>9. nextRequestID \in Nat /\ Past \subseteq Int
    <3>1. cur \in Seq(Answered) /\ calls \in Seq(Answered)
        BY DEF TypeOK
    <3>2. IdsOf(cur) \in Seq(Ids) /\ IdsOf(calls) \in Seq(Ids)
        BY <3>1, IdsOfLists
    <3>3. ToSet(IdsOf(cur)) \subseteq Ids /\ ToSet(IdsOf(calls)) \subseteq Ids
        BY <3>2, MembersAreIds
    <3>. QED
        BY <3>3 DEF Past, Called, Ids, TypeOK
  <2>10. \A id \in ToSet(Queue') \union Past' : id < nextRequestID'
    <3>1. \A id \in ToSet(Queue) \union Past : id < nextRequestID
        BY DEF OrderInv
    <3>2. ToSet(Queue) \union Past \subseteq Int
      <4>1. Ids \subseteq Int
          BY DEF Ids
      <4>2. ToSet(Queue) \subseteq Int
          BY <1>1, <4>1
      <4>. QED
          BY <2>9, <4>2
    <3>3. \A id \in ToSet(Queue) \union Past : id < nextRequestID + n
        BY <2>9, <3>1, <3>2
    <3>4. \A id \in ToSet(new) : id < nextRequestID + n
        BY <2>3, <2>9
    <3>. QED
        BY <2>2, <2>6, <2>7, <2>8, <3>3, <3>4
  <2>11. \A id \in Past', later \in ToSet(Queue') : id < later
    <3>1. \A id \in Past, later \in ToSet(Queue) : id < later
        BY DEF OrderInv
    <3>2. \A id \in Past : id \in Int /\ id < nextRequestID
        BY <2>9 DEF OrderInv
    <3>3. \A id \in Past, later \in ToSet(new) : id < later
        BY <2>3, <2>9, <3>2
    <3>. QED
        BY <2>6, <2>7, <2>8, <3>1, <3>3
  <2>. QED
      BY <2>5, <2>7, <2>8, <2>10, <2>11 DEF OrderInv
<1>4. CASE served # <<>> /\ Calling(Head(served))
  <2>1. PICK request \in Answered : Calling(request)
      BY <1>4, HeadTailProperties DEF TypeOK
  <2>2. /\ Increasing(Queue') /\ \A id \in ToSet(Queue') : request.id < id
        /\ ToSet(Queue) = {request.id} \union ToSet(Queue')
      BY <2>1, CallingOrder DEF OrderInv
  <2>3. /\ cur' = <<request>> /\ nextRequestID' = nextRequestID
        /\ calls' \in {calls, Append(calls, request)}
      BY <2>1 DEF Calling
  <2>4. calls \in Seq(Answered) /\ IdsOf(calls) \in Seq(Ids)
      BY IdsOfLists DEF TypeOK
  <2>5. ToSet(IdsOf(cur)') = {request.id}
      BY <2>3 DEF ToSet, IdsOf
  <2>6. /\ ToSet(IdsOf(calls)') \subseteq ToSet(IdsOf(calls)) \union {request.id}
        /\ Increasing(IdsOf(calls)')
    <3>1. CASE calls' = calls
      <4>1. IdsOf(calls)' = IdsOf(calls)
          BY <3>1 DEF IdsOf
      <4>. QED
          BY <4>1 DEF OrderInv
    <3>2. CASE calls' = Append(calls, request)
      <4>1. IdsOf(calls)' = IdsOf(Append(calls, request))
          BY <3>2 DEF IdsOf
      <4>2. PICK one \in Seq(Ids) : one = <<request.id>>
          BY SingletonType DEF Answered
      <4>3. Increasing(one) /\ ToSet(one) = {request.id}
          BY <4>2 DEF Increasing, ToSet
      <4>4. Below(IdsOf(calls), one)
          BY <2>2, <4>3 DEF Below, OrderInv, Past, Called
      <4>5. Increasing(IdsOf(calls) \o one)
          BY <2>4, <4>3, <4>4, IncreasingConcat DEF OrderInv
      <4>6. /\ IdsOf(Append(calls, request)) = IdsOf(calls) \o <<request.id>>
            /\ ToSet(IdsOf(Append(calls, request))) = ToSet(IdsOf(calls)) \union {request.id}
          BY <2>4, AppendIds
      <4>. QED
          BY <4>1, <4>2, <4>5, <4>6
    <3>. QED
        BY <2>3, <3>1, <3>2
  <2>7. Past' \subseteq Past \union {request.id}
      BY <2>5, <2>6 DEF Past, Called
  <2>8. \A id \in ToSet(Queue') \union Past' : id < nextRequestID'
      BY <2>2, <2>3, <2>7 DEF OrderInv
  <2>9. \A id \in Past', later \in ToSet(Queue') : id < later
      BY <2>2, <2>7 DEF OrderInv
  <2>. QED
      BY <2>2, <2>6, <2>8, <2>9 DEF OrderInv
<1>5. CASE Returning
  <2>1. Queue' = Queue /\ cur' = <<>> /\ UNCHANGED <<calls, nextRequestID>>
      BY <1>5 DEF Returning
  <2>2. IdsOf(cur)' = <<>> /\ IdsOf(calls)' = IdsOf(calls)
      BY <2>1 DEF IdsOf
  <2>3. ToSet(<<>>) = {}
      BY DEF ToSet
  <2>4. Past' \subseteq Past
      BY <2>2, <2>3 DEF Past, Called
  <2>5. Increasing(Queue') /\ ToSet(Queue') = ToSet(Queue)
      BY <2>1 DEF OrderInv
  <2>. QED
      BY <2>1, <2>4, <2>5, OrderFrame
<1>6. CASE \E y \in Seq(Ids) : Leaves(y) /\ UNCHANGED <<cur, calls, nextRequestID>>
  <2>1. Past' = Past
      BY <1>6 DEF Past, Called, IdsOf
  <2>2. Increasing(Queue') /\ ToSet(Queue') \subseteq ToSet(Queue)
      BY <1>6, LeavesOrder DEF OrderInv
  <2>. QED
      BY <1>6, <2>1, <2>2, OrderFrame
<1>7. CASE Purging(sent)
    BY <1>6, <1>7 DEF Purging, TypeOK
<1>8. CASE Withdrawing(cancel.id)
  <2>1. <<cancel.id>> \in Seq(Ids)
      BY <1>8, SingletonType DEF Withdrawing
  <2>. QED
      BY <1>6, <1>8, <2>1 DEF Withdrawing
<1>. QED
    BY <1>2, <1>3, <1>4, <1>5, <1>7, <1>8 DEF QueueAction

\* The request being called comes before those that wait.
LEMMA PipelineIsQueue ==
    ASSUME TypeOK
    PROVE  /\ Pipeline = IdsOf(cur) \o Queue /\ IdsOf(cur) \in Seq(Ids)
           /\ Len(Pipeline) = Len(cur) + Len(Queue)
           /\ ToSet(Pipeline) = ToSet(IdsOf(cur)) \union ToSet(Queue)
<1>1. sent \in Seq(Ids) /\ unsent \in Seq(Ids) /\ cur \in Seq(Answered)
    BY DEF TypeOK
<1>2. PICK c \in Seq(Ids), a \in Seq(Ids), b \in Seq(Ids) :
          /\ c = IdsOf(cur) /\ a = IdsOf(served) /\ b = IdsOf(hand)
          /\ Len(c) = Len(cur)
    BY <1>1, QueueType, IdsOfLists
<1>3. a \o b \in Seq(Ids)
    BY ConcatProperties
<1>4. (a \o b) \o sent \in Seq(Ids)
    BY <1>1, <1>3, ConcatProperties
<1>5. c \o (a \o b) = (c \o a) \o b
    BY AssociativeIds
<1>6. c \o ((a \o b) \o sent) = (c \o (a \o b)) \o sent
  <2>1. PICK ab \in Seq(Ids), d \in Seq(Ids) : ab = a \o b /\ d = sent
      BY <1>1, <1>3
  <2>2. c \o (ab \o d) = (c \o ab) \o d
      BY AssociativeIds
  <2>. QED
      BY <2>1, <2>2
<1>7. c \o (((a \o b) \o sent) \o unsent) = (c \o ((a \o b) \o sent)) \o unsent
  <2>1. PICK abc \in Seq(Ids), d \in Seq(Ids) : abc = (a \o b) \o sent /\ d = unsent
      BY <1>1, <1>4
  <2>2. c \o (abc \o d) = (c \o abc) \o d
      BY AssociativeIds
  <2>. QED
      BY <2>1, <2>2
<1>8. Pipeline = (((c \o a) \o b) \o sent) \o unsent /\ Queue = ((a \o b) \o sent) \o unsent
    BY <1>2 DEF Pipeline, Queue
<1>9. Pipeline = c \o Queue
    BY <1>5, <1>6, <1>7, <1>8
<1>10. PICK q \in Seq(Ids) : q = Queue
    BY QueueType
<1>11. Len(c \o q) = Len(c) + Len(q)
    BY ConcatProperties
<1>12. ToSet(c \o q) = ToSet(c) \union ToSet(q)
    BY ToSetConcat
<1>. QED
    BY <1>2, <1>9, <1>10, <1>11, <1>12

LEMMA QueueInit ==
    ASSUME Init
    PROVE  /\ Queue = <<>> /\ Pipeline = <<>> /\ ToSet(Queue) = {}
           /\ IdsOf(calls) = <<>> /\ Called = {} /\ Past = {}
           /\ CurInv /\ SemaphoreInv
<1>1. served = <<>> /\ hand = <<>> /\ sent = <<>> /\ unsent = <<>> /\ cur = <<>> /\ calls = <<>>
    BY DEF Init
<1>2. IdsOf(<<>>) = <<>> /\ ToSet(<<>>) = {} /\ <<>> \o <<>> = <<>>
    BY DEF IdsOf, ToSet
<1>3. Queue = <<>> /\ Pipeline = <<>>
    BY <1>1, <1>2 DEF Queue, Pipeline
<1>4. CurInv /\ SemaphoreInv
    BY <1>1 DEF Init, CurInv, SemaphoreInv, SemaphoreBacked, One
<1>. QED
    BY <1>1, <1>2, <1>3, <1>4 DEF Called, Past

LEMMA QueueCorrect == Spec => [](TypeOK /\ CurInv /\ SemaphoreInv /\ OrderInv)
<1>1. Init => CurInv /\ SemaphoreInv /\ OrderInv
  <2>1. Init => CurInv /\ SemaphoreInv
      BY QueueInit
  <2>2. ASSUME Init PROVE OrderInv
      BY <2>2, QueueInit DEF OrderInv, Increasing
  <2>. QED
      BY <2>1, <2>2
<1>2. TypeOK /\ CurInv /\ SemaphoreInv /\ OrderInv /\ [Next]_vars
          => CurInv' /\ SemaphoreInv' /\ OrderInv'
    BY CurStep, SemaphoreStep, QueueStep, OrderStep
<1>. QED
    BY <1>1, <1>2, TypeCorrect, PTL DEF Spec

\* Wherever the two threads are, the lists hold every request once and in the
\* order they were made in, and callbacks are called in that order, once each:
\* the sent and the served list are only ever appended to, and only the heads of
\* the unsent, the sent and the served list are taken.
THEOREM OrderCorrect == Spec => [](PipelineInOrder /\ CallbacksInOrder)
<1>1. TypeOK /\ CurInv /\ OrderInv => PipelineInOrder /\ CallbacksInOrder
  <2>. SUFFICES ASSUME TypeOK, CurInv, OrderInv PROVE PipelineInOrder /\ CallbacksInOrder
      OBVIOUS
  <2>1. PipelineInOrder
    <3>1. PICK c \in Seq(Ids) : c = IdsOf(cur) /\ Len(c) = Len(cur)
        BY IdsOfLists DEF TypeOK
    <3>2. Len(c) \in {0, 1}
        BY <3>1 DEF CurInv, One
    <3>3. Increasing(c)
      <4>1. DOMAIN c = 1 .. Len(c)
          BY LenProperties
      <4>. QED
          BY <3>2, <4>1 DEF Increasing
    <3>4. Below(c, Queue)
        BY <3>1 DEF OrderInv, Past, Below
    <3>5. Increasing(c \o Queue)
        BY <3>3, <3>4, QueueType, IncreasingConcat DEF OrderInv
    <3>6. Pipeline = c \o Queue
        BY <3>1, PipelineIsQueue
    <3>. QED
        BY <3>5, <3>6 DEF PipelineInOrder, Increasing
  <2>2. CallbacksInOrder
      BY DEF OrderInv, Increasing, IdsOf, CallbacksInOrder
  <2>. QED
      BY <2>1, <2>2
<1>. QED
    BY <1>1, QueueCorrect, PTL

-----------------------------------------------------------------------------
(* What becomes of the requests                                            *)

\* The requests counted are on their way or purged.  A request is not purged
\* twice, nor purged while it waits.
CountInv ==
    /\ inFlight = Len(cur) + Len(Queue) + Cardinality(purged)
    /\ \A id \in purged : id < nextRequestID /\ id \notin ToSet(Queue)

\* A request that was cancelled has not been called, and will not be: it is gone
\* from the queue, or its callback was replaced.
CancelInv ==
    /\ noop \subseteq cancelled
    /\ \A id \in cancelled :
           /\ id < nextRequestID /\ id \notin Called
           /\ id \in noop \/ id \notin ToSet(Queue)

NothingInv ==
    \A id \in 0 .. nextRequestID - 1 :
        id \in ToSet(Queue) \union purged \union cancelled \union Called

LEMMA QuietSets ==
    ASSUME Quiet \/ Returning \/ Silencing(cancel.id)
    PROVE  Queue' = Queue /\ ToSet(Queue') = ToSet(Queue) /\ Called' = Called
    BY DEF Quiet, Returning, Silencing, Called, IdsOf

LEMMA MakingSets ==
    ASSUME TypeOK, NEW n \in Nat, Making(n)
    PROVE  /\ Called' = Called /\ Len(Queue') = Len(Queue) + n
           /\ ToSet(Queue') = ToSet(Queue) \union (nextRequestID .. nextRequestID + n - 1)
<1>1. PICK new \in Seq(Ids) :
          /\ new = NewRequests(n) /\ Len(new) = n
          /\ ToSet(new) = nextRequestID .. nextRequestID + n - 1
    BY NewInOrder DEF Making
<1>2. Queue' = Queue \o new
    BY <1>1 DEF Making
<1>3. ToSet(Queue \o new) = ToSet(Queue) \union ToSet(new)
    BY QueueType, ToSetConcat
<1>4. Len(Queue \o new) = Len(Queue) + Len(new)
    BY QueueType, ConcatProperties
<1>5. Called' = Called
    BY DEF Making, Called, IdsOf
<1>. QED
    BY <1>1, <1>2, <1>3, <1>4, <1>5

LEMMA CallingSets ==
    ASSUME TypeOK, OrderInv, NEW request \in Answered, Calling(request)
    PROVE  /\ ToSet(Queue) = {request.id} \union ToSet(Queue')
           /\ request.id \notin ToSet(Queue')
           /\ Len(Queue') + 1 = Len(Queue)
           /\ Called' = IF request.id \in noop THEN Called ELSE Called \union {request.id}
<1>1. /\ \A id \in ToSet(Queue') : request.id < id
      /\ ToSet(Queue) = {request.id} \union ToSet(Queue')
      /\ Len(Queue') + 1 = Len(Queue)
    BY CallingOrder DEF OrderInv
<1>2. request.id \in Int
    BY DEF Answered, Ids
<1>3. request.id \notin ToSet(Queue')
    BY <1>1, <1>2
<1>4. calls \in Seq(Answered)
    BY DEF TypeOK
<1>5. CASE request.id \in noop
  <2>1. calls' = calls
      BY <1>5 DEF Calling
  <2>2. Called' = Called
      BY <2>1 DEF Called, IdsOf
  <2>. QED
      BY <1>1, <1>3, <1>5, <2>2
<1>6. CASE request.id \notin noop
  <2>1. calls' = Append(calls, request)
      BY <1>6 DEF Calling
  <2>2. Called' = ToSet(IdsOf(Append(calls, request)))
      BY <2>1 DEF Called, IdsOf
  <2>3. Called' = Called \union {request.id}
      BY <1>4, <2>2, AppendIds DEF Called
  <2>. QED
      BY <1>1, <1>3, <1>6, <2>3
<1>. QED
    BY <1>5, <1>6

LEMMA LeavesSets ==
    ASSUME OrderInv, NEW y \in Seq(Ids), Leaves(y), UNCHANGED calls
    PROVE  /\ ToSet(y) \subseteq ToSet(Queue) /\ ToSet(Queue') = ToSet(Queue) \ ToSet(y)
           /\ Len(Queue') + Len(y) = Len(Queue) /\ Cardinality(ToSet(y)) = Len(y)
           /\ Called' = Called
<1>1. Called' = Called
    BY DEF Called, IdsOf
<1>2. Increasing(y)
    BY LeavesOrder DEF OrderInv
<1>. QED
    BY <1>1, <1>2, LeavesOrder, IncreasingSize DEF OrderInv

LEMMA CancelStep ==
    ASSUME TypeOK, OrderInv, CancelInv, QueueAction
    PROVE  CancelInv'
<1>. USE DEF CancelInv
<1>1. CASE Quiet \/ Returning
  <2>1. ToSet(Queue') = ToSet(Queue) /\ Called' = Called
      BY <1>1, QuietSets
  <2>2. UNCHANGED <<noop, cancelled, nextRequestID>>
      BY <1>1 DEF Quiet, Returning
  <2>. QED
      BY <2>1, <2>2
<1>2. CASE \E n \in {1, TxnCommands + 2} : Making(n)
  <2>1. PICK n \in Nat : Making(n)
      BY <1>2, BoundsAssumption
  <2>2. /\ Called' = Called
        /\ ToSet(Queue') = ToSet(Queue) \union (nextRequestID .. nextRequestID + n - 1)
      BY <2>1, MakingSets
  <2>3. UNCHANGED <<noop, cancelled>> /\ nextRequestID' = nextRequestID + n
      BY <2>1 DEF Making
  <2>4. nextRequestID \in Int /\ cancelled \subseteq Int
      BY DEF TypeOK, Ids
  <2>. QED
      BY <2>2, <2>3, <2>4
<1>3. CASE served # <<>> /\ Calling(Head(served))
  <2>1. PICK request \in Answered : Calling(request)
      BY <1>3, HeadTailProperties DEF TypeOK
  <2>2. /\ ToSet(Queue) = {request.id} \union ToSet(Queue')
        /\ Called' = IF request.id \in noop THEN Called ELSE Called \union {request.id}
      BY <2>1, CallingSets
  <2>3. UNCHANGED <<noop, cancelled, nextRequestID>>
      BY <2>1 DEF Calling
  <2>. QED
      BY <2>2, <2>3
<1>4. CASE Purging(sent)
  <2>1. ToSet(Queue') \subseteq ToSet(Queue) /\ Called' = Called
      BY <1>4, LeavesSets DEF Purging, TypeOK
  <2>2. UNCHANGED <<noop, cancelled, nextRequestID>>
      BY <1>4 DEF Purging
  <2>. QED
      BY <2>1, <2>2
<1>5. CASE Withdrawing(cancel.id)
  <2>1. PICK y \in Seq(Ids) : y = <<cancel.id>>
      BY <1>5, SingletonType DEF Withdrawing
  <2>2. Leaves(y) /\ UNCHANGED calls /\ ToSet(y) = {cancel.id}
      BY <1>5, <2>1 DEF Withdrawing, ToSet
  <2>3. /\ cancel.id \in ToSet(Queue) /\ ToSet(Queue') = ToSet(Queue) \ {cancel.id}
        /\ Called' = Called
      BY <2>2, LeavesSets
  <2>4. /\ UNCHANGED <<noop, nextRequestID>> /\ cancel.id \in Int
        /\ cancelled' = cancelled \union {cancel.id}
      BY <1>5 DEF Withdrawing, Ids
  <2>5. cancel.id < nextRequestID /\ cancel.id \notin Called
      BY <2>3, <2>4 DEF OrderInv, Past
  <2>. QED
      BY <2>3, <2>4, <2>5
<1>6. CASE Silencing(cancel.id)
  <2>1. ToSet(Queue') = ToSet(Queue) /\ Called' = Called
      BY <1>6, QuietSets
  <2>2. /\ cancel.id \in ToSet(Queue) /\ nextRequestID' = nextRequestID
        /\ noop' = noop \union {cancel.id} /\ cancelled' = cancelled \union {cancel.id}
      BY <1>6 DEF Silencing
  <2>3. cancel.id \in Int
    <3>1. ToSet(Queue) \subseteq Ids
        BY QueueType, MembersAreIds
    <3>. QED
        BY <2>2, <3>1 DEF Ids
  <2>4. cancel.id < nextRequestID /\ cancel.id \notin Called
      BY <2>2, <2>3 DEF OrderInv, Past
  <2>. QED
      BY <2>1, <2>2, <2>4
<1>. QED
    BY <1>1, <1>2, <1>3, <1>4, <1>5, <1>6 DEF QueueAction

LEMMA NothingStep ==
    ASSUME TypeOK, OrderInv, CancelInv, NothingInv, QueueAction
    PROVE  NothingInv'
<1>. USE DEF NothingInv
<1>1. CASE Quiet \/ Returning \/ Silencing(cancel.id)
  <2>1. ToSet(Queue') = ToSet(Queue) /\ Called' = Called
      BY <1>1, QuietSets
  <2>2. UNCHANGED <<purged, nextRequestID>> /\ cancelled \subseteq cancelled'
      BY <1>1 DEF Quiet, Returning, Silencing
  <2>. QED
      BY <2>1, <2>2
<1>2. CASE \E n \in {1, TxnCommands + 2} : Making(n)
  <2>1. PICK n \in Nat : Making(n)
      BY <1>2, BoundsAssumption
  <2>2. /\ Called' = Called
        /\ ToSet(Queue') = ToSet(Queue) \union (nextRequestID .. nextRequestID + n - 1)
      BY <2>1, MakingSets
  <2>3. UNCHANGED <<purged, cancelled>> /\ nextRequestID' = nextRequestID + n
      BY <2>1 DEF Making
  <2>4. nextRequestID \in Nat
      BY DEF TypeOK
  <2>. QED
      BY <2>2, <2>3, <2>4
<1>3. CASE served # <<>> /\ Calling(Head(served))
  <2>1. PICK request \in Answered : Calling(request)
      BY <1>3, HeadTailProperties DEF TypeOK
  <2>2. /\ ToSet(Queue) = {request.id} \union ToSet(Queue')
        /\ Called' = IF request.id \in noop THEN Called ELSE Called \union {request.id}
      BY <2>1, CallingSets
  <2>3. UNCHANGED <<noop, purged, cancelled, nextRequestID>>
      BY <2>1 DEF Calling
  <2>4. noop \subseteq cancelled
      BY DEF CancelInv
  <2>. QED
      BY <2>2, <2>3, <2>4
<1>4. CASE Purging(sent)
  <2>1. /\ ToSet(Queue') = ToSet(Queue) \ ToSet(sent) /\ Called' = Called
      BY <1>4, LeavesSets DEF Purging, TypeOK
  <2>2. UNCHANGED <<cancelled, nextRequestID>> /\ purged' = purged \union ToSet(sent)
      BY <1>4 DEF Purging
  <2>. QED
      BY <2>1, <2>2
<1>5. CASE Withdrawing(cancel.id)
  <2>1. PICK y \in Seq(Ids) : y = <<cancel.id>>
      BY <1>5, SingletonType DEF Withdrawing
  <2>2. Leaves(y) /\ UNCHANGED calls /\ ToSet(y) = {cancel.id}
      BY <1>5, <2>1 DEF Withdrawing, ToSet
  <2>3. ToSet(Queue') = ToSet(Queue) \ {cancel.id} /\ Called' = Called
      BY <2>2, LeavesSets
  <2>4. /\ UNCHANGED <<purged, nextRequestID>> /\ cancelled' = cancelled \union {cancel.id}
      BY <1>5 DEF Withdrawing
  <2>. QED
      BY <2>3, <2>4
<1>. QED
    BY <1>1, <1>2, <1>3, <1>4, <1>5 DEF QueueAction

LEMMA PurgedFinite ==
    ASSUME TypeOK
    PROVE  IsFiniteSet(purged) /\ Cardinality(purged) \in Nat
<1>1. IsFiniteSet(Ids)
    BY BoundsAssumption, FS_Interval DEF Ids
<1>2. purged \in SUBSET Ids
    BY DEF TypeOK
<1>3. IsFiniteSet(purged)
    BY <1>1, <1>2, FS_Subset
<1>. QED
    BY <1>3, FS_CardinalityType

LEMMA CountStep ==
    ASSUME TypeOK, OrderInv, CountInv, QueueAction
    PROVE  CountInv'
<1>. USE DEF CountInv
<1>0. /\ Len(Queue) \in Nat /\ Cardinality(purged) \in Nat /\ Len(cur) \in Nat
      /\ nextRequestID \in Nat /\ purged \subseteq Int
  <2>1. Len(Queue) \in Nat
      BY QueueType, LenProperties
  <2>2. Len(cur) \in Nat
      BY LenProperties DEF TypeOK
  <2>3. nextRequestID \in Nat /\ purged \subseteq Int
      BY DEF TypeOK, Ids
  <2>. QED
      BY <2>1, <2>2, <2>3, PurgedFinite
<1>1. CASE Quiet \/ Silencing(cancel.id)
  <2>1. Queue' = Queue /\ ToSet(Queue') = ToSet(Queue)
      BY <1>1, QuietSets
  <2>2. UNCHANGED <<cur, inFlight, purged, nextRequestID>>
      BY <1>1 DEF Quiet, Silencing
  <2>. QED
      BY <2>1, <2>2
<1>2. CASE \E n \in {1, TxnCommands + 2} : Making(n)
  <2>1. PICK n \in Nat : Making(n)
      BY <1>2, BoundsAssumption
  <2>2. /\ Len(Queue') = Len(Queue) + n
        /\ ToSet(Queue') = ToSet(Queue) \union (nextRequestID .. nextRequestID + n - 1)
      BY <2>1, MakingSets
  <2>3. /\ UNCHANGED <<cur, purged>> /\ nextRequestID' = nextRequestID + n
        /\ inFlight' = inFlight + n
      BY <2>1 DEF Making
  <2>4. inFlight' = Len(cur') + Len(Queue') + Cardinality(purged')
      BY <1>0, <2>2, <2>3
  <2>5. \A id \in purged' : id < nextRequestID' /\ id \notin ToSet(Queue')
      BY <1>0, <2>2, <2>3
  <2>. QED
      BY <2>4, <2>5
<1>3. CASE served # <<>> /\ Calling(Head(served))
  <2>1. PICK request \in Answered : Calling(request)
      BY <1>3, HeadTailProperties DEF TypeOK
  <2>2. /\ ToSet(Queue) = {request.id} \union ToSet(Queue')
        /\ Len(Queue') + 1 = Len(Queue)
      BY <2>1, CallingSets
  <2>3. /\ UNCHANGED <<inFlight, purged, nextRequestID>>
        /\ Len(cur) = 0 /\ Len(cur') = 1
      BY <2>1 DEF Calling
  <2>4. Len(Queue') = Len(Queue) - 1
    <3>1. Len(Queue') \in Nat
        BY <2>1, LenProperties DEF Calling
    <3>. QED
        BY <1>0, <2>2, <3>1
  <2>5. inFlight' = Len(cur') + Len(Queue') + Cardinality(purged')
      BY <1>0, <2>3, <2>4
  <2>. QED
      BY <2>2, <2>3, <2>5
<1>4. CASE Returning
  <2>1. Queue' = Queue /\ ToSet(Queue') = ToSet(Queue)
      BY <1>4, QuietSets
  <2>2. /\ UNCHANGED <<purged, nextRequestID>> /\ inFlight' = inFlight - 1
        /\ Len(cur) = 1 /\ Len(cur') = 0
      BY <1>4 DEF Returning
  <2>. QED
      BY <1>0, <2>1, <2>2
<1>5. CASE Purging(sent)
  <2>1. /\ ToSet(sent) \subseteq ToSet(Queue) /\ ToSet(Queue') = ToSet(Queue) \ ToSet(sent)
        /\ Len(Queue') + Len(sent) = Len(Queue) /\ Cardinality(ToSet(sent)) = Len(sent)
      BY <1>5, LeavesSets DEF Purging, TypeOK
  <2>2. /\ UNCHANGED <<cur, inFlight, nextRequestID>> /\ purged' = purged \union ToSet(sent)
      BY <1>5 DEF Purging
  <2>3. IsFiniteSet(ToSet(sent))
    <3>1. Increasing(sent)
        BY <1>5, LeavesOrder DEF Purging, TypeOK, OrderInv
    <3>. QED
        BY <3>1, IncreasingSize DEF TypeOK
  <2>4. Cardinality(purged \union ToSet(sent)) = Cardinality(purged) + Len(sent)
    <3>1. purged \intersect ToSet(sent) = {}
        BY <2>1
    <3>2. Cardinality(purged \union ToSet(sent))
              = Cardinality(purged) + Cardinality(ToSet(sent))
                    - Cardinality(purged \intersect ToSet(sent))
        BY <2>3, PurgedFinite, FS_Union
    <3>3. Len(sent) \in Nat
        BY LenProperties DEF TypeOK
    <3>4. Cardinality(purged \intersect ToSet(sent)) = 0
        BY <3>1, FS_EmptySet
    <3>. QED
        BY <1>0, <2>1, <3>2, <3>3, <3>4
  <2>5. Len(Queue') \in Nat /\ Len(sent) \in Nat
    <3>1. PICK x \in Seq(Ids), z \in Seq(Ids) : Queue' = x \o z
        BY <1>5 DEF Purging, Leaves
    <3>. QED
        BY <3>1, ConcatProperties, LenProperties DEF TypeOK
  <2>6. inFlight' = Len(cur') + Len(Queue') + Cardinality(purged')
    <3>0. PICK c, p, q, k, m :
              /\ c = Len(cur) /\ p = Len(Queue) /\ q = Len(Queue') /\ k = Cardinality(purged)
              /\ m = Len(sent)
        OBVIOUS
    <3>1. c \in Int /\ p \in Int /\ q \in Int /\ k \in Int /\ m \in Int
        BY <1>0, <2>5, <3>0
    <3>2. inFlight = c + p + k /\ q + m = p
      <4>1. inFlight = c + p + k
          BY <3>0
      <4>2. q + m = p
          BY <2>1, <3>0
      <4>. QED
          BY <4>1, <4>2
    <3>3. Cardinality(purged') = k + m
        BY <2>2, <2>4, <3>0
    <3>4. Len(cur') = c /\ inFlight' = inFlight
        BY <2>2, <3>0
    <3>5. inFlight' = c + p + k
        BY <3>2, <3>4
    <3>6. Len(cur') + Len(Queue') + Cardinality(purged') = c + q + (k + m)
        BY <3>0, <3>3, <3>4
    <3>7. c + q + (k + m) = c + p + k
        BY <3>1, <3>2
    <3>. QED
        BY <3>5, <3>6, <3>7
  <2>7. \A id \in purged' : id < nextRequestID' /\ id \notin ToSet(Queue')
      BY <2>1, <2>2 DEF OrderInv
  <2>. QED
      BY <2>6, <2>7
<1>6. CASE Withdrawing(cancel.id)
  <2>1. PICK y \in Seq(Ids) : y = <<cancel.id>>
      BY <1>6, SingletonType DEF Withdrawing
  <2>2. Leaves(y) /\ UNCHANGED calls /\ Len(y) = 1
      BY <1>6, <2>1 DEF Withdrawing
  <2>3. ToSet(Queue') \subseteq ToSet(Queue) /\ Len(Queue') + 1 = Len(Queue)
      BY <2>2, LeavesSets
  <2>4. /\ UNCHANGED <<cur, purged, nextRequestID>> /\ inFlight' = inFlight - 1
      BY <1>6 DEF Withdrawing
  <2>5. Len(Queue') \in Nat
    <3>1. PICK x \in Seq(Ids), z \in Seq(Ids) : Queue' = x \o z
        BY <2>2 DEF Leaves
    <3>. QED
        BY <3>1, ConcatProperties, LenProperties
  <2>. QED
      BY <1>0, <2>3, <2>4, <2>5
<1>. QED
    BY <1>1, <1>2, <1>3, <1>4, <1>5, <1>6 DEF QueueAction

LEMMA FateInvariant == Spec => [](CancelInv /\ NothingInv /\ CountInv)
<1>1. Init => CancelInv /\ NothingInv /\ CountInv
  <2>. SUFFICES ASSUME Init PROVE CancelInv /\ NothingInv /\ CountInv
      OBVIOUS
  <2>1. /\ nextRequestID = 0 /\ inFlight = 0 /\ cur = <<>> /\ purged = {}
        /\ noop = {} /\ cancelled = {}
      BY DEF Init
  <2>2. Queue = <<>> /\ Called = {}
      BY QueueInit
  <2>3. Cardinality({}) = 0
      BY FS_EmptySet
  <2>. QED
      BY <2>1, <2>2, <2>3 DEF CancelInv, NothingInv, CountInv
<1>2. TypeOK /\ CurInv /\ SemaphoreInv /\ OrderInv /\ CancelInv /\ NothingInv /\ CountInv
      /\ [Next]_vars => CancelInv' /\ NothingInv' /\ CountInv'
  <2>. SUFFICES ASSUME TypeOK, CurInv, SemaphoreInv, OrderInv,
                       CancelInv, NothingInv, CountInv, [Next]_vars
                PROVE  CancelInv' /\ NothingInv' /\ CountInv'
      OBVIOUS
  <2>1. QueueAction
      BY QueueStep
  <2>. QED
      BY <2>1, CancelStep, NothingStep, CountStep
<1>. QED
    BY <1>1, <1>2, QueueCorrect, PTL DEF Spec

LEMMA ServicedIsCalled ==
    ASSUME NEW id
    PROVE  Serviced(id) <=> id \in Called
    BY DEF Serviced, Called, ToSet, IdsOf

\* Once CancelAsyncRequest has returned true the callback is never called, in
\* which list the request was found and whatever the reader did meanwhile; and no
\* request is lost: one that was made waits, was called, cancelled, or purged with
\* a lost connection.
THEOREM FateCorrect == Spec => [](CancelHonoured /\ NothingVanishes)
<1>1. TypeOK /\ CancelInv /\ NothingInv => CancelHonoured /\ NothingVanishes
  <2>. SUFFICES ASSUME TypeOK, CancelInv, NothingInv PROVE CancelHonoured /\ NothingVanishes
      OBVIOUS
  <2>1. CancelHonoured
      BY ServicedIsCalled DEF CancelInv, CancelHonoured
  <2>2. NothingVanishes
      BY ServicedIsCalled, PipelineIsQueue DEF NothingInv, NothingVanishes
  <2>. QED
      BY <2>1, <2>2
<1>. QED
    BY <1>1, QueueCorrect, FateInvariant, PTL

\* numRequestsInFlight counts the requests that wait, the one whose callback runs
\* and those purged with lost connections, which are never given back.
THEOREM CountCorrect == Spec => []InFlightAccounts
<1>1. TypeOK /\ CountInv => InFlightAccounts
  <2>. SUFFICES ASSUME TypeOK, CountInv PROVE InFlightAccounts
      OBVIOUS
  <2>1. Len(Pipeline) = Len(cur) + Len(Queue)
      BY PipelineIsQueue
  <2>. QED
      BY <2>1 DEF CountInv, InFlightAccounts
<1>. QED
    BY <1>1, QueueCorrect, FateInvariant, PTL

-----------------------------------------------------------------------------
(* The client implements RequestQueue                                      *)

LEMMA TakeHead ==
    ASSUME NEW e \in Ids, NEW q \in Seq(Ids), NEW s, s = <<e>> \o q
    PROVE  s # <<>> /\ Head(s) = e /\ Tail(s) = q
<1>1. PICK h \in Seq(Ids) : h = <<e>>
    BY SingletonType
<1>2. Len(h) = 1 /\ h[1] = e
    BY <1>1
<1>3. /\ s \in Seq(Ids) /\ Len(s) = Len(h) + Len(q)
      /\ \A i \in 1 .. Len(h) + Len(q) : s[i] = IF i <= Len(h) THEN h[i] ELSE q[i - Len(h)]
    BY <1>1, ConcatProperties
<1>4. Len(q) \in Nat
    BY LenProperties
<1>5. Len(s) = Len(q) + 1 /\ s # <<>>
    BY <1>2, <1>3, <1>4, EmptySeq
<1>6. Head(s) = e
    BY <1>2, <1>3, <1>4, <1>5, HeadTailProperties
<1>7. /\ Tail(s) \in Seq(Ids) /\ Len(Tail(s)) = Len(q)
      /\ \A i \in 1 .. Len(q) : Tail(s)[i] = s[i + 1]
    BY <1>3, <1>4, <1>5, HeadTailProperties
<1>8. \A i \in 1 .. Len(q) : Tail(s)[i] = q[i]
  <2>. SUFFICES ASSUME NEW i \in 1 .. Len(q) PROVE Tail(s)[i] = q[i]
      OBVIOUS
  <2>1. s[i + 1] = q[i]
      BY <1>2, <1>3, <1>4
  <2>. QED
      BY <1>7, <2>1
<1>9. Tail(s) = q
    BY <1>7, <1>8, SeqEqual
<1>. QED
    BY <1>5, <1>6, <1>9

LEMMA RestOf ==
    \A s, z \in Seq(Ids), m \in Nat :
        Len(s) = m + Len(z) /\ (\A i \in 1 .. Len(z) : s[m + i] = z[i])
            => SubSeq(s, m + 1, Len(s)) = z
<1>. SUFFICES ASSUME NEW s \in Seq(Ids), NEW z \in Seq(Ids), NEW m \in Nat,
                     Len(s) = m + Len(z), \A i \in 1 .. Len(z) : s[m + i] = z[i]
              PROVE  SubSeq(s, m + 1, Len(s)) = z
    OBVIOUS
<1>1. PICK n \in Nat, k \in Nat : n = Len(s) /\ k = Len(z) /\ n = m + k
    BY LenProperties
<1>2. PICK b : b = SubSeq(s, m + 1, n)
    OBVIOUS
<1>3. m + 1 \in Nat /\ m + 1 >= 1 /\ n <= Len(s)
    BY <1>1
<1>4. /\ b \in Seq(Ids) /\ Len(b) = IF m + 1 <= n THEN n - (m + 1) + 1 ELSE 0
      /\ \A i \in 1 .. n - (m + 1) + 1 : b[i] = s[(m + 1) + i - 1]
    BY <1>2, <1>3, SubSeqOfIds
<1>5. n - (m + 1) + 1 = k /\ (m + 1 <= n <=> k # 0)
    BY <1>1
<1>6. Len(b) = k
    BY <1>1, <1>4, <1>5
<1>7. ASSUME NEW i \in 1 .. k PROVE b[i] = z[i]
  <2>1. (m + 1) + i - 1 = m + i
      BY <1>1
  <2>. QED
      BY <1>1, <1>4, <1>5, <2>1
<1>8. b = z
    BY <1>1, <1>4, <1>6, <1>7, SeqEqual
<1>. QED
    BY <1>1, <1>2, <1>8

\* A run taken out of a sequence, as Drop of RequestQueue says it.
LEMMA TakeRun ==
    ASSUME NEW x \in Seq(Ids), NEW y \in Seq(Ids), NEW z \in Seq(Ids),
           NEW s, s = (x \o y) \o z
    PROVE  /\ s \in Seq(Ids) /\ Len(s) = Len(x) + Len(y) + Len(z)
           /\ SubSeq(s, 1, Len(x)) = x
           /\ SubSeq(s, Len(x) + Len(y) + 1, Len(s)) = z
<1>1. /\ x \o y \in Seq(Ids) /\ Len(x \o y) = Len(x) + Len(y)
      /\ \A i \in 1 .. Len(x) + Len(y) :
            (x \o y)[i] = IF i <= Len(x) THEN x[i] ELSE y[i - Len(x)]
    BY ConcatProperties
<1>2. PICK xy \in Seq(Ids) : xy = x \o y
    BY <1>1
<1>3. /\ s \in Seq(Ids) /\ Len(s) = Len(xy) + Len(z)
      /\ \A i \in 1 .. Len(xy) + Len(z) : s[i] = IF i <= Len(xy) THEN xy[i] ELSE z[i - Len(xy)]
    BY <1>2, ConcatProperties
<1>4. Len(x) \in Nat /\ Len(y) \in Nat /\ Len(z) \in Nat
    BY LenProperties
<1>5. Len(xy) = Len(x) + Len(y) /\ Len(s) = Len(x) + Len(y) + Len(z)
    BY <1>1, <1>2, <1>3, <1>4
<1>6. \A i \in 1 .. Len(s) : s[i] \in Ids
    BY <1>3, ElementOfSeq
<1>7. SubSeq(s, 1, Len(x)) = x
  <2>1. \A i \in 1 .. Len(x) : s[i] \in Ids
      BY <1>4, <1>5, <1>6
  <2>2. PICK a : a = SubSeq(s, 1, Len(x))
      OBVIOUS
  <2>3. /\ a \in Seq(Ids) /\ Len(a) = Len(x)
        /\ \A i \in 1 .. Len(x) : a[i] = s[i]
      BY <1>3, <1>4, <2>1, <2>2, SubSeqProperties
  <2>4. \A i \in 1 .. Len(x) : s[i] = x[i]
    <3>. SUFFICES ASSUME NEW i \in 1 .. Len(x) PROVE s[i] = x[i]
        OBVIOUS
    <3>1. s[i] = xy[i]
        BY <1>3, <1>4, <1>5
    <3>2. xy[i] = x[i]
        BY <1>1, <1>2, <1>4
    <3>. QED
        BY <3>1, <3>2
  <2>5. \A i \in 1 .. Len(x) : a[i] = x[i]
      BY <2>3, <2>4
  <2>6. a = x
      BY <2>3, <2>5, SeqEqual
  <2>. QED
      BY <2>2, <2>6
<1>8. SubSeq(s, Len(x) + Len(y) + 1, Len(s)) = z
  <2>1. PICK m : m = Len(x) + Len(y)
      OBVIOUS
  <2>2. m \in Nat /\ Len(s) = m + Len(z) /\ Len(xy) = m
      BY <1>4, <1>5, <2>1
  <2>3. ASSUME NEW i \in 1 .. Len(z) PROVE s[m + i] = z[i]
    <3>1. m + i \in 1 .. Len(xy) + Len(z) /\ ~ (m + i <= Len(xy)) /\ (m + i) - Len(xy) = i
        BY <1>4, <2>2
    <3>. QED
        BY <1>3, <3>1
  <2>4. SubSeq(s, m + 1, Len(s)) = z
      BY <1>3, <2>2, <2>3, RestOf
  <2>. QED
      BY <2>1, <2>4
<1>. QED
    BY <1>3, <1>5, <1>7, <1>8

LEMMA RespondStep ==
    ASSUME TypeOK, MatchInv, served # <<>>, Calling(Head(served))
    PROVE  Promise!Respond
<1>1. Head(served) \in Answered /\ Head(served).reply = Head(served).id
    BY HeadTailProperties, OwnLists DEF TypeOK, MatchInv
<1>2. PICK id \in Ids : Head(served) = [id |-> id, reply |-> id]
    BY <1>1 DEF Answered
<1>3. Head(served).id = id
    BY <1>2
<1>4. /\ Queue' \in Seq(Ids) /\ Queue = <<id>> \o Queue'
      /\ calls' = IF id \in noop THEN calls ELSE Append(calls, [id |-> id, reply |-> id])
      /\ UNCHANGED <<nextRequestID, noop>>
    BY <1>2, <1>3 DEF Calling
<1>5. Queue # <<>> /\ Head(Queue) = id /\ Tail(Queue) = Queue'
    BY <1>4, TakeHead
<1>. QED
    BY <1>4, <1>5 DEF Promise!Respond, Queue

LEMMA DropStep ==
    ASSUME TypeOK, NEW y \in Seq(Ids), Leaves(y), UNCHANGED <<nextRequestID, noop, calls>>
    PROVE  [Promise!QNext]_(Promise!qvars)
<1>1. PICK x \in Seq(Ids), z \in Seq(Ids) : Queue = (x \o y) \o z /\ Queue' = x \o z
    BY DEF Leaves
<1>2. CASE y = <<>>
  <2>1. x \o <<>> = x
      BY ConcatEmptySeq
  <2>2. Queue' = Queue
      BY <1>1, <1>2, <2>1
  <2>. QED
      BY <2>2 DEF Promise!qvars, Queue
<1>3. CASE y # <<>>
  <2>. DEFINE i == Len(x) + 1
              j == Len(x) + Len(y)
  <2>1. Len(x) \in Nat /\ Len(y) \in Nat \ {0} /\ Len(z) \in Nat
      BY <1>3, LenProperties, EmptySeq
  <2>2. /\ Queue \in Seq(Ids) /\ Len(Queue) = Len(x) + Len(y) + Len(z)
        /\ SubSeq(Queue, 1, Len(x)) = x
        /\ SubSeq(Queue, Len(x) + Len(y) + 1, Len(Queue)) = z
      BY <1>1, TakeRun
  <2>3. i \in DOMAIN Queue
    <3>1. DOMAIN Queue = 1 .. Len(Queue)
        BY <2>2, LenProperties
    <3>. QED
        BY <2>1, <2>2, <3>1
  <2>4. j \in i .. Len(Queue) /\ i - 1 = Len(x)
      BY <2>1, <2>2
  <2>5. Queue' = SubSeq(Queue, 1, i - 1) \o SubSeq(Queue, j + 1, Len(Queue))
      BY <1>1, <2>2, <2>4
  <2>. HIDE DEF i, j
  <2>6. Promise!Drop(i, j)
      BY <2>5 DEF Promise!Drop, Queue
  <2>. QED
      BY <2>3, <2>4, <2>6 DEF Promise!QNext, Queue
<1>. QED
    BY <1>2, <1>3

LEMMA PromiseStep ==
    ASSUME TypeOK, MatchInv, QueueAction
    PROVE  [Promise!QNext]_(Promise!qvars)
<1>1. CASE Quiet \/ Returning
  <2>1. UNCHANGED <<Queue, nextRequestID, noop, calls>>
      BY <1>1 DEF Quiet, Returning
  <2>. QED
      BY <2>1 DEF Promise!qvars, Queue
<1>2. CASE \E n \in {1, TxnCommands + 2} : Making(n)
  <2>1. PICK n \in {1, TxnCommands + 2} : Making(n)
      BY <1>2
  <2>2. Promise!Make(n)
      BY <2>1 DEF Making, Promise!Make, Queue, NewRequests
  <2>. QED
      BY <2>2 DEF Promise!QNext
<1>3. CASE served # <<>> /\ Calling(Head(served))
    BY <1>3, RespondStep DEF Promise!QNext
<1>4. CASE Purging(sent)
    BY <1>4, DropStep DEF Purging, TypeOK
<1>5. CASE Withdrawing(cancel.id)
  <2>1. <<cancel.id>> \in Seq(Ids)
      BY <1>5, SingletonType DEF Withdrawing
  <2>. QED
      BY <1>5, <2>1, DropStep DEF Withdrawing
<1>6. CASE Silencing(cancel.id)
  <2>1. PICK i \in DOMAIN Queue : Queue[i] = cancel.id
      BY <1>6 DEF Silencing, ToSet
  <2>2. Promise!Silence
      BY <1>6, <2>1 DEF Silencing, Promise!Silence, Queue
  <2>. QED
      BY <2>2 DEF Promise!QNext
<1>. QED
    BY <1>1, <1>2, <1>3, <1>4, <1>5, <1>6 DEF QueueAction

\* Two threads, three lists, a semaphore and a connection that comes and goes
\* behave, to the program that makes the requests, as the one queue RequestQueue
\* describes: every step of either thread is a step of that queue, or changes
\* nothing of it.
THEOREM RefinesRequestQueue ==
    ASSUME ReplyKinds = {"plain"}
    PROVE  Spec => ImplementsRequestQueue
<1>1. Init => Promise!QInit
  <2>. SUFFICES ASSUME Init PROVE Promise!QInit
      OBVIOUS
  <2>1. Queue = <<>>
      BY QueueInit
  <2>. QED
      BY <2>1 DEF Init, Promise!QInit, Queue
<1>2. Init => MatchInv /\ StreamInv /\ torn = {}
    BY DEF Init, MatchInv, WireMatches, AllPrinted, NothingSent, Own, One, StreamInv,
           ReaderHasStream, ReaderRuns
<1>3. TypeOK /\ StreamInv /\ MatchInv /\ torn = {} /\ [Next]_vars
          => StreamInv' /\ MatchInv' /\ (torn = {})'
    BY StreamStep, MatchStep, WholeStep
<1>4. TypeOK /\ CurInv /\ SemaphoreInv /\ MatchInv /\ [Next]_vars
          => [Promise!QNext]_(Promise!qvars)
    BY QueueStep, PromiseStep
<1>. QED
    BY <1>1, <1>2, <1>3, <1>4, QueueCorrect, PTL
    DEF Spec, ImplementsRequestQueue, Promise!QSpec
=============================================================================
