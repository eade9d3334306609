---------------------------- MODULE PubSubProofs ----------------------------
(***************************************************************************)
(* Theorems about PubSub: the commands on their way make the server agree  *)
(* with the map, and messages are delivered in the order they were         *)
(* published in.                                                           *)
(***************************************************************************)
EXTENDS PubSub, SequenceTheorems, FiniteSetTheorems, WellFoundedInduction, TLAPS

Spec == Init /\ [][Next]_vars

-----------------------------------------------------------------------------
(* Invariants *)

InputCommands  == [op : {"SUBSCRIBE", "UNSUBSCRIBE"}, channel : Channels, id : {0},
                   sync : BOOLEAN]
OutputCommands == [op : {"PUBLISH"}, channel : Channels, id : Nat, sync : {FALSE}]
Messages       == [op : {"message"}, channel : Channels, id : Nat]
Pushed         == Messages \union {Reply}

\* What a client is given, and what it sends.
Queues == {f \in [Clients -> Seq(InputCommands \union OutputCommands)] :
              f["input"] \in Seq(InputCommands) /\ f["output"] \in Seq(OutputCommands)}

Types ==
    /\ pc \in {"idle", "input", "output", "sync"}
    /\ subscribed \in [Channels -> {"absent", "no", "yes"}]
    /\ unsent \in Queues /\ wire \in Queues
    /\ link \in [Clients -> {"none", "up", "closed", "broken"}]
    /\ back \in [Clients -> Seq(Pushed)] /\ back["output"] \in Seq({Reply})
    /\ messageList \in Seq(Messages) /\ delivered \in Seq(Messages)
    /\ server \subseteq Channels /\ published \in Nat

\* Without a connection nothing is on the way, and the server holds nothing.
LinkInv == link["input"] # "up" => wire["input"] = <<>> /\ server = {}

\* A request that is waited for and not sent is the UNSUBSCRIBE of the call under way.
SyncInv ==
    /\ \A i \in DOMAIN unsent["input"] :
          unsent["input"][i].sync => pc = "sync" /\ ~InMap(unsent["input"][i].channel)
    /\ \A i, j \in DOMAIN unsent["input"] :
          unsent["input"][i].sync /\ unsent["input"][j].sync => i = j

\* MapAgreesWithServer, on a broken connection too.
AgreeInv ==
    \A c \in Channels :
        /\ subscribed[c] = "yes" /\ link["input"] = "up" => WillBe(c)
        /\ ~InMap(c) /\ c \notin withdrawn => ~WillBe(c)

MapInv == Types /\ LinkInv /\ SyncInv /\ AgreeInv

\* The messages in s are in the order of Publish; those in s were published before those
\* in t; and all of them by now.
Rising(s)    == \A i, j \in DOMAIN s :
                    i < j /\ s[i].op # "reply" /\ s[j].op # "reply" => s[i].id < s[j].id
Before(s, t) == \A i \in DOMAIN s, j \in DOMAIN t :
                    s[i].op # "reply" /\ t[j].op # "reply" => s[i].id < t[j].id
UpTo(s, n)   == \A i \in DOMAIN s : s[i].id <= n

\* What was delivered, the message list, what is sent back, and the commands to publish.
Flows(d, m, b, w, u, n) ==
    /\ Rising(d) /\ Rising(m) /\ Rising(b) /\ Rising(w) /\ Rising(u)
    /\ Before(d, m) /\ Before(d, b) /\ Before(d, w) /\ Before(d, u)
    /\ Before(m, b) /\ Before(m, w) /\ Before(m, u)
    /\ Before(b, w) /\ Before(b, u)
    /\ Before(w, u)
    /\ UpTo(d, n) /\ UpTo(m, n) /\ UpTo(b, n) /\ UpTo(w, n) /\ UpTo(u, n)

FlowInv == Flows(delivered, messageList, back["input"], wire["output"], unsent["output"],
                 published)

-----------------------------------------------------------------------------
(* Sequences                                                               *)

\* Where the elements of a concatenation are from.
LEMMA ConcatIs ==
    ASSUME NEW S, NEW s \in Seq(S), NEW t \in Seq(S)
    PROVE  /\ s \o t \in Seq(S) /\ Len(s) \in Nat /\ Len(t) \in Nat
           /\ DOMAIN s = 1 .. Len(s) /\ DOMAIN t = 1 .. Len(t)
           /\ DOMAIN (s \o t) = 1 .. Len(s) + Len(t)
           /\ \A i \in DOMAIN s : i \in DOMAIN (s \o t) /\ (s \o t)[i] = s[i]
           /\ \A i \in DOMAIN t : /\ Len(s) + i \in DOMAIN (s \o t)
                                  /\ (s \o t)[Len(s) + i] = t[i]
           /\ \A k \in DOMAIN (s \o t) : k \in DOMAIN s \/ \E i \in DOMAIN t : k = Len(s) + i
<1>1. /\ s \o t \in Seq(S) /\ Len(s \o t) = Len(s) + Len(t)
      /\ \A i \in 1 .. Len(s) + Len(t) :
            (s \o t)[i] = IF i <= Len(s) THEN s[i] ELSE t[i - Len(s)]
    BY ConcatProperties
<1>2. /\ DOMAIN s = 1 .. Len(s) /\ DOMAIN t = 1 .. Len(t) /\ Len(s) \in Nat /\ Len(t) \in Nat
      /\ DOMAIN (s \o t) = 1 .. Len(s) + Len(t)
    BY <1>1, LenProperties
<1>3. \A i \in 1 .. Len(s) : (s \o t)[i] = s[i] /\ i \in 1 .. Len(s) + Len(t)
    BY <1>1, <1>2
<1>4. ASSUME NEW i \in 1 .. Len(t)
      PROVE  (s \o t)[Len(s) + i] = t[i] /\ Len(s) + i \in 1 .. Len(s) + Len(t)
  <2>1. Len(s) + i \in 1 .. Len(s) + Len(t) /\ ~(Len(s) + i <= Len(s)) /\ Len(s) + i - Len(s) = i
      BY <1>2
  <2>. QED
      BY <1>1, <2>1
<1>5. ASSUME NEW k \in 1 .. Len(s) + Len(t), k \notin 1 .. Len(s)
      PROVE  \E i \in 1 .. Len(t) : k = Len(s) + i
  <2>1. k - Len(s) \in 1 .. Len(t) /\ k = Len(s) + (k - Len(s))
      BY <1>2, <1>5
  <2>. QED
      BY <2>1
<1>. QED
    BY <1>1, <1>2, <1>3, <1>4, <1>5

\* A sequence is its head, and the rest.
LEMMA HeadAndTail ==
    ASSUME NEW S, NEW s \in Seq(S), s # <<>>
    PROVE  /\ Head(s) \in S /\ Tail(s) \in Seq(S) /\ <<Head(s)>> \in Seq(S)
           /\ s = <<Head(s)>> \o Tail(s)
<1>1. /\ Head(s) \in S /\ Tail(s) \in Seq(S) /\ Len(Tail(s)) = Len(s) - 1
      /\ Head(s) = s[1] /\ \A i \in 1 .. Len(Tail(s)) : Tail(s)[i] = s[i + 1]
    BY HeadTailProperties
<1>2. Len(s) \in Nat \ {0}
    BY EmptySeq, LenProperties
<1>3. PICK a \in Seq(S) : a = <<Head(s)>> /\ Len(a) = 1 /\ a[1] = Head(s)
  <2>1. <<Head(s)>> \in Seq(S) /\ Len(<<Head(s)>>) = 1 /\ <<Head(s)>>[1] = Head(s)
      BY <1>1
  <2>. QED
      BY <2>1
<1>4. PICK z \in Seq(S) : z = Tail(s)
    BY <1>1
<1>5. /\ a \o z \in Seq(S) /\ Len(a \o z) = 1 + Len(z)
      /\ \A i \in 1 .. 1 + Len(z) : (a \o z)[i] = IF i <= 1 THEN a[i] ELSE z[i - 1]
    BY <1>3, ConcatProperties
<1>6. Len(a \o z) = Len(s)
    BY <1>1, <1>2, <1>4, <1>5
<1>7. ASSUME NEW i \in 1 .. Len(s) PROVE (a \o z)[i] = s[i]
  <2>1. CASE i = 1
      BY <1>1, <1>2, <1>3, <1>4, <1>5, <2>1
  <2>2. CASE i # 1
    <3>1. i - 1 \in 1 .. Len(z) /\ i \in 1 .. 1 + Len(z) /\ ~(i <= 1) /\ i - 1 + 1 = i
        BY <1>1, <1>2, <1>4, <2>2
    <3>. QED
        BY <1>1, <1>4, <1>5, <3>1
  <2>. QED
      BY <2>1, <2>2
<1>8. s = a \o z
    BY <1>5, <1>6, <1>7, SeqEqual
<1>. QED
    BY <1>1, <1>3, <1>4, <1>8

\* What is left when one is removed, and where it was.
LEMMA WithoutOne ==
    \A s \in Seq(InputCommands) : \A i \in DOMAIN s :
        \E x, z \in Seq(InputCommands) : s = (x \o <<s[i]>>) \o z /\ RemoveAt(s, i) = x \o z
<1>. TAKE s \in Seq(InputCommands)
<1>. TAKE i \in DOMAIN s
<1>. DEFINE x == SubSeq(s, 1, i - 1)
            z == SubSeq(s, i + 1, Len(s))
<1>1. i \in 1 .. Len(s) /\ Len(s) \in Nat /\ s[i] \in InputCommands
    BY LenProperties, ElementOfSeq
<1>2. /\ x \in Seq(InputCommands) /\ Len(x) = i - 1
      /\ \A k \in 1 .. i - 1 : x[k] = s[k]
    BY <1>1, ElementOfSeq, SubSeqProperties
<1>3. /\ z \in Seq(InputCommands) /\ Len(z) = Len(s) - i
      /\ \A k \in 1 .. Len(s) - i : z[k] = s[i + k]
    BY <1>1, ElementOfSeq, SubSeqProperties
<1>4. RemoveAt(s, i) = x \o z
    BY DEF RemoveAt
<1>. HIDE DEF x, z
<1>5. PICK e \in Seq(InputCommands) : e = <<s[i]>> /\ Len(e) = 1 /\ e[1] = s[i]
  <2>1. <<s[i]>> \in Seq(InputCommands) /\ Len(<<s[i]>>) = 1 /\ <<s[i]>>[1] = s[i]
      BY <1>1
  <2>. QED
      BY <2>1
<1>6. PICK y \in Seq(InputCommands) :
          /\ y = x \o e /\ Len(y) = Len(x) + Len(e)
          /\ \A k \in 1 .. Len(x) + Len(e) : y[k] = IF k <= Len(x) THEN x[k] ELSE e[k - Len(x)]
  <2>1. /\ x \o e \in Seq(InputCommands) /\ Len(x \o e) = Len(x) + Len(e)
        /\ \A k \in 1 .. Len(x) + Len(e) :
              (x \o e)[k] = IF k <= Len(x) THEN x[k] ELSE e[k - Len(x)]
      BY <1>2, ConcatProperties
  <2>. QED
      BY <2>1
<1>7. Len(y) = i /\ \A k \in 1 .. i : y[k] = s[k]
    BY <1>1, <1>2, <1>5, <1>6
<1>8. PICK w \in Seq(InputCommands) :
          /\ w = y \o z /\ Len(w) = Len(y) + Len(z)
          /\ \A k \in 1 .. Len(y) + Len(z) : w[k] = IF k <= Len(y) THEN y[k] ELSE z[k - Len(y)]
  <2>1. /\ y \o z \in Seq(InputCommands) /\ Len(y \o z) = Len(y) + Len(z)
        /\ \A k \in 1 .. Len(y) + Len(z) :
              (y \o z)[k] = IF k <= Len(y) THEN y[k] ELSE z[k - Len(y)]
      BY <1>3, ConcatProperties
  <2>. QED
      BY <2>1
<1>9. Len(w) = Len(s)
  <2>1. Len(w) = Len(y) + Len(z)
      BY <1>8
  <2>2. Len(y) + Len(z) = Len(s)
      BY <1>1, <1>3, <1>7
  <2>. QED
      BY <2>1, <2>2
<1>10. ASSUME NEW k \in 1 .. Len(s) PROVE w[k] = s[k]
  <2>1. w[k] = IF k <= i THEN y[k] ELSE z[k - i]
      BY <1>7, <1>8, <1>9
  <2>2. CASE k <= i
      BY <1>1, <1>7, <2>1, <2>2
  <2>3. CASE ~(k <= i)
    <3>1. PICK j \in 1 .. Len(s) - i : j = k - i /\ i + j = k
      <4>1. k - i \in 1 .. Len(s) - i /\ i + (k - i) = k
          BY <1>1, <2>3
      <4>. QED
          BY <4>1
    <3>2. z[j] = s[i + j]
        BY <1>3
    <3>. QED
        BY <2>1, <2>3, <3>1, <3>2
  <2>. QED
      BY <2>2, <2>3
<1>11. s = w
    BY <1>9, <1>10, SeqEqual
<1>. QED
    BY <1>2, <1>3, <1>4, <1>5, <1>6, <1>8, <1>11

-----------------------------------------------------------------------------
(* What the commands on the way say of a channel                           *)

\* No command in s is for c; the last one that is is SUBSCRIBE.
Silent(s, c)   == \A i \in DOMAIN s : s[i].channel # c
LastSays(s, c) == \E i \in DOMAIN s :
                      /\ s[i].channel = c /\ s[i].op = "SUBSCRIBE"
                      /\ \A j \in DOMAIN s : i < j => s[j].channel # c

LEMMA NothingSaid == \A c : Silent(<<>>, c) /\ ~LastSays(<<>>, c)
    BY DEF Silent, LastSays

\* One command.
LEMMA SaidOnce ==
    ASSUME NEW r, NEW c
    PROVE  /\ Silent(<<r>>, c) <=> r.channel # c
           /\ LastSays(<<r>>, c) <=> r.channel = c /\ r.op = "SUBSCRIBE"
<1>1. DOMAIN <<r>> = {1} /\ <<r>>[1] = r
    OBVIOUS
<1>2. \A i, j \in {1} : ~(i < j)
    OBVIOUS
<1>. QED
    BY <1>1, <1>2 DEF Silent, LastSays

\* Commands in turn: the later ones decide, if they are about c.
LEMMA SaidInTurn ==
    ASSUME NEW S, NEW s \in Seq(S), NEW t \in Seq(S), NEW c
    PROVE  /\ Silent(s \o t, c) <=> Silent(s, c) /\ Silent(t, c)
           /\ LastSays(s \o t, c) <=> LastSays(t, c) \/ (Silent(t, c) /\ LastSays(s, c))
<1>1. PICK n \in Nat, m \in Nat : n = Len(s) /\ m = Len(t)
    BY LenProperties
<1>2. /\ DOMAIN s = 1 .. n /\ DOMAIN t = 1 .. m
      /\ \A i \in DOMAIN s : i \in DOMAIN (s \o t) /\ (s \o t)[i] = s[i]
      /\ \A i \in DOMAIN t : n + i \in DOMAIN (s \o t) /\ (s \o t)[n + i] = t[i]
      /\ \A k \in DOMAIN (s \o t) : k \in DOMAIN s \/ \E i \in DOMAIN t : k = n + i
  <2>1. DOMAIN s = 1 .. Len(s) /\ DOMAIN t = 1 .. Len(t)
      BY ConcatIs
  <2>2. \A i \in DOMAIN s : i \in DOMAIN (s \o t) /\ (s \o t)[i] = s[i]
      BY ConcatIs
  <2>3. \A i \in DOMAIN t : Len(s) + i \in DOMAIN (s \o t) /\ (s \o t)[Len(s) + i] = t[i]
      BY ConcatIs
  <2>4. \A k \in DOMAIN (s \o t) : k \in DOMAIN s \/ \E i \in DOMAIN t : k = Len(s) + i
      BY ConcatIs
  <2>. QED
      BY <1>1, <2>1, <2>2, <2>3, <2>4
<1>3. PICK st : st = s \o t
    OBVIOUS
<1>4. Silent(st, c) <=> Silent(s, c) /\ Silent(t, c)
  <2>1. ASSUME Silent(st, c) PROVE Silent(s, c)
      BY <1>2, <1>3, <2>1 DEF Silent
  <2>2. ASSUME Silent(st, c), NEW i \in DOMAIN t PROVE t[i].channel # c
    <3>1. n + i \in DOMAIN st /\ st[n + i] = t[i]
        BY <1>2, <1>3
    <3>. QED
        BY <2>2, <3>1 DEF Silent
  <2>3. ASSUME Silent(s, c), Silent(t, c), NEW k \in DOMAIN st PROVE st[k].channel # c
    <3>1. CASE k \in DOMAIN s
        BY <1>2, <1>3, <2>3, <3>1 DEF Silent
    <3>2. ASSUME NEW j \in DOMAIN t, k = n + j PROVE st[k].channel # c
        BY <1>2, <1>3, <2>3, <3>2 DEF Silent
    <3>. QED
        BY <1>2, <1>3, <3>1, <3>2
  <2>4. Silent(st, c) => Silent(t, c)
      BY <2>2 DEF Silent
  <2>5. Silent(s, c) /\ Silent(t, c) => Silent(st, c)
      BY <2>3 DEF Silent
  <2>. QED
      BY <2>1, <2>4, <2>5
<1>5. ASSUME LastSays(st, c) PROVE LastSays(t, c) \/ (Silent(t, c) /\ LastSays(s, c))
  <2>1. PICK k \in DOMAIN st : /\ st[k].channel = c /\ st[k].op = "SUBSCRIBE"
                               /\ \A j \in DOMAIN st : k < j => st[j].channel # c
      BY <1>5 DEF LastSays
  <2>2. CASE k \in DOMAIN s
    <3>1. \A j \in DOMAIN s : k < j => s[j].channel # c
        BY <1>2, <1>3, <2>1
    <3>2. s[k].channel = c /\ s[k].op = "SUBSCRIBE"
        BY <1>2, <1>3, <2>1, <2>2
    <3>3. \A i \in 1 .. m : k < n + i
        BY <1>2, <2>2
    <3>4. ASSUME NEW i \in DOMAIN t PROVE t[i].channel # c
      <4>1. k < n + i /\ n + i \in DOMAIN st /\ st[n + i] = t[i]
          BY <1>2, <1>3, <3>3
      <4>. QED
          BY <2>1, <4>1
    <3>. QED
        BY <2>2, <3>1, <3>2, <3>4 DEF LastSays, Silent
  <2>3. ASSUME NEW i \in DOMAIN t, k = n + i PROVE LastSays(t, c)
    <3>1. t[i].channel = c /\ t[i].op = "SUBSCRIBE"
        BY <1>2, <1>3, <2>1, <2>3
    <3>2. ASSUME NEW j \in DOMAIN t, i < j PROVE t[j].channel # c
      <4>1. k < n + j /\ n + j \in DOMAIN st /\ st[n + j] = t[j]
          BY <1>2, <1>3, <2>3, <3>2
      <4>. QED
          BY <2>1, <4>1
    <3>. QED
        BY <3>1, <3>2 DEF LastSays
  <2>. QED
      BY <1>2, <1>3, <2>2, <2>3
<1>6. ASSUME LastSays(t, c) PROVE LastSays(st, c)
  <2>1. PICK i \in DOMAIN t : /\ t[i].channel = c /\ t[i].op = "SUBSCRIBE"
                              /\ \A j \in DOMAIN t : i < j => t[j].channel # c
      BY <1>6 DEF LastSays
  <2>2. n + i \in DOMAIN st /\ st[n + i] = t[i]
      BY <1>2, <1>3
  <2>3. ASSUME NEW k \in DOMAIN st, n + i < k PROVE st[k].channel # c
    <3>1. k \notin DOMAIN s
        BY <1>2, <2>3
    <3>2. PICK j \in DOMAIN t : k = n + j
        BY <1>2, <1>3, <3>1
    <3>3. i < j
        BY <1>2, <2>3, <3>2
    <3>. QED
        BY <1>2, <1>3, <2>1, <3>2, <3>3
  <2>. QED
      BY <2>1, <2>2, <2>3 DEF LastSays
<1>7. ASSUME Silent(t, c), LastSays(s, c) PROVE LastSays(st, c)
  <2>1. PICK i \in DOMAIN s : /\ s[i].channel = c /\ s[i].op = "SUBSCRIBE"
                              /\ \A j \in DOMAIN s : i < j => s[j].channel # c
      BY <1>7 DEF LastSays
  <2>2. i \in DOMAIN st /\ st[i] = s[i]
      BY <1>2, <1>3
  <2>3. ASSUME NEW k \in DOMAIN st, i < k PROVE st[k].channel # c
    <3>1. CASE k \in DOMAIN s
        BY <1>2, <1>3, <2>1, <2>3, <3>1
    <3>2. ASSUME NEW j \in DOMAIN t, k = n + j PROVE st[k].channel # c
        BY <1>2, <1>3, <1>7, <3>2 DEF Silent
    <3>. QED
        BY <1>2, <1>3, <3>1, <3>2
  <2>. QED
      BY <2>1, <2>2, <2>3 DEF LastSays
<1>. QED
    BY <1>3, <1>4, <1>5, <1>6, <1>7

\* What the server will hold, by what is unsent, on the wire, and held.
Says(u, w, held, c) == \/ LastSays(u, c)
                       \/ Silent(u, c) /\ LastSays(w, c)
                       \/ Silent(u, c) /\ Silent(w, c) /\ c \in held

Will(s, held, c) == \E i \in 0 .. Len(s) :
                        /\ IF i = 0 THEN c \in held
                           ELSE s[i].channel = c /\ s[i].op = "SUBSCRIBE"
                        /\ \A j \in i + 1 .. Len(s) : s[j].channel # c

\* That is the last of the commands that is about c, or what is held.
LEMMA SaysIs ==
    ASSUME NEW u \in Seq(InputCommands), NEW w \in Seq(InputCommands), NEW held, NEW c
    PROVE  Will(w \o u, held, c) <=> Says(u, w, held, c)
<1>1. PICK s \in Seq(InputCommands) : s = w \o u
    BY ConcatProperties
<1>2. PICK n \in Nat : n = Len(s) /\ DOMAIN s = 1 .. n
    BY LenProperties
<1>3. ASSUME Will(s, held, c) PROVE LastSays(s, c) \/ (Silent(s, c) /\ c \in held)
  <2>1. PICK i \in 0 .. n :
            /\ IF i = 0 THEN c \in held ELSE s[i].channel = c /\ s[i].op = "SUBSCRIBE"
            /\ \A j \in i + 1 .. n : s[j].channel # c
      BY <1>2, <1>3 DEF Will
  <2>2. CASE i = 0
      BY <1>2, <2>1, <2>2 DEF Silent
  <2>3. CASE i # 0
    <3>1. i \in DOMAIN s /\ \A j \in DOMAIN s : i < j => j \in i + 1 .. n
        BY <1>2, <2>3
    <3>. QED
        BY <2>1, <2>3, <3>1 DEF LastSays
  <2>. QED
      BY <2>2, <2>3
<1>4. ASSUME LastSays(s, c) PROVE Will(s, held, c)
  <2>1. PICK i \in DOMAIN s : /\ s[i].channel = c /\ s[i].op = "SUBSCRIBE"
                              /\ \A j \in DOMAIN s : i < j => s[j].channel # c
      BY <1>4 DEF LastSays
  <2>2. i \in 0 .. n /\ i # 0 /\ \A j \in i + 1 .. n : j \in DOMAIN s /\ i < j
      BY <1>2
  <2>. QED
      BY <1>2, <2>1, <2>2 DEF Will
<1>5. ASSUME Silent(s, c), c \in held PROVE Will(s, held, c)
  <2>1. 0 \in 0 .. n /\ \A j \in 0 + 1 .. n : j \in DOMAIN s
      BY <1>2
  <2>. QED
      BY <1>2, <1>5, <2>1 DEF Silent, Will
<1>6. Silent(s, c) => (c \in held => Will(s, held, c))
    BY <1>5
<1>7. Will(s, held, c) <=> LastSays(s, c) \/ (Silent(s, c) /\ c \in held)
    BY <1>3, <1>4, <1>6
<1>8. /\ Silent(s, c) <=> Silent(w, c) /\ Silent(u, c)
      /\ LastSays(s, c) <=> LastSays(u, c) \/ (Silent(u, c) /\ LastSays(w, c))
    BY <1>1, SaidInTurn
<1>9. Will(s, held, c) <=> Says(u, w, held, c)
    BY <1>7, <1>8 DEF Says
<1>. QED
    BY <1>1, <1>9

LEMMA WillBeIs ==
    ASSUME unsent["input"] \in Seq(InputCommands), wire["input"] \in Seq(InputCommands), NEW c
    PROVE  WillBe(c) <=> Says(unsent["input"], wire["input"], server, c)
<1>1. WillBe(c) <=> Will(wire["input"] \o unsent["input"], server, c)
    BY DEF WillBe, Will
<1>. QED
    BY <1>1, SaysIs

LEMMA WillBeNext ==
    ASSUME unsent'["input"] \in Seq(InputCommands), wire'["input"] \in Seq(InputCommands), NEW c
    PROVE  WillBe(c)' <=> Says(unsent'["input"], wire'["input"], server', c)
<1>1. WillBe(c)' <=> Will(wire'["input"] \o unsent'["input"], server', c)
    BY DEF WillBe, Will
<1>. QED
    BY <1>1, SaysIs
-----------------------------------------------------------------------------
(* Types                                                                   *)

\* The two clients.
LEMMA ClientsAre == "input" \in Clients /\ "output" \in Clients /\ "input" # "output"
    BY DEF Clients

\* What is in the queues of each client.
LEMMA InQueues ==
    ASSUME NEW f \in Queues
    PROVE  /\ DOMAIN f = Clients
           /\ f["input"] \in Seq(InputCommands) /\ f["output"] \in Seq(OutputCommands)
    BY DEF Queues

\* The queue of one client changes.
Put(f, x, s) == [f EXCEPT ![x] = s]

\* The queue of the input client changes, or that of the output client.
LEMMA SetInput ==
    ASSUME NEW f \in Queues, NEW s \in Seq(InputCommands)
    PROVE  /\ Put(f, "input", s) \in Queues
           /\ Put(f, "input", s)["input"] = s /\ Put(f, "input", s)["output"] = f["output"]
<1>. PICK g : g = [f EXCEPT !["input"] = s] /\ g = Put(f, "input", s)
    BY DEF Put
<1>. PICK T : T = InputCommands \union OutputCommands
    OBVIOUS
<1>1. s \in Seq(T) /\ f \in [Clients -> Seq(T)] /\ f["output"] \in Seq(OutputCommands)
    BY DEF Queues
<1>2. g \in [Clients -> Seq(T)] /\ g["input"] = s /\ g["output"] = f["output"]
    BY <1>1, ClientsAre
<1>. QED
    BY <1>1, <1>2 DEF Queues

LEMMA SetOutput ==
    ASSUME NEW f \in Queues, NEW s \in Seq(OutputCommands)
    PROVE  /\ Put(f, "output", s) \in Queues
           /\ Put(f, "output", s)["output"] = s /\ Put(f, "output", s)["input"] = f["input"]
<1>. PICK g : g = [f EXCEPT !["output"] = s] /\ g = Put(f, "output", s)
    BY DEF Put
<1>. PICK T : T = InputCommands \union OutputCommands
    OBVIOUS
<1>1. s \in Seq(T) /\ f \in [Clients -> Seq(T)] /\ f["input"] \in Seq(InputCommands)
    BY DEF Queues
<1>2. g \in [Clients -> Seq(T)] /\ g["output"] = s /\ g["input"] = f["input"]
    BY <1>1, ClientsAre
<1>. QED
    BY <1>1, <1>2 DEF Queues

\* What Unsubscribe queues.
LEMMA UnsubscribeIs ==
    ASSUME Types, NEW c \in Channels, Unsubscribe(c)
    PROVE  \E r \in InputCommands :
               /\ r.channel = c /\ r.op = "UNSUBSCRIBE" /\ r.sync /\ <<r>> \in Seq(InputCommands)
               /\ unsent'["input"] = unsent["input"] \o <<r>>
               /\ unsent'["output"] = unsent["output"] /\ unsent' \in Queues
<1>1. PICK r \in InputCommands : r = Command("UNSUBSCRIBE", c, 0, TRUE)
    BY DEF Command, InputCommands
<1>2. r.channel = c /\ r.op = "UNSUBSCRIBE" /\ r.sync
    BY <1>1 DEF Command
<1>3. unsent \in Queues /\ unsent["input"] \in Seq(InputCommands)
    BY InQueues DEF Types
<1>4. /\ Append(unsent["input"], r) \in Seq(InputCommands)
      /\ Append(unsent["input"], r) = unsent["input"] \o <<r>>
    BY <1>3, AppendProperties, AppendIsConcat
<1>5. unsent' = [unsent EXCEPT !["input"] = Append(unsent["input"], r)]
    BY <1>1 DEF Unsubscribe
<1>6. /\ unsent' \in Queues /\ unsent'["input"] = Append(unsent["input"], r)
      /\ unsent'["output"] = unsent["output"]
  <2>1. PICK f \in Queues, s \in Seq(InputCommands) :
            f = unsent /\ s = Append(unsent["input"], r)
      BY <1>3, <1>4
  <2>2. PICK g : g = unsent'
      OBVIOUS
  <2>3. g = Put(f, "input", s)
      BY <1>5, <2>1, <2>2 DEF Put
  <2>4. g \in Queues /\ g["input"] = s /\ g["output"] = f["output"]
      BY <2>3, SetInput
  <2>. QED
      BY <2>1, <2>2, <2>4
<1>7. <<r>> \in Seq(InputCommands)
    OBVIOUS
<1>. QED
    BY <1>2, <1>4, <1>6, <1>7

\* What Publish queues.
LEMMA PublishIs ==
    ASSUME Types, NEW c \in Channels, Publish(c)
    PROVE  \E r \in OutputCommands :
               /\ r.id = published + 1 /\ <<r>> \in Seq(OutputCommands)
               /\ unsent'["output"] = unsent["output"] \o <<r>>
               /\ unsent'["input"] = unsent["input"] /\ unsent' \in Queues
<1>1. published \in Nat /\ published' = published + 1
    BY DEF Types, Publish
<1>2. PICK r \in OutputCommands : r = Command("PUBLISH", c, published', FALSE)
  <2>1. published' \in Nat
      BY <1>1
  <2>2. Command("PUBLISH", c, published', FALSE) \in OutputCommands
      BY <2>1 DEF Command, OutputCommands
  <2>. QED
      BY <2>2
<1>3. r.id = published + 1
    BY <1>1, <1>2 DEF Command
<1>4. unsent \in Queues /\ unsent["output"] \in Seq(OutputCommands)
    BY InQueues DEF Types
<1>5. /\ Append(unsent["output"], r) \in Seq(OutputCommands)
      /\ Append(unsent["output"], r) = unsent["output"] \o <<r>>
    BY <1>4, AppendProperties, AppendIsConcat
<1>6. unsent' = [unsent EXCEPT !["output"] = Append(unsent["output"], r)]
    BY <1>2 DEF Publish
<1>7. /\ unsent' \in Queues /\ unsent'["output"] = Append(unsent["output"], r)
      /\ unsent'["input"] = unsent["input"]
  <2>1. PICK f \in Queues, s \in Seq(OutputCommands) :
            f = unsent /\ s = Append(unsent["output"], r)
      BY <1>4, <1>5
  <2>2. PICK g : g = unsent'
      OBVIOUS
  <2>3. g = Put(f, "output", s)
      BY <1>6, <2>1, <2>2 DEF Put
  <2>4. g \in Queues /\ g["output"] = s /\ g["input"] = f["input"]
      BY <2>3, SetOutput
  <2>. QED
      BY <2>1, <2>2, <2>4
<1>8. <<r>> \in Seq(OutputCommands)
    OBVIOUS
<1>. QED
    BY <1>3, <1>5, <1>7, <1>8

\* The missing channels, each once.
LEMMA InSomeOrder ==
    ASSUME NEW D \in SUBSET Channels
    PROVE  \E n \in Nat, f \in [1 .. Cardinality(D) -> D] :
               /\ f = SetToSeq(D) /\ n = Cardinality(D)
               /\ \A i, j \in 1 .. n : f[i] = f[j] => i = j
               /\ \A c \in D : \E i \in 1 .. n : f[i] = c
<1>1. IsFiniteSet(D)
    BY ChannelsAssumption, FS_Subset
<1>2. PICK n \in Nat : n = Cardinality(D) /\ ExistsBijection(1 .. n, D)
    BY <1>1, FS_CardinalityType
<1>3. \E f \in [1 .. n -> D] : IsInjective(f)
    BY <1>2 DEF ExistsBijection, Bijection, Injection
<1>4. PICK f \in [1 .. n -> D] : f = SetToSeq(D) /\ IsInjective(f)
    BY <1>2, <1>3 DEF SetToSeq
<1>5. f \in Injection(1 .. n, D)
    BY <1>4 DEF Injection
<1>6. Cardinality(1 .. n) = n
    BY FS_Interval
<1>7. f \in Surjection(1 .. n, D)
    BY <1>1, <1>2, <1>5, <1>6, FS_Injection
<1>8. \A c \in D : \E i \in 1 .. n : f[i] = c
    BY <1>7 DEF Surjection
<1>9. \A i, j \in 1 .. n : f[i] = f[j] => i = j
    BY <1>4 DEF IsInjective
<1>. QED
    BY <1>2, <1>4, <1>8, <1>9

\* What Update queues: SUBSCRIBE for every channel that does not count as subscribed.
LEMMA UpdateIs ==
    ASSUME Types, Update
    PROVE  \E t \in Seq(InputCommands) :
               /\ unsent'["input"] = unsent["input"] \o t
               /\ unsent'["output"] = unsent["output"] /\ unsent' \in Queues
               /\ \A i \in DOMAIN t : ~t[i].sync
               /\ \A c \in Channels : IF subscribed[c] = "no" THEN LastSays(t, c) ELSE Silent(t, c)
<1>. DEFINE D == {c \in Channels : subscribed[c] = "no"}
<1>1. D \in SUBSET Channels
    OBVIOUS
<1>. HIDE DEF D
<1>2. PICK n \in Nat, f \in [1 .. Cardinality(D) -> D] :
          /\ f = SetToSeq(D) /\ n = Cardinality(D)
          /\ \A i, j \in 1 .. n : f[i] = f[j] => i = j
          /\ \A c \in D : \E i \in 1 .. n : f[i] = c
    BY <1>1, InSomeOrder
<1>3. DOMAIN f = 1 .. n /\ \A i \in 1 .. n : f[i] \in D
    BY <1>2
<1>4. PICK t : t = [i \in 1 .. n |-> Command("SUBSCRIBE", f[i], 0, FALSE)]
    OBVIOUS
<1>5. unsent' = [unsent EXCEPT !["input"] = unsent["input"] \o t]
    BY <1>2, <1>3, <1>4 DEF Update, D
<1>6. /\ DOMAIN t = 1 .. n
      /\ \A i \in 1 .. n : /\ t[i].channel = f[i] /\ t[i].op = "SUBSCRIBE" /\ t[i].sync = FALSE
                           /\ t[i] \in InputCommands
    BY <1>1, <1>3, <1>4 DEF Command, InputCommands
<1>7. t \in Seq(InputCommands)
  <2>1. t \in [1 .. n -> InputCommands]
      BY <1>4, <1>6
  <2>. QED
      BY <2>1
<1>8. unsent \in Queues /\ unsent["input"] \in Seq(InputCommands)
    BY InQueues DEF Types
<1>9. unsent["input"] \o t \in Seq(InputCommands)
    BY <1>7, <1>8, ConcatProperties
<1>10. /\ unsent' \in Queues /\ unsent'["input"] = unsent["input"] \o t
      /\ unsent'["output"] = unsent["output"]
  <2>1. PICK q \in Queues, s \in Seq(InputCommands) :
            q = unsent /\ s = unsent["input"] \o t
      BY <1>8, <1>9
  <2>2. PICK g : g = unsent'
      OBVIOUS
  <2>3. g = Put(q, "input", s)
      BY <1>5, <2>1, <2>2 DEF Put
  <2>4. g \in Queues /\ g["input"] = s /\ g["output"] = q["output"]
      BY <2>3, SetInput
  <2>. QED
      BY <2>1, <2>2, <2>4
<1>11. ASSUME NEW c \in Channels, subscribed[c] = "no" PROVE LastSays(t, c)
  <2>1. PICK i \in 1 .. n : f[i] = c
      BY <1>2, <1>11 DEF D
  <2>2. \A j \in 1 .. n : i < j => f[j] # c
      BY <1>2, <2>1
  <2>. QED
      BY <1>6, <2>1, <2>2 DEF LastSays
<1>12. ASSUME NEW c \in Channels, subscribed[c] # "no" PROVE Silent(t, c)
    BY <1>3, <1>6, <1>12 DEF Silent, D
<1>. QED
    BY <1>6, <1>7, <1>10, <1>11, <1>12

\* The end of a synchronous request: it is withdrawn, or nothing that is unsent was waited for.
LEMMA TimesOutIs ==
    ASSUME Types, TimesOut
    PROVE  /\ unsent' \in Queues /\ unsent'["output"] = unsent["output"]
           /\ \/ \E r \in InputCommands, y, z \in Seq(InputCommands) :
                    /\ r.sync /\ withdrawn' = withdrawn \union {r.channel}
                    /\ <<r>> \in Seq(InputCommands)
                    /\ unsent["input"] = (y \o <<r>>) \o z /\ unsent'["input"] = y \o z
              \/ /\ unsent'["input"] = unsent["input"] /\ withdrawn' = withdrawn
                 /\ \A i \in DOMAIN unsent["input"] : ~unsent["input"][i].sync
<1>1. unsent \in Queues /\ unsent["input"] \in Seq(InputCommands)
    BY InQueues DEF Types
<1>2. PICK u \in Seq(InputCommands) : u = unsent["input"]
    BY <1>1
<1>3. \/ \E i \in {j \in DOMAIN u : u[j].sync} :
            /\ unsent' = [unsent EXCEPT !["input"] = RemoveAt(u, i)]
            /\ withdrawn' = withdrawn \union {u[i].channel}
      \/ {j \in DOMAIN u : u[j].sync} = {} /\ unsent' = unsent /\ withdrawn' = withdrawn
    BY <1>2 DEF TimesOut
<1>4. ASSUME NEW i \in DOMAIN u, u[i].sync,
             unsent' = [unsent EXCEPT !["input"] = RemoveAt(u, i)],
             withdrawn' = withdrawn \union {u[i].channel}
      PROVE  /\ unsent' \in Queues /\ unsent'["output"] = unsent["output"]
             /\ \E r \in InputCommands, y, z \in Seq(InputCommands) :
                    /\ r.sync /\ withdrawn' = withdrawn \union {r.channel}
                    /\ <<r>> \in Seq(InputCommands)
                    /\ unsent["input"] = (y \o <<r>>) \o z /\ unsent'["input"] = y \o z
  <2>1. PICK r \in InputCommands : r = u[i] /\ <<r>> \in Seq(InputCommands)
    <3>1. u[i] \in InputCommands
        BY ElementOfSeq, LenProperties
    <3>. QED
        BY <3>1
  <2>2. PICK y \in Seq(InputCommands), z \in Seq(InputCommands) :
            u = (y \o <<u[i]>>) \o z /\ RemoveAt(u, i) = y \o z
      BY WithoutOne
  <2>3. y \o z \in Seq(InputCommands)
      BY ConcatProperties
  <2>4. PICK f \in Queues, s \in Seq(InputCommands) :
            f = unsent /\ s = y \o z
      BY <1>1, <2>3
  <2>5. PICK g : g = unsent'
      OBVIOUS
  <2>6. g = Put(f, "input", s)
      BY <1>4, <2>2, <2>4, <2>5 DEF Put
  <2>7. g \in Queues /\ g["input"] = s /\ g["output"] = f["output"]
      BY <2>6, SetInput
  <2>8. unsent' \in Queues /\ unsent'["input"] = y \o z /\ unsent'["output"] = unsent["output"]
      BY <2>4, <2>5, <2>7
  <2>9. r.sync /\ withdrawn' = withdrawn \union {r.channel} /\ unsent["input"] = (y \o <<r>>) \o z
      BY <1>2, <1>4, <2>1, <2>2
  <2>. QED
      BY <2>1, <2>8, <2>9
<1>. QED
    BY <1>1, <1>2, <1>3, <1>4

LEMMA EmptyQueues == <<>> \in Seq(InputCommands) /\ <<>> \in Seq(OutputCommands)
    OBVIOUS

\* The queues of one client are as given and those of the other one as they were.
Instead(x, s, t) ==
    /\ unsent' \in Queues /\ wire' \in Queues
    /\ unsent'[x] = s /\ wire'[x] = t
    /\ \A y \in Clients \ {x} : unsent'[y] = unsent[y] /\ wire'[y] = wire[y]

\* What an Update sends goes from what is unsent to the wire.
LEMMA ClientUpdateIs ==
    ASSUME Types, NEW x \in Clients, ClientUpdate(x)
    PROVE  Instead(x, <<>>, wire[x] \o unsent[x])
<1>1. unsent \in Queues /\ wire \in Queues
    BY DEF Types
<1>2. /\ unsent["input"] \in Seq(InputCommands) /\ wire["input"] \in Seq(InputCommands)
      /\ unsent["output"] \in Seq(OutputCommands) /\ wire["output"] \in Seq(OutputCommands)
    BY <1>1, InQueues
<1>3. /\ unsent' = Put(unsent, x, <<>>)
      /\ wire' = Put(wire, x, wire[x] \o unsent[x])
    BY DEF ClientUpdate, Put
<1>4. CASE x = "input"
  <2>1. wire["input"] \o unsent["input"] \in Seq(InputCommands)
      BY <1>2, ConcatProperties
  <2>2. /\ Put(unsent, "input", <<>>) \in Queues
        /\ Put(unsent, "input", <<>>)["input"] = <<>>
        /\ Put(unsent, "input", <<>>)["output"] = unsent["output"]
      BY <1>1, EmptyQueues, SetInput
  <2>3. PICK s \in Seq(InputCommands) : s = wire["input"] \o unsent["input"]
      BY <2>1
  <2>4. /\ Put(wire, "input", s) \in Queues /\ Put(wire, "input", s)["input"] = s
        /\ Put(wire, "input", s)["output"] = wire["output"]
      BY <1>1, SetInput
  <2>. QED
      BY <1>3, <1>4, <2>2, <2>3, <2>4 DEF Instead, Clients
<1>5. CASE x = "output"
  <2>1. wire["output"] \o unsent["output"] \in Seq(OutputCommands)
      BY <1>2, ConcatProperties
  <2>2. /\ Put(unsent, "output", <<>>) \in Queues
        /\ Put(unsent, "output", <<>>)["output"] = <<>>
        /\ Put(unsent, "output", <<>>)["input"] = unsent["input"]
      BY <1>1, EmptyQueues, SetOutput
  <2>3. PICK s \in Seq(OutputCommands) : s = wire["output"] \o unsent["output"]
      BY <2>1
  <2>4. /\ Put(wire, "output", s) \in Queues /\ Put(wire, "output", s)["output"] = s
        /\ Put(wire, "output", s)["input"] = wire["input"]
      BY <1>1, SetOutput
  <2>. QED
      BY <1>3, <1>5, <2>2, <2>3, <2>4 DEF Instead, Clients
<1>. QED
    BY <1>4, <1>5 DEF Clients

\* What is written to a connection that the server closed is lost, with what was sent back.
LEMMA ClosedUpdateIs ==
    ASSUME Types, NEW x \in Clients, ClosedUpdate(x)
    PROVE  /\ Instead(x, <<>>, wire[x])
           /\ back' \in [Clients -> Seq(Pushed)] /\ back'["output"] \in Seq({Reply})
           /\ back'["input"] = back["input"] \/ (x = "input" /\ back'["input"] = <<>>)
<1>1. unsent \in Queues /\ wire \in Queues
    BY DEF Types
<1>2. unsent' = Put(unsent, x, <<>>) /\ wire' = wire
    BY DEF ClosedUpdate, Put
<1>3. ASSUME x = "input" PROVE Instead(x, <<>>, wire[x])
  <2>1. /\ Put(unsent, "input", <<>>) \in Queues
        /\ Put(unsent, "input", <<>>)["input"] = <<>>
        /\ Put(unsent, "input", <<>>)["output"] = unsent["output"]
      BY <1>1, EmptyQueues, SetInput
  <2>. QED
      BY <1>1, <1>2, <1>3, <2>1 DEF Instead, Clients
<1>4. ASSUME x = "output" PROVE Instead(x, <<>>, wire[x])
  <2>1. /\ Put(unsent, "output", <<>>) \in Queues
        /\ Put(unsent, "output", <<>>)["output"] = <<>>
        /\ Put(unsent, "output", <<>>)["input"] = unsent["input"]
      BY <1>1, EmptyQueues, SetOutput
  <2>. QED
      BY <1>1, <1>2, <1>4, <2>1 DEF Instead, Clients
<1>5. Instead(x, <<>>, wire[x])
    BY <1>3, <1>4 DEF Clients
<1>6. back \in [Clients -> Seq(Pushed)] /\ back["output"] \in Seq({Reply})
    BY DEF Types
<1>7. <<>> \in Seq(Pushed) /\ <<>> \in Seq({Reply})
    OBVIOUS
<1>8. back' = back \/ back' = [back EXCEPT ![x] = <<>>]
    BY DEF ClosedUpdate
<1>9. back' \in [Clients -> Seq(Pushed)]
    BY <1>6, <1>7, <1>8
<1>10. back'["output"] \in Seq({Reply})
    BY <1>6, <1>7, <1>8, ClientsAre
<1>11. back'["input"] = back["input"] \/ (x = "input" /\ back'["input"] = <<>>)
    BY <1>6, <1>8, ClientsAre
<1>. QED
    BY <1>5, <1>9, <1>10, <1>11

\* On the wire of one client there is something else now.
LEMMA WireChanges ==
    ASSUME Types, NEW x \in Clients, unsent' = unsent, NEW s, wire' = [wire EXCEPT ![x] = s],
           x = "input" => s \in Seq(InputCommands), x = "output" => s \in Seq(OutputCommands)
    PROVE  Instead(x, unsent[x], s)
<1>1. unsent \in Queues /\ wire \in Queues
    BY DEF Types
<1>2. wire' = Put(wire, x, s)
    BY DEF Put
<1>3. CASE x = "input"
  <2>1. /\ Put(wire, "input", s) \in Queues /\ Put(wire, "input", s)["input"] = s
        /\ Put(wire, "input", s)["output"] = wire["output"]
      BY <1>1, <1>3, SetInput
  <2>. QED
      BY <1>1, <1>2, <1>3, <2>1 DEF Instead, Clients
<1>4. CASE x = "output"
  <2>1. /\ Put(wire, "output", s) \in Queues /\ Put(wire, "output", s)["output"] = s
        /\ Put(wire, "output", s)["input"] = wire["input"]
      BY <1>1, <1>4, SetOutput
  <2>. QED
      BY <1>1, <1>2, <1>4, <2>1 DEF Instead, Clients
<1>. QED
    BY <1>3, <1>4 DEF Clients

\* What was under way of a client is lost with its connection.
LEMMA LoseIs ==
    ASSUME Types, NEW x \in Clients, Lose(x)
    PROVE  /\ Instead(x, unsent[x], <<>>)
           /\ back' \in [Clients -> Seq(Pushed)] /\ back'["output"] \in Seq({Reply})
           /\ back'["input"] = IF x = "input" THEN <<>> ELSE back["input"]
<1>1. unsent' = unsent /\ wire' = [wire EXCEPT ![x] = <<>>] /\ back' = [back EXCEPT ![x] = <<>>]
    BY DEF Lose
<1>2. Instead(x, unsent[x], <<>>)
    BY <1>1, EmptyQueues, WireChanges
<1>3. back \in [Clients -> Seq(Pushed)] /\ back["output"] \in Seq({Reply})
    BY DEF Types
<1>4. <<>> \in Seq(Pushed) /\ <<>> \in Seq({Reply})
    OBVIOUS
<1>5. back' \in [Clients -> Seq(Pushed)]
    BY <1>1, <1>3, <1>4
<1>6. /\ back'["output"] \in Seq({Reply})
      /\ back'["input"] = IF x = "input" THEN <<>> ELSE back["input"]
    BY <1>1, <1>3, <1>4, ClientsAre
<1>. QED
    BY <1>2, <1>5, <1>6

\* The server takes a command, which may change what it holds, and answers it.  A command
\* of the output client may be pushed to the input client.
LEMMA ServeIs ==
    ASSUME Types, NEW x \in Clients, Serve(x)
    PROVE  /\ link[x] = "up" /\ Instead(x, unsent[x], Tail(wire[x]))
           /\ back' \in [Clients -> Seq(Pushed)] /\ back'["output"] \in Seq({Reply})
           /\ x = "input" => \E h \in InputCommands, z \in Seq(InputCommands) :
                 /\ <<h>> \in Seq(InputCommands) /\ wire[x] = <<h>> \o z /\ z = Tail(wire[x])
                 /\ server' = IF h.op = "SUBSCRIBE" THEN server \union {h.channel}
                              ELSE server \ {h.channel}
                 /\ back'["input"] = back["input"] \o <<Reply>>
           /\ x = "output" => \E h \in OutputCommands, z \in Seq(OutputCommands) :
                 /\ <<h>> \in Seq(OutputCommands) /\ wire[x] = <<h>> \o z /\ z = Tail(wire[x])
                 /\ server' = server
                 /\ \/ back'["input"] = back["input"]
                    \/ /\ Message(h) \in Messages /\ Message(h).id = h.id
                       /\ <<Message(h)>> \in Seq(Pushed)
                       /\ back'["input"] = back["input"] \o <<Message(h)>>
<1>1. /\ wire \in Queues /\ link[x] = "up" /\ wire[x] # <<>> /\ unsent' = unsent
      /\ wire["input"] \in Seq(InputCommands) /\ wire["output"] \in Seq(OutputCommands)
      /\ wire' = [wire EXCEPT ![x] = Tail(wire[x])]
    BY InQueues DEF Types, Serve, clientVars
<1>2. /\ x = "input" => Tail(wire[x]) \in Seq(InputCommands)
      /\ x = "output" => Tail(wire[x]) \in Seq(OutputCommands)
    BY <1>1, HeadTailProperties
<1>3. Instead(x, unsent[x], Tail(wire[x]))
    BY <1>1, <1>2, WireChanges
<1>4. /\ back["input"] \in Seq(Pushed) /\ back["output"] \in Seq(Pushed)
      /\ back["output"] \in Seq({Reply})
    BY ClientsAre DEF Types
<1>5. /\ <<Reply>> \in Seq(Pushed) /\ <<Reply>> \in Seq({Reply})
      /\ <<>> \in Seq(Pushed) /\ <<>> \in Seq({Reply})
    BY DEF Pushed
<1>6. \A s \in Seq(Pushed) : s \o <<>> = s
    BY ConcatEmptySeq
<1>7. CASE x = "input"
  <2>1. PICK h \in InputCommands, z \in Seq(InputCommands) :
            /\ <<h>> \in Seq(InputCommands) /\ wire["input"] = <<h>> \o z
            /\ z = Tail(wire["input"]) /\ h = Head(wire["input"])
      BY <1>1, <1>7, HeadAndTail
  <2>2. h.op \in {"SUBSCRIBE", "UNSUBSCRIBE"}
      BY DEF InputCommands
  <2>3. server' = IF h.op = "SUBSCRIBE" THEN server \union {h.channel} ELSE server \ {h.channel}
      BY <1>7, <2>1, <2>2 DEF Serve
  <2>4. back' = [y \in Clients |-> (back[y] \o <<>>) \o (IF y = "input" THEN <<Reply>> ELSE <<>>)]
      BY <1>7, <2>1, <2>2 DEF Serve
  <2>5. /\ back'["input"] = (back["input"] \o <<>>) \o <<Reply>>
        /\ back'["output"] = (back["output"] \o <<>>) \o <<>>
      BY <2>4, ClientsAre
  <2>6. back'["input"] = back["input"] \o <<Reply>> /\ back'["output"] = back["output"]
      BY <1>4, <1>6, <2>5
  <2>7. back["input"] \o <<Reply>> \in Seq(Pushed)
      BY <1>4, <1>5, ConcatProperties
  <2>8. back' \in [Clients -> Seq(Pushed)]
    <3>1. DOMAIN back' = Clients /\ back' = [y \in Clients |-> back'[y]]
        BY <2>4
    <3>2. \A y \in Clients : back'[y] \in Seq(Pushed)
        BY <1>4, <2>6, <2>7 DEF Clients
    <3>. QED
        BY <3>1, <3>2
  <2>. QED
      BY <1>1, <1>3, <1>4, <1>7, <2>1, <2>3, <2>6, <2>8
<1>8. CASE x = "output"
  <2>1. PICK h \in OutputCommands, z \in Seq(OutputCommands) :
            /\ <<h>> \in Seq(OutputCommands) /\ wire["output"] = <<h>> \o z
            /\ z = Tail(wire["output"]) /\ h = Head(wire["output"])
      BY <1>1, <1>8, HeadAndTail
  <2>2. h.op = "PUBLISH"
      BY DEF OutputCommands
  <2>3. server' = server
      BY <1>8, <2>1, <2>2 DEF Serve
  <2>4. PICK push : push = IF h.channel \in server THEN <<Message(h)>> ELSE <<>>
      OBVIOUS
  <2>5. back' = [y \in Clients |-> (back[y] \o (IF y = "input" THEN push ELSE <<>>))
                                           \o (IF y = "output" THEN <<Reply>> ELSE <<>>)]
      BY <1>8, <2>1, <2>2, <2>4 DEF Serve
  <2>6. /\ back'["input"] = (back["input"] \o push) \o <<>>
        /\ back'["output"] = (back["output"] \o <<>>) \o <<Reply>>
      BY <2>5, ClientsAre
  <2>7. Message(h) \in Messages /\ Message(h).id = h.id
      BY DEF Message, Messages, OutputCommands
  <2>8. push \in Seq(Pushed) /\ <<Message(h)>> \in Seq(Pushed)
    <3>1. PICK m \in Pushed : m = Message(h)
        BY <2>7 DEF Pushed
    <3>2. <<m>> \in Seq(Pushed)
        OBVIOUS
    <3>. QED
        BY <1>5, <2>4, <3>1, <3>2
  <2>9. back["input"] \o push \in Seq(Pushed)
      BY <1>4, <2>8, ConcatProperties
  <2>10. back'["input"] = back["input"] \o push /\ back'["output"] = back["output"] \o <<Reply>>
      BY <1>4, <1>6, <2>6, <2>9
  <2>11. back["output"] \o <<Reply>> \in Seq(Pushed) /\ back["output"] \o <<Reply>> \in Seq({Reply})
      BY <1>4, <1>5, ConcatProperties
  <2>12. back' \in [Clients -> Seq(Pushed)]
    <3>1. DOMAIN back' = Clients /\ back' = [y \in Clients |-> back'[y]]
        BY <2>5
    <3>2. \A y \in Clients : back'[y] \in Seq(Pushed)
        BY <2>9, <2>10, <2>11 DEF Clients
    <3>. QED
        BY <3>1, <3>2
  <2>13. \/ back'["input"] = back["input"]
         \/ back'["input"] = back["input"] \o <<Message(h)>>
      BY <1>4, <1>6, <2>4, <2>10
  <2>. QED
      BY <1>1, <1>3, <1>8, <2>1, <2>3, <2>7, <2>8, <2>10, <2>11, <2>12, <2>13
<1>. QED
    BY <1>7, <1>8 DEF Clients

-----------------------------------------------------------------------------
(* The messages that are dispatched                                        *)

\* There is a least element.
LEMMA LeastNat ==
    ASSUME NEW T \in SUBSET Nat, T # {}
    PROVE  \E m \in T : \A k \in T : m <= k
<1>1. IsWellFoundedOn(OpToRel(<, Nat), Nat)
    BY NatLessThanWellFounded
<1>2. PICK m \in T : \A k \in T : ~ (<<k, m>> \in OpToRel(<, Nat))
    BY <1>1, WFMin
<1>3. \A k \in T : ~(k < m)
    BY <1>2 DEF OpToRel
<1>. QED
    BY <1>3

\* What is true of the first and handed on from each to the next is true of all.
LEMMA HandedOn ==
    ASSUME NEW n \in Nat, NEW T \in SUBSET (0 .. n), 0 \in T,
           \A k \in 1 .. n : k - 1 \in T => k \in T
    PROVE  T = 0 .. n
<1>. DEFINE U == (0 .. n) \ T
<1>1. SUFFICES ASSUME U # {} PROVE FALSE
    OBVIOUS
<1>2. U \in SUBSET Nat
    OBVIOUS
<1>3. PICK m \in U : \A k \in U : m <= k
    BY <1>2, <1>1, LeastNat
<1>4. m \in 1 .. n /\ m - 1 \in 0 .. n /\ m - 1 \notin U
    BY <1>3
<1>. QED
    BY <1>4

\* One message more, if its channel is in the map.
Kept(s, e) == IF InMap(e.channel) THEN Append(s, e) ELSE s

Sifts(f, n, m) == f[0] = <<>> /\ \A k \in 1 .. n : f[k] = Kept(f[k - 1], m[k])

\* A message is added, or none.
LEMMA KeptType ==
    ASSUME NEW s \in Seq(Messages), NEW e \in Messages
    PROVE  Kept(s, e) \in Seq(Messages)
    BY AppendProperties DEF Kept

LEMMA EmptyMessages == <<>> \in Seq(Messages)
    OBVIOUS

\* There is such a sequence of intermediate results, of every length.
LEMMA SiftsExist ==
    ASSUME NEW m \in Seq(Messages), NEW c \in Nat, c = Len(m)
    PROVE  \E f \in [0 .. c -> Seq(Messages)] : Sifts(f, c, m)
<1>. DEFINE T == {n \in 0 .. c : \E f \in [0 .. n -> Seq(Messages)] : Sifts(f, n, m)}
<1>1. 0 \in T
  <2>1. PICK s \in Seq(Messages) : s = <<>>
      BY EmptyMessages
  <2>. DEFINE f == [k \in 0 .. 0 |-> s]
  <2>2. f \in [0 .. 0 -> Seq(Messages)] /\ f[0] = s
      OBVIOUS
  <2>. HIDE DEF f
  <2>3. Sifts(f, 0, m)
      BY <2>1, <2>2 DEF Sifts
  <2>4. \E g \in [0 .. 0 -> Seq(Messages)] : Sifts(g, 0, m)
      BY <2>2, <2>3
  <2>. QED
      BY <2>4
<1>2. ASSUME NEW n \in 1 .. c, n - 1 \in T PROVE n \in T
  <2>1. PICK f \in [0 .. n - 1 -> Seq(Messages)] : Sifts(f, n - 1, m)
      BY <1>2
  <2>2. PICK s \in Seq(Messages) : s = f[n - 1]
      BY <1>2
  <2>3. PICK e \in Messages : e = m[n]
      BY ElementOfSeq
  <2>4. PICK u \in Seq(Messages) : u = Kept(s, e)
      BY KeptType
  <2>. DEFINE g == [k \in 0 .. n |-> IF k = n THEN u ELSE f[k]]
  <2>5. g \in [0 .. n -> Seq(Messages)]
      OBVIOUS
  <2>6. g[n] = u /\ \A k \in 0 .. n - 1 : k \in 0 .. n /\ g[k] = f[k]
      OBVIOUS
  <2>. HIDE DEF g
  <2>7. g[0] = <<>>
      BY <2>1, <2>6 DEF Sifts
  <2>8. ASSUME NEW k \in 1 .. n PROVE g[k] = Kept(g[k - 1], m[k])
    <3>1. CASE k = n
        BY <2>2, <2>3, <2>4, <2>6, <3>1
    <3>2. CASE k \in 1 .. n - 1
      <4>1. f[k] = Kept(f[k - 1], m[k]) /\ k \in 0 .. n - 1 /\ k - 1 \in 0 .. n - 1
          BY <2>1, <3>2 DEF Sifts
      <4>2. g[k] = f[k] /\ g[k - 1] = f[k - 1]
          BY <2>6, <4>1
      <4>. QED
          BY <4>1, <4>2
    <3>. QED
        BY <3>1, <3>2
  <2>9. Sifts(g, n, m)
      BY <2>7, <2>8 DEF Sifts
  <2>. QED
      BY <2>5, <2>9
<1>. HIDE DEF T
<1>3. T \in SUBSET (0 .. c)
    BY DEF T
<1>4. T = 0 .. c
    BY <1>1, <1>2, <1>3, HandedOn
<1>5. c \in T
    BY <1>4
<1>. QED
    BY <1>5 DEF T

\* Dispatch goes through the messages one by one.
LEMMA DispatchIs ==
    ASSUME NEW m \in Seq(Messages), NEW c \in Nat, c = Len(m)
    PROVE  \E f \in [0 .. c -> Seq(Messages)] : Sifts(f, c, m) /\ Dispatch(m) = f[c]
<1>1. PICK f \in [0 .. c -> Seq(Messages)] : Sifts(f, c, m)
    BY SiftsExist
<1>2. \A j \in 1 .. c : j - 1 \in 0 .. c
    OBVIOUS
<1>3. PICK w : /\ Dispatch(m) = w[Len(m)]
               /\ w = CHOOSE v : v = [n \in 0 .. Len(m) |->
                          IF n = 0 THEN <<>> ELSE Kept(v[n - 1], m[n])]
    BY DEF Dispatch, Kept
<1>4. f = [n \in 0 .. c |-> IF n = 0 THEN <<>> ELSE Kept(f[n - 1], m[n])]
  <2>1. \A j \in 0 .. c : f[j] = IF j = 0 THEN <<>> ELSE Kept(f[j - 1], m[j])
      BY <1>1 DEF Sifts
  <2>. QED
      BY <2>1
<1>5. w = [n \in 0 .. c |-> IF n = 0 THEN <<>> ELSE Kept(w[n - 1], m[n])]
    BY <1>3, <1>4
<1>6. \A j \in 0 .. c : w[j] = IF j = 0 THEN <<>> ELSE Kept(w[j - 1], m[j])
    BY <1>5
<1>. DEFINE T == {j \in 0 .. c : w[j] = f[j]}
<1>7. 0 \in T
    BY <1>1, <1>6 DEF Sifts
<1>8. ASSUME NEW j \in 1 .. c, j - 1 \in T PROVE j \in T
  <2>1. w[j] = Kept(w[j - 1], m[j])
      BY <1>6
  <2>2. f[j] = Kept(f[j - 1], m[j])
      BY <1>1 DEF Sifts
  <2>. QED
      BY <1>8, <2>1, <2>2
<1>. HIDE DEF T
<1>9. T \in SUBSET (0 .. c)
    BY DEF T
<1>10. T = 0 .. c
    BY <1>7, <1>8, <1>9, HandedOn
<1>11. w[c] = f[c]
    BY <1>10 DEF T
<1>. QED
    BY <1>1, <1>3, <1>11

-----------------------------------------------------------------------------
(* Order                                                                   *)

\* No message, and one message.
LEMMA NoneInOrder ==
    /\ Rising(<<>>) /\ \A n : UpTo(<<>>, n)
    /\ \A s : Before(<<>>, s) /\ Before(s, <<>>)
    BY DEF Rising, UpTo, Before

LEMMA OneInOrder ==
    ASSUME NEW e
    PROVE  Rising(<<e>>) /\ DOMAIN <<e>> = {1} /\ <<e>>[1] = e
<1>1. DOMAIN <<e>> = {1} /\ <<e>>[1] = e /\ ~(1 < 1)
    OBVIOUS
<1>. QED
    BY <1>1 DEF Rising

\* Sequences in turn: up to, before, and in order.
LEMMA UpToInTurn ==
    ASSUME NEW S, NEW s \in Seq(S), NEW t \in Seq(S), NEW n
    PROVE  UpTo(s \o t, n) <=> UpTo(s, n) /\ UpTo(t, n)
<1>1. PICK p \in Nat : p = Len(s)
    BY LenProperties
<1>2. PICK st : st = s \o t
    OBVIOUS
<1>3. \A i \in DOMAIN s : i \in DOMAIN st /\ st[i] = s[i]
    BY <1>2, ConcatIs
<1>4. \A i \in DOMAIN t : p + i \in DOMAIN st /\ st[p + i] = t[i]
    BY <1>1, <1>2, ConcatIs
<1>5. \A k \in DOMAIN st : k \in DOMAIN s \/ \E i \in DOMAIN t : k = p + i
  <2>1. \A k \in DOMAIN (s \o t) : k \in DOMAIN s \/ \E i \in DOMAIN t : k = Len(s) + i
      BY ConcatIs
  <2>. QED
      BY <1>1, <1>2, <2>1
<1>6. ASSUME UpTo(st, n), NEW i \in DOMAIN t PROVE t[i].id <= n
  <2>1. p + i \in DOMAIN st /\ st[p + i] = t[i]
      BY <1>4
  <2>. QED
      BY <1>6, <2>1 DEF UpTo
<1>7. ASSUME UpTo(st, n), NEW i \in DOMAIN s PROVE s[i].id <= n
    BY <1>3, <1>7 DEF UpTo
<1>8. ASSUME UpTo(s, n), UpTo(t, n), NEW k \in DOMAIN st PROVE st[k].id <= n
    BY <1>3, <1>4, <1>5, <1>8 DEF UpTo
<1>9. UpTo(st, n) => UpTo(s, n) /\ UpTo(t, n)
    BY <1>6, <1>7 DEF UpTo
<1>10. UpTo(s, n) /\ UpTo(t, n) => UpTo(st, n)
    BY <1>8 DEF UpTo
<1>. QED
    BY <1>2, <1>9, <1>10

LEMMA BeforeInTurn ==
    ASSUME NEW S, NEW s \in Seq(S), NEW t \in Seq(S), NEW u
    PROVE  /\ Before(s \o t, u) <=> Before(s, u) /\ Before(t, u)
           /\ Before(u, s \o t) <=> Before(u, s) /\ Before(u, t)
<1>1. PICK p \in Nat : p = Len(s)
    BY LenProperties
<1>2. PICK st : st = s \o t
    OBVIOUS
<1>3. \A i \in DOMAIN s : i \in DOMAIN st /\ st[i] = s[i]
    BY <1>2, ConcatIs
<1>4. \A i \in DOMAIN t : p + i \in DOMAIN st /\ st[p + i] = t[i]
    BY <1>1, <1>2, ConcatIs
<1>5. \A k \in DOMAIN st : k \in DOMAIN s \/ \E i \in DOMAIN t : k = p + i
  <2>1. \A k \in DOMAIN (s \o t) : k \in DOMAIN s \/ \E i \in DOMAIN t : k = Len(s) + i
      BY ConcatIs
  <2>. QED
      BY <1>1, <1>2, <2>1
<1>6. ASSUME NEW i \in DOMAIN t PROVE p + i \in DOMAIN st /\ st[p + i] = t[i]
    BY <1>4
<1>7. ASSUME Before(st, u), NEW i \in DOMAIN t, NEW j \in DOMAIN u,
             t[i].op # "reply", u[j].op # "reply"
      PROVE  t[i].id < u[j].id
  <2>1. p + i \in DOMAIN st /\ st[p + i] = t[i]
      BY <1>6
  <2>. QED
      BY <1>7, <2>1 DEF Before
<1>8. ASSUME Before(u, st), NEW i \in DOMAIN t, NEW j \in DOMAIN u,
             t[i].op # "reply", u[j].op # "reply"
      PROVE  u[j].id < t[i].id
  <2>1. p + i \in DOMAIN st /\ st[p + i] = t[i]
      BY <1>6
  <2>. QED
      BY <1>8, <2>1 DEF Before
<1>9. /\ Before(st, u) => Before(s, u) /\ Before(t, u)
      /\ Before(u, st) => Before(u, s) /\ Before(u, t)
    BY <1>3, <1>7, <1>8 DEF Before
<1>10. ASSUME Before(s, u), Before(t, u), NEW k \in DOMAIN st, NEW j \in DOMAIN u,
             st[k].op # "reply", u[j].op # "reply"
      PROVE  st[k].id < u[j].id
    BY <1>3, <1>4, <1>5, <1>10 DEF Before
<1>11. ASSUME Before(u, s), Before(u, t), NEW k \in DOMAIN st, NEW j \in DOMAIN u,
              st[k].op # "reply", u[j].op # "reply"
       PROVE  u[j].id < st[k].id
    BY <1>3, <1>4, <1>5, <1>11 DEF Before
<1>12. /\ Before(s, u) /\ Before(t, u) => Before(st, u)
       /\ Before(u, s) /\ Before(u, t) => Before(u, st)
    BY <1>10, <1>11 DEF Before
<1>. QED
    BY <1>2, <1>9, <1>12

LEMMA RisingInTurn ==
    ASSUME NEW S, NEW s \in Seq(S), NEW t \in Seq(S)
    PROVE  Rising(s \o t) <=> Rising(s) /\ Rising(t) /\ Before(s, t)
<1>1. PICK p \in Nat, q \in Nat : p = Len(s) /\ q = Len(t)
    BY LenProperties
<1>2. PICK st : st = s \o t
    OBVIOUS
<1>3. DOMAIN s = 1 .. p /\ DOMAIN t = 1 .. q
    BY <1>1, ConcatIs
<1>4. \A i \in DOMAIN s : i \in DOMAIN st /\ st[i] = s[i]
    BY <1>2, ConcatIs
<1>5. \A i \in DOMAIN t : p + i \in DOMAIN st /\ st[p + i] = t[i]
    BY <1>1, <1>2, ConcatIs
<1>6. \A k \in DOMAIN st : k \in DOMAIN s \/ \E i \in DOMAIN t : k = p + i
  <2>1. \A k \in DOMAIN (s \o t) : k \in DOMAIN s \/ \E i \in DOMAIN t : k = Len(s) + i
      BY ConcatIs
  <2>. QED
      BY <1>1, <1>2, <2>1
<1>7. ASSUME Rising(st) PROVE Rising(s)
    BY <1>4, <1>7 DEF Rising
<1>8. ASSUME Rising(st), NEW i \in DOMAIN t, NEW j \in DOMAIN t, i < j,
             t[i].op # "reply", t[j].op # "reply"
      PROVE  t[i].id < t[j].id
  <2>1. /\ p + i \in DOMAIN st /\ st[p + i] = t[i] /\ p + j \in DOMAIN st /\ st[p + j] = t[j]
        /\ p + i < p + j
      BY <1>3, <1>5, <1>8
  <2>. QED
      BY <1>8, <2>1 DEF Rising
<1>9. ASSUME Rising(st), NEW i \in DOMAIN s, NEW j \in DOMAIN t,
             s[i].op # "reply", t[j].op # "reply"
      PROVE  s[i].id < t[j].id
  <2>1. /\ i \in DOMAIN st /\ st[i] = s[i] /\ p + j \in DOMAIN st /\ st[p + j] = t[j]
        /\ i < p + j
      BY <1>3, <1>4, <1>5
  <2>. QED
      BY <1>9, <2>1 DEF Rising
<1>10. ASSUME Rising(s), Rising(t), Before(s, t), NEW k \in DOMAIN st, NEW l \in DOMAIN st, k < l,
             st[k].op # "reply", st[l].op # "reply"
      PROVE  st[k].id < st[l].id
  <2>1. CASE k \in DOMAIN s /\ l \in DOMAIN s
      BY <1>4, <1>10, <2>1 DEF Rising
  <2>2. ASSUME k \in DOMAIN s, NEW j \in DOMAIN t, l = p + j PROVE st[k].id < st[l].id
      BY <1>4, <1>5, <1>10, <2>2 DEF Before
  <2>3. ASSUME NEW i \in DOMAIN t, k = p + i PROVE st[k].id < st[l].id
    <3>1. l \notin DOMAIN s
        BY <1>3, <1>10, <2>3
    <3>2. PICK j \in DOMAIN t : l = p + j
        BY <1>6, <3>1
    <3>3. i < j
        BY <1>3, <1>10, <2>3, <3>2
    <3>4. st[k] = t[i] /\ st[l] = t[j]
        BY <1>5, <2>3, <3>2
    <3>. QED
        BY <1>10, <3>3, <3>4 DEF Rising
  <2>. QED
      BY <1>6, <2>1, <2>2, <2>3
<1>11. Rising(st) => Rising(t) /\ Before(s, t)
    BY <1>8, <1>9 DEF Rising, Before
<1>12. Rising(s) /\ Rising(t) /\ Before(s, t) => Rising(st)
    BY <1>10 DEF Rising
<1>. QED
    BY <1>2, <1>7, <1>11, <1>12


\* A sequence with one message more.
LEMMA OneMore ==
    ASSUME NEW s \in Seq(Messages), NEW e, NEW z \in Seq(Messages), DOMAIN z = {1}, z[1] = e
    PROVE  \A i \in DOMAIN (s \o z) : (s \o z)[i] = IF i \in DOMAIN s THEN s[i] ELSE e
<1>1. \A i \in DOMAIN s : (s \o z)[i] = s[i]
    BY ConcatIs
<1>2. \A k \in DOMAIN z : (s \o z)[Len(s) + k] = z[k]
    BY ConcatIs
<1>3. \A k \in DOMAIN (s \o z) : k \in DOMAIN s \/ \E i \in DOMAIN z : k = Len(s) + i
    BY ConcatIs
<1>. QED
    BY <1>1, <1>2, <1>3

\* What is dispatched is messages of the list, in its order.
LEMMA DispatchKeeps ==
    ASSUME NEW m \in Seq(Messages)
    PROVE  /\ Dispatch(m) \in Seq(Messages)
           /\ \A i \in DOMAIN Dispatch(m) : \E k \in DOMAIN m : Dispatch(m)[i] = m[k]
           /\ Rising(m) => Rising(Dispatch(m))
<1>1. PICK c \in Nat : c = Len(m) /\ DOMAIN m = 1 .. c
    BY LenProperties
<1>2. PICK f \in [0 .. c -> Seq(Messages)] : Sifts(f, c, m) /\ Dispatch(m) = f[c]
    BY <1>1, DispatchIs
<1>. DEFINE From(j) == \A i \in DOMAIN f[j] : \E k \in 1 .. j : f[j][i] = m[k]
            T == {j \in 0 .. c : From(j) /\ (Rising(m) => Rising(f[j]))}
<1>3. 0 \in T
  <2>1. f[0] = <<>>
      BY <1>2 DEF Sifts
  <2>2. Rising(f[0]) /\ From(0)
      BY <2>1, NoneInOrder
  <2>. QED
      BY <2>2
<1>4. ASSUME NEW j \in 1 .. c, j - 1 \in T PROVE j \in T
  <2>1. PICK s \in Seq(Messages), u \in Seq(Messages) : s = f[j - 1] /\ u = f[j]
    <3>1. f[j - 1] \in Seq(Messages) /\ f[j] \in Seq(Messages)
        BY <1>4
    <3>. QED
        BY <3>1
  <2>2. PICK e \in Messages : e = m[j]
      BY <1>1, ElementOfSeq
  <2>3. u = Kept(s, e)
      BY <1>2, <2>1, <2>2 DEF Sifts
  <2>4. /\ \A i \in DOMAIN s : \E k \in 1 .. j - 1 : s[i] = m[k]
        /\ Rising(m) => Rising(s)
      BY <1>4, <2>1
  <2>5. \A k \in 1 .. j - 1 : k \in 1 .. j /\ k \in 1 .. c /\ j \in 1 .. c /\ k < j
      OBVIOUS
  <2>6. CASE u = s
    <3>1. \A i \in DOMAIN u : \E k \in 1 .. j : u[i] = m[k]
        BY <2>4, <2>5, <2>6
    <3>2. Rising(m) => Rising(u)
        BY <2>4, <2>6
    <3>. QED
        BY <2>1, <3>1, <3>2
  <2>7. CASE u = Append(s, e)
    <3>1. PICK z \in Seq(Messages) : z = <<e>>
      <4>1. <<e>> \in Seq(Messages)
          OBVIOUS
      <4>. QED
          BY <4>1
    <3>2. u = s \o z
        BY <2>7, <3>1, AppendIsConcat
    <3>3. DOMAIN z = {1} /\ z[1] = e /\ Rising(z)
        BY <3>1, OneInOrder
    <3>4. \A i \in DOMAIN (s \o z) : (s \o z)[i] = IF i \in DOMAIN s THEN s[i] ELSE e
        BY <3>3, OneMore
    <3>5. ASSUME NEW i \in DOMAIN u PROVE \E k \in 1 .. j : u[i] = m[k]
      <4>1. CASE i \in DOMAIN s
        <5>1. u[i] = s[i]
            BY <3>2, <3>4, <4>1
        <5>. QED
            BY <2>4, <2>5, <4>1, <5>1
      <4>2. CASE i \notin DOMAIN s
        <5>1. u[i] = e
            BY <3>2, <3>4, <3>5, <4>2
        <5>2. j \in 1 .. j
            OBVIOUS
        <5>. QED
            BY <2>2, <5>1, <5>2
      <4>. QED
          BY <4>1, <4>2
    <3>6. ASSUME Rising(m) PROVE Before(s, z)
      <4>1. ASSUME NEW i \in DOMAIN s, NEW k \in DOMAIN z, s[i].op # "reply", z[k].op # "reply"
            PROVE  s[i].id < z[k].id
        <5>1. PICK l \in 1 .. j - 1 : s[i] = m[l]
            BY <2>4
        <5>2. l \in DOMAIN m /\ j \in DOMAIN m /\ l < j
            BY <1>1, <2>5
        <5>3. z[k] = m[j]
            BY <2>2, <3>3
        <5>. QED
            BY <3>6, <4>1, <5>1, <5>2, <5>3 DEF Rising
      <4>. QED
          BY <4>1 DEF Before
    <3>7. Rising(m) => Rising(u)
      <4>1. Rising(s \o z) <=> Rising(s) /\ Rising(z) /\ Before(s, z)
          BY RisingInTurn
      <4>. QED
          BY <2>4, <3>2, <3>3, <3>6, <4>1
    <3>. QED
        BY <2>1, <3>5, <3>7
  <2>. QED
      BY <2>3, <2>6, <2>7 DEF Kept
<1>. HIDE DEF T
<1>5. T \in SUBSET (0 .. c)
    BY DEF T
<1>6. T = 0 .. c
    BY <1>3, <1>4, <1>5, HandedOn
<1>7. From(c) /\ (Rising(m) => Rising(f[c]))
  <2>1. c \in T
      BY <1>6
  <2>. QED
      BY <2>1 DEF T
<1>8. f[c] \in Seq(Messages)
    OBVIOUS
<1>. QED
    BY <1>1, <1>2, <1>7, <1>8

\* So it has the place in the order that the list had.
LEMMA DispatchInOrder ==
    ASSUME NEW m \in Seq(Messages)
    PROVE  /\ Dispatch(m) \in Seq(Messages)
           /\ Rising(m) => Rising(Dispatch(m))
           /\ \A t : /\ Before(m, t) => Before(Dispatch(m), t)
                     /\ Before(t, m) => Before(t, Dispatch(m))
           /\ \A n : UpTo(m, n) => UpTo(Dispatch(m), n)
<1>1. PICK d : d = Dispatch(m)
    OBVIOUS
<1>2. \A i \in DOMAIN d : \E k \in DOMAIN m : d[i] = m[k]
    BY <1>1, DispatchKeeps
<1>3. \A t : Before(m, t) => Before(d, t)
    BY <1>2 DEF Before
<1>4. \A t : Before(t, m) => Before(t, d)
    BY <1>2 DEF Before
<1>5. \A n : UpTo(m, n) => UpTo(d, n)
    BY <1>2 DEF UpTo
<1>. QED
    BY <1>1, <1>3, <1>4, <1>5, DispatchKeeps

-----------------------------------------------------------------------------
(* Types are kept                                                          *)

\* The reader takes what comes first: a message of the input client goes to the list.
LEMMA ReadIs ==
    ASSUME Types, NEW x \in Clients, Read(x)
    PROVE  /\ back' \in [Clients -> Seq(Pushed)] /\ back'["output"] \in Seq({Reply})
           /\ messageList' \in Seq(Messages)
           /\ \/ back'["input"] = back["input"] /\ messageList' = messageList
              \/ \E e \in Pushed, z \in Seq(Pushed) :
                    /\ <<e>> \in Seq(Pushed) /\ back["input"] = <<e>> \o z /\ back'["input"] = z
                    /\ \/ messageList' = messageList
                       \/ e \in Messages /\ <<e>> \in Seq(Messages)
                          /\ messageList' = messageList \o <<e>>
<1>1. /\ back \in [Clients -> Seq(Pushed)] /\ back["output"] \in Seq({Reply})
      /\ back["input"] \in Seq(Pushed) /\ messageList \in Seq(Messages)
    BY ClientsAre DEF Types
<1>2. back[x] # <<>> /\ back' = [back EXCEPT ![x] = Tail(back[x])]
    BY DEF Read
<1>3. /\ Head(back[x]).op = "message" => messageList' = Append(messageList, Head(back[x]))
      /\ Head(back[x]).op # "message" => messageList' = messageList
    BY DEF Read
<1>4. CASE x = "output"
  <2>1. Head(back["output"]) \in {Reply} /\ Tail(back["output"]) \in Seq({Reply})
      BY <1>1, <1>2, <1>4, HeadTailProperties
  <2>2. Tail(back["output"]) \in Seq(Pushed)
      BY <1>1, <1>2, <1>4, HeadTailProperties
  <2>3. messageList' = messageList
      BY <1>3, <1>4, <2>1 DEF Reply
  <2>4. /\ back' \in [Clients -> Seq(Pushed)] /\ back'["output"] = Tail(back["output"])
        /\ back'["input"] = back["input"]
      BY <1>1, <1>2, <1>4, <2>2, ClientsAre
  <2>. QED
      BY <1>1, <2>1, <2>3, <2>4
<1>5. CASE x = "input"
  <2>1. PICK e \in Pushed, z \in Seq(Pushed) :
            /\ <<e>> \in Seq(Pushed) /\ back["input"] = <<e>> \o z
            /\ e = Head(back["input"]) /\ z = Tail(back["input"])
    <3>1. /\ Head(back["input"]) \in Pushed /\ Tail(back["input"]) \in Seq(Pushed)
          /\ <<Head(back["input"])>> \in Seq(Pushed)
          /\ back["input"] = <<Head(back["input"])>> \o Tail(back["input"])
        BY <1>1, <1>2, <1>5, HeadAndTail
    <3>. QED
        BY <3>1
  <2>2. /\ back' \in [Clients -> Seq(Pushed)] /\ back'["input"] = z
        /\ back'["output"] = back["output"]
      BY <1>1, <1>2, <1>5, <2>1, ClientsAre
  <2>3. CASE e.op = "message"
    <3>1. e \in Messages
        BY <2>3 DEF Pushed, Reply
    <3>2. <<e>> \in Seq(Messages)
        BY <3>1
    <3>3. messageList' = Append(messageList, e)
        BY <1>3, <1>5, <2>1, <2>3
    <3>4. messageList' = messageList \o <<e>> /\ messageList' \in Seq(Messages)
        BY <1>1, <3>1, <3>3, AppendIsConcat, AppendProperties
    <3>. QED
        BY <1>1, <2>1, <2>2, <3>1, <3>2, <3>4
  <2>4. CASE e.op # "message"
    <3>1. messageList' = messageList
        BY <1>3, <1>5, <2>1, <2>4
    <3>. QED
        BY <1>1, <2>1, <2>2, <3>1
  <2>. QED
      BY <2>3, <2>4
<1>. QED
    BY <1>4, <1>5 DEF Clients

\* Where the main thread goes.
LEMMA AfterIs ==
    ASSUME NEW called, pc \in {"idle", "input", "output", "sync"}
    PROVE  After(called) \in {"idle", "input", "output", "sync"}
    BY DEF After

\* Init is well typed.
LEMMA TypesInit == ASSUME Init PROVE Types
<1>1. /\ subscribed \in [Channels -> {"absent", "no", "yes"}]
      /\ link \in [Clients -> {"none", "up", "closed", "broken"}]
      /\ pc = "idle" /\ server = {} /\ published = 0
    BY DEF Init
<1>2. /\ unsent = [x \in Clients |-> <<>>] /\ wire = unsent /\ back = unsent
      /\ messageList = <<>> /\ delivered = <<>>
    BY DEF Init
<1>3. unsent \in Queues
  <2>1. PICK T : T = InputCommands \union OutputCommands
      OBVIOUS
  <2>2. <<>> \in Seq(T) /\ unsent["input"] = <<>> /\ unsent["output"] = <<>>
      BY <1>2, ClientsAre
  <2>3. unsent \in [Clients -> Seq(T)]
      BY <1>2, <2>2
  <2>. QED
      BY <2>1, <2>2, <2>3, EmptyQueues DEF Queues
<1>4. back \in [Clients -> Seq(Pushed)] /\ back["output"] \in Seq({Reply})
  <2>1. PICK T : T = Pushed
      OBVIOUS
  <2>2. <<>> \in Seq(T) /\ <<>> \in Seq({Reply}) /\ back["output"] = <<>>
      BY <1>2, ClientsAre
  <2>. QED
      BY <1>2, <2>1, <2>2
<1>. QED
    BY <1>1, <1>2, <1>3, <1>4, EmptyMessages DEF Types

\* Every step keeps the types.
LEMMA TypesStep == Types /\ [Next]_vars => Types'
<1>. SUFFICES ASSUME Types, [Next]_vars PROVE Types'
    OBVIOUS
<1>1. /\ pc \in {"idle", "input", "output", "sync"}
      /\ subscribed \in [Channels -> {"absent", "no", "yes"}]
      /\ link \in [Clients -> {"none", "up", "closed", "broken"}]
      /\ unsent \in Queues /\ wire \in Queues
      /\ back \in [Clients -> Seq(Pushed)] /\ back["output"] \in Seq({Reply})
      /\ messageList \in Seq(Messages) /\ delivered \in Seq(Messages)
      /\ server \subseteq Channels /\ published \in Nat
    BY DEF Types
<1>2. ASSUME NEW c \in Channels, Subscribe(c) PROVE Types'
  <2>1. /\ subscribed' = [subscribed EXCEPT ![c] = "no"]
        /\ UNCHANGED <<pc, unsent, wire, link, back, messageList, delivered, server, published>>
      BY <1>2 DEF Subscribe, clientVars, serverVars
  <2>2. subscribed' \in [Channels -> {"absent", "no", "yes"}]
      BY <1>1, <2>1
  <2>. QED
      BY <1>1, <2>1, <2>2 DEF Types
<1>3. ASSUME NEW c \in Channels, Unsubscribe(c) PROVE Types'
  <2>1. /\ subscribed' = [subscribed EXCEPT ![c] = "absent"] /\ pc' = "sync"
        /\ UNCHANGED <<wire, link, back, messageList, delivered, server, published>>
      BY <1>3 DEF Unsubscribe, serverVars
  <2>2. subscribed' \in [Channels -> {"absent", "no", "yes"}]
      BY <1>1, <2>1
  <2>3. unsent' \in Queues
      BY <1>3, UnsubscribeIs
  <2>. QED
      BY <1>1, <2>1, <2>2, <2>3 DEF Types
<1>4. ASSUME NEW c \in Channels, Publish(c) PROVE Types'
  <2>1. /\ published' = published + 1
        /\ UNCHANGED <<pc, subscribed, wire, link, back, messageList, delivered, server>>
      BY <1>4 DEF Publish, serverVars
  <2>2. unsent' \in Queues
      BY <1>4, PublishIs
  <2>3. published' \in Nat
      BY <1>1, <2>1
  <2>. QED
      BY <1>1, <2>1, <2>2, <2>3 DEF Types
<1>5. CASE Update
  <2>1. /\ subscribed' = [c \in Channels |-> IF InMap(c) THEN "yes" ELSE "absent"]
        /\ pc' = "input"
        /\ UNCHANGED <<wire, link, back, messageList, delivered, server, published>>
      BY <1>5 DEF Update, serverVars, history
  <2>2. subscribed' \in [Channels -> {"absent", "no", "yes"}]
      BY <2>1
  <2>3. unsent' \in Queues
      BY <1>5, UpdateIs
  <2>. QED
      BY <1>1, <2>1, <2>2, <2>3 DEF Types
<1>6. CASE TimesOut
  <2>1. /\ pc' = "idle"
        /\ UNCHANGED <<subscribed, wire, link, back, messageList, delivered, server, published>>
      BY <1>6 DEF TimesOut, serverVars
  <2>2. unsent' \in Queues
      BY <1>6, TimesOutIs
  <2>. QED
      BY <1>1, <2>1, <2>2 DEF Types
<1>7. ASSUME NEW x \in Clients, ConnectFails(x) PROVE Types'
  <2>1. /\ \E called : ~called /\ pc' = After(called)
        /\ UNCHANGED <<subscribed, unsent, wire, link, back, messageList, delivered, server,
                       published>>
      BY <1>7 DEF ConnectFails, clientVars, serverVars, history
  <2>2. pc' \in {"idle", "input", "output", "sync"}
      BY <1>1, <2>1, AfterIs
  <2>. QED
      BY <1>1, <2>1, <2>2 DEF Types
<1>8. ASSUME NEW x \in Clients, LoseConnection(x) PROVE Types'
  <2>1. /\ \E called : ~called /\ pc' = After(called)
        /\ link' = [link EXCEPT ![x] = "none"]
        /\ UNCHANGED <<subscribed, unsent, wire, back, messageList, delivered, server, published>>
      BY <1>8 DEF LoseConnection, serverVars, history
  <2>2. link' \in [Clients -> {"none", "up", "closed", "broken"}]
      BY <1>1, <2>1
  <2>3. pc' \in {"idle", "input", "output", "sync"}
      BY <1>1, <2>1, AfterIs
  <2>. QED
      BY <1>1, <2>1, <2>2, <2>3 DEF Types
<1>9. ASSUME NEW x \in Clients, ClientUpdate(x) PROVE Types'
  <2>1. /\ \E called : pc' = After(called)
        /\ link' = [link EXCEPT ![x] = "up"]
        /\ UNCHANGED <<back, server, published>>
      BY <1>9 DEF ClientUpdate
  <2>2. link' \in [Clients -> {"none", "up", "closed", "broken"}]
      BY <1>1, <2>1
  <2>3. subscribed' \in [Channels -> {"absent", "no", "yes"}]
    <3>1. Resubscribe \in [Channels -> {"absent", "no", "yes"}]
        BY DEF Resubscribe
    <3>. QED
        BY <1>1, <1>9, <3>1 DEF ClientUpdate
  <2>4. unsent' \in Queues /\ wire' \in Queues
      BY <1>9, ClientUpdateIs DEF Instead
  <2>5. \/ delivered' = delivered \o Dispatch(messageList) /\ messageList' = <<>>
        \/ delivered' = delivered /\ messageList' = messageList
      BY <1>9 DEF ClientUpdate, Callbacks
  <2>6. delivered \o Dispatch(messageList) \in Seq(Messages)
    <3>1. PICK d \in Seq(Messages) : d = Dispatch(messageList)
        BY <1>1, DispatchKeeps
    <3>. QED
        BY <1>1, <3>1, ConcatProperties
  <2>7. delivered' \in Seq(Messages) /\ messageList' \in Seq(Messages)
      BY <1>1, <2>5, <2>6, EmptyMessages
  <2>8. pc' \in {"idle", "input", "output", "sync"}
      BY <1>1, <2>1, AfterIs
  <2>. QED
      BY <1>1, <2>1, <2>2, <2>3, <2>4, <2>7, <2>8 DEF Types
<1>10. ASSUME NEW x \in Clients, Read(x) PROVE Types'
  <2>1. UNCHANGED <<pc, subscribed, unsent, wire, link, delivered, server, published>>
      BY <1>10 DEF Read, history
  <2>2. /\ back' \in [Clients -> Seq(Pushed)] /\ back'["output"] \in Seq({Reply})
        /\ messageList' \in Seq(Messages)
      BY <1>10, ReadIs
  <2>. QED
      BY <1>1, <2>1, <2>2 DEF Types
<1>11. ASSUME NEW x \in Clients, Serve(x) PROVE Types'
  <2>1. UNCHANGED <<pc, subscribed, link, messageList, delivered, published>>
      BY <1>11 DEF Serve, clientVars, history
  <2>2. /\ unsent' \in Queues /\ wire' \in Queues
        /\ back' \in [Clients -> Seq(Pushed)] /\ back'["output"] \in Seq({Reply})
      BY <1>11, ServeIs DEF Instead
  <2>3. server' \subseteq Channels
    <3>1. CASE x = "input"
      <4>1. PICK h \in InputCommands :
                server' = IF h.op = "SUBSCRIBE" THEN server \union {h.channel}
                          ELSE server \ {h.channel}
          BY <1>11, <3>1, ServeIs
      <4>2. h.channel \in Channels
          BY DEF InputCommands
      <4>. QED
          BY <1>1, <4>1, <4>2
    <3>2. CASE x = "output"
      <4>1. server' = server
          BY <1>11, <3>2, ServeIs
      <4>. QED
          BY <1>1, <4>1
    <3>. QED
        BY <3>1, <3>2 DEF Clients
  <2>. QED
      BY <1>1, <2>1, <2>2, <2>3 DEF Types
<1>12. ASSUME NEW x \in Clients, Lose(x) PROVE Types'
  <2>1. /\ link' = [link EXCEPT ![x] = "broken"]
        /\ server' = IF x = "input" THEN {} ELSE server
        /\ UNCHANGED <<pc, subscribed, messageList, delivered, published>>
      BY <1>12 DEF Lose
  <2>2. link' \in [Clients -> {"none", "up", "closed", "broken"}] /\ server' \subseteq Channels
      BY <1>1, <2>1
  <2>3. /\ unsent' \in Queues /\ wire' \in Queues
        /\ back' \in [Clients -> Seq(Pushed)] /\ back'["output"] \in Seq({Reply})
      BY <1>12, LoseIs DEF Instead
  <2>. QED
      BY <1>1, <2>1, <2>2, <2>3 DEF Types
<1>13. ASSUME NEW x \in Clients, ClosedUpdate(x) PROVE Types'
  <2>1. /\ \E called : pc' = After(called)
        /\ UNCHANGED <<subscribed, server, published>>
      BY <1>13 DEF ClosedUpdate
  <2>2. link' \in [Clients -> {"none", "up", "closed", "broken"}]
    <3>1. link' = link \/ link' = [link EXCEPT ![x] = "broken"]
        BY <1>13 DEF ClosedUpdate
    <3>. QED
        BY <1>1, <3>1
  <2>3. /\ unsent' \in Queues /\ wire' \in Queues
        /\ back' \in [Clients -> Seq(Pushed)] /\ back'["output"] \in Seq({Reply})
      BY <1>13, ClosedUpdateIs DEF Instead
  <2>4. \/ delivered' = delivered \o Dispatch(messageList) /\ messageList' = <<>>
        \/ delivered' = delivered /\ messageList' = messageList
      BY <1>13 DEF ClosedUpdate, Callbacks
  <2>5. delivered \o Dispatch(messageList) \in Seq(Messages)
    <3>1. PICK d \in Seq(Messages) : d = Dispatch(messageList)
        BY <1>1, DispatchKeeps
    <3>. QED
        BY <1>1, <3>1, ConcatProperties
  <2>6. delivered' \in Seq(Messages) /\ messageList' \in Seq(Messages)
      BY <1>1, <2>4, <2>5, EmptyMessages
  <2>7. pc' \in {"idle", "input", "output", "sync"}
      BY <1>1, <2>1, AfterIs
  <2>. QED
      BY <1>1, <2>1, <2>2, <2>3, <2>6, <2>7 DEF Types
<1>14. ASSUME NEW x \in Clients, ServerCloses(x) PROVE Types'
  <2>1. /\ link' = [link EXCEPT ![x] = "closed"]
        /\ server' = IF x = "input" THEN {} ELSE server
        /\ UNCHANGED <<pc, subscribed, unsent, wire, back, messageList, delivered, published>>
      BY <1>14 DEF ServerCloses
  <2>2. link' \in [Clients -> {"none", "up", "closed", "broken"}] /\ server' \subseteq Channels
      BY <1>1, <2>1
  <2>. QED
      BY <1>1, <2>1, <2>2 DEF Types
<1>15. CASE UNCHANGED vars
    BY <1>1, <1>15 DEF Types, vars, clientVars, serverVars, history
<1>. QED
    BY <1>2, <1>3, <1>4, <1>5, <1>6, <1>7, <1>8, <1>9, <1>10, <1>11, <1>12, <1>13, <1>14, <1>15
       DEF Next

-----------------------------------------------------------------------------
(* The connection of the input client, and the request that is waited for  *)

\* Where an Update of a client leaves the synchronous request.
LEMMA WaitsOn ==
    ASSUME \E called : ~called /\ pc' = After(called), pc = "sync"
    PROVE  pc' = "sync"
    BY DEF After

\* A connection takes what was on the way, and the subscriptions, with it.
LEMMA LinkStep == Types /\ LinkInv /\ [Next]_vars => LinkInv'
<1>. SUFFICES ASSUME Types, LinkInv, [Next]_vars PROVE LinkInv'
    OBVIOUS
<1>1. link \in [Clients -> {"none", "up", "closed", "broken"}]
    BY DEF Types
<1>2. ASSUME NEW c \in Channels, Subscribe(c) \/ Unsubscribe(c) \/ Publish(c) PROVE LinkInv'
  <2>1. link' = link /\ wire' = wire /\ server' = server
      BY <1>2 DEF Subscribe, Unsubscribe, Publish, clientVars, serverVars
  <2>. QED
      BY <2>1 DEF LinkInv
<1>3. CASE Update \/ TimesOut
  <2>1. link' = link /\ wire' = wire /\ server' = server
      BY <1>3 DEF Update, TimesOut, serverVars
  <2>. QED
      BY <2>1 DEF LinkInv
<1>4. ASSUME NEW x \in Clients, ConnectFails(x) \/ Read(x) PROVE LinkInv'
  <2>1. link' = link /\ wire' = wire /\ server' = server
      BY <1>4 DEF ConnectFails, Read, clientVars, serverVars
  <2>. QED
      BY <2>1 DEF LinkInv
<1>5. ASSUME NEW x \in Clients, LoseConnection(x) PROVE LinkInv'
  <2>1. /\ link[x] = "broken" /\ link' = [link EXCEPT ![x] = "none"]
        /\ wire' = wire /\ server' = server
      BY <1>5 DEF LoseConnection, serverVars
  <2>2. link'["input"] # "up" => link["input"] # "up"
      BY <1>1, <2>1, ClientsAre
  <2>. QED
      BY <2>1, <2>2 DEF LinkInv
<1>6. ASSUME NEW x \in Clients, ClientUpdate(x) PROVE LinkInv'
  <2>1. link' = [link EXCEPT ![x] = "up"] /\ server' = server
      BY <1>6 DEF ClientUpdate
  <2>2. CASE x = "input"
      BY <1>1, <2>1, <2>2, ClientsAre DEF LinkInv
  <2>3. CASE x = "output"
    <3>1. wire'["input"] = wire["input"]
        BY <1>6, <2>3, ClientUpdateIs, ClientsAre DEF Instead
    <3>2. link'["input"] = link["input"]
        BY <1>1, <2>1, <2>3, ClientsAre
    <3>. QED
        BY <2>1, <3>1, <3>2 DEF LinkInv
  <2>. QED
      BY <2>2, <2>3 DEF Clients
<1>7. ASSUME NEW x \in Clients, Serve(x) PROVE LinkInv'
  <2>1. link' = link /\ link[x] = "up"
      BY <1>7 DEF Serve, clientVars
  <2>2. CASE x = "input"
      BY <2>1, <2>2 DEF LinkInv
  <2>3. CASE x = "output"
    <3>1. wire'["input"] = wire["input"]
      <4>1. Instead(x, unsent[x], Tail(wire[x]))
          BY <1>7, ServeIs
      <4>. QED
          BY <2>3, <4>1, ClientsAre DEF Instead
    <3>2. server' = server
        BY <1>7, <2>3, ServeIs
    <3>. QED
        BY <2>1, <3>1, <3>2 DEF LinkInv
  <2>. QED
      BY <2>2, <2>3 DEF Clients
<1>8. ASSUME NEW x \in Clients, Lose(x) PROVE LinkInv'
  <2>1. /\ link' = [link EXCEPT ![x] = "broken"]
        /\ server' = IF x = "input" THEN {} ELSE server
      BY <1>8 DEF Lose
  <2>2. Instead(x, unsent[x], <<>>)
      BY <1>8, LoseIs
  <2>3. CASE x = "input"
      BY <2>1, <2>2, <2>3 DEF LinkInv, Instead
  <2>4. CASE x = "output"
    <3>1. wire'["input"] = wire["input"]
        BY <2>2, <2>4, ClientsAre DEF Instead
    <3>2. link'["input"] = link["input"]
        BY <1>1, <2>1, <2>4, ClientsAre
    <3>. QED
        BY <2>1, <2>4, <3>1, <3>2, ClientsAre DEF LinkInv
  <2>. QED
      BY <2>3, <2>4 DEF Clients
<1>9. ASSUME NEW x \in Clients, ClosedUpdate(x) PROVE LinkInv'
  <2>1. /\ link[x] = "closed" /\ wire' = wire /\ server' = server
        /\ link' = link \/ link' = [link EXCEPT ![x] = "broken"]
      BY <1>9 DEF ClosedUpdate
  <2>2. link'["input"] # "up" => link["input"] # "up"
      BY <1>1, <2>1, ClientsAre
  <2>. QED
      BY <2>1, <2>2 DEF LinkInv
<1>10. ASSUME NEW x \in Clients, ServerCloses(x) PROVE LinkInv'
  <2>1. /\ wire[x] = <<>> /\ wire' = wire /\ link' = [link EXCEPT ![x] = "closed"]
        /\ server' = IF x = "input" THEN {} ELSE server
      BY <1>10 DEF ServerCloses
  <2>2. CASE x = "input"
      BY <2>1, <2>2 DEF LinkInv
  <2>3. CASE x = "output"
    <3>1. link'["input"] = link["input"]
        BY <1>1, <2>1, <2>3, ClientsAre
    <3>. QED
        BY <2>1, <2>3, <3>1, ClientsAre DEF LinkInv
  <2>. QED
      BY <2>2, <2>3 DEF Clients
<1>11. CASE UNCHANGED vars
    BY <1>11 DEF LinkInv, vars, clientVars, serverVars
<1>. QED
    BY <1>2, <1>3, <1>4, <1>5, <1>6, <1>7, <1>8, <1>9, <1>10, <1>11 DEF Next

\* No request in s is waited for.
NoneWaited(s) == \A i \in DOMAIN s : ~s[i].sync

\* Requests in turn.
LEMMA NoneWaitedInTurn ==
    ASSUME NEW s \in Seq(InputCommands), NEW t \in Seq(InputCommands)
    PROVE  NoneWaited(s \o t) <=> NoneWaited(s) /\ NoneWaited(t)
<1>1. PICK st : st = s \o t
    OBVIOUS
<1>2. \A i \in DOMAIN s : i \in DOMAIN st /\ st[i] = s[i]
    BY <1>1, ConcatIs
<1>3. \A i \in DOMAIN t : \E k \in DOMAIN st : st[k] = t[i]
  <2>1. \A i \in DOMAIN t : Len(s) + i \in DOMAIN (s \o t) /\ (s \o t)[Len(s) + i] = t[i]
      BY ConcatIs
  <2>. QED
      BY <1>1, <2>1
<1>4. \A k \in DOMAIN st : k \in DOMAIN s \/ \E i \in DOMAIN t : st[k] = t[i]
  <2>1. \A k \in DOMAIN (s \o t) : k \in DOMAIN s \/ \E i \in DOMAIN t : k = Len(s) + i
      BY ConcatIs
  <2>2. \A i \in DOMAIN t : Len(s) + i \in DOMAIN (s \o t) /\ (s \o t)[Len(s) + i] = t[i]
      BY ConcatIs
  <2>. QED
      BY <1>1, <2>1, <2>2
<1>5. NoneWaited(st) => NoneWaited(s)
    BY <1>2 DEF NoneWaited
<1>6. NoneWaited(st) => NoneWaited(t)
    BY <1>3 DEF NoneWaited
<1>7. NoneWaited(s) /\ NoneWaited(t) => NoneWaited(st)
    BY <1>2, <1>4 DEF NoneWaited
<1>. QED
    BY <1>1, <1>5, <1>6, <1>7

\* Of the requests with one in their midst that is waited for, the others are not.
LEMMA OthersNotWaited ==
    ASSUME NEW y \in Seq(InputCommands), NEW z \in Seq(InputCommands), NEW r \in InputCommands,
           r.sync, <<r>> \in Seq(InputCommands),
           \A i, j \in DOMAIN ((y \o <<r>>) \o z) :
               ((y \o <<r>>) \o z)[i].sync /\ ((y \o <<r>>) \o z)[j].sync => i = j
    PROVE  NoneWaited(y \o z)
<1>1. PICK e \in Seq(InputCommands), n \in Nat :
          e = <<r>> /\ n = Len(y) /\ DOMAIN e = {1} /\ e[1] = r /\ Len(e) = 1
  <2>1. DOMAIN <<r>> = {1} /\ <<r>>[1] = r /\ Len(<<r>>) = 1 /\ Len(y) \in Nat
      BY LenProperties
  <2>. QED
      BY <2>1
<1>2. PICK a \in Seq(InputCommands) : a = y \o e
    BY ConcatProperties
<1>3. PICK u \in Seq(InputCommands) : u = a \o z
    BY ConcatProperties
<1>4. \A i, j \in DOMAIN u : u[i].sync /\ u[j].sync => i = j
    BY <1>1, <1>2, <1>3
<1>5. DOMAIN y = 1 .. n /\ DOMAIN a = 1 .. n + 1 /\ Len(a) = n + 1
  <2>1. DOMAIN y = 1 .. Len(y) /\ DOMAIN (y \o e) = 1 .. Len(y) + Len(e)
      BY ConcatIs
  <2>2. Len(y \o e) = Len(y) + Len(e)
      BY ConcatProperties
  <2>. QED
      BY <1>1, <1>2, <2>1, <2>2
<1>6. n + 1 \in DOMAIN a /\ a[n + 1] = r
  <2>1. \A i \in DOMAIN e : Len(y) + i \in DOMAIN (y \o e) /\ (y \o e)[Len(y) + i] = e[i]
      BY ConcatIs
  <2>. QED
      BY <1>1, <1>2, <2>1
<1>7. \A i \in DOMAIN y : i \in DOMAIN a /\ a[i] = y[i]
    BY <1>2, ConcatIs
<1>8. \A i \in DOMAIN a : i \in DOMAIN u /\ u[i] = a[i]
    BY <1>3, ConcatIs
<1>9. DOMAIN z = 1 .. Len(z)
    BY LenProperties
<1>10. \A i \in DOMAIN z : n + 1 + i \in DOMAIN u /\ u[n + 1 + i] = z[i]
  <2>1. \A i \in DOMAIN z : Len(a) + i \in DOMAIN (a \o z) /\ (a \o z)[Len(a) + i] = z[i]
      BY ConcatIs
  <2>. QED
      BY <1>3, <1>5, <2>1
<1>11. n + 1 \in DOMAIN u /\ u[n + 1].sync
    BY <1>6, <1>8
<1>12. ASSUME NEW i \in DOMAIN y PROVE ~y[i].sync
  <2>1. i \in DOMAIN u /\ u[i] = y[i] /\ i # n + 1
      BY <1>5, <1>7, <1>8
  <2>. QED
      BY <1>4, <1>11, <2>1
<1>13. ASSUME NEW i \in DOMAIN z PROVE ~z[i].sync
  <2>1. n + 1 + i \in DOMAIN u /\ u[n + 1 + i] = z[i] /\ n + 1 + i # n + 1
      BY <1>9, <1>10, LenProperties
  <2>. QED
      BY <1>4, <1>11, <2>1
<1>. QED
    BY <1>12, <1>13, NoneWaitedInTurn DEF NoneWaited

\* One that is waited for after others that are not.
LEMMA LastWaited ==
    ASSUME NEW y \in Seq(InputCommands), NoneWaited(y), NEW r \in InputCommands,
           <<r>> \in Seq(InputCommands)
    PROVE  /\ \A i \in DOMAIN (y \o <<r>>) : (y \o <<r>>)[i].sync => (y \o <<r>>)[i] = r
           /\ \A i, j \in DOMAIN (y \o <<r>>) :
                 (y \o <<r>>)[i].sync /\ (y \o <<r>>)[j].sync => i = j
<1>1. PICK e \in Seq(InputCommands) : e = <<r>> /\ DOMAIN e = {1} /\ e[1] = r
  <2>1. DOMAIN <<r>> = {1} /\ <<r>>[1] = r
      OBVIOUS
  <2>. QED
      BY <2>1
<1>2. PICK u : u = y \o e
    OBVIOUS
<1>3. \A i \in DOMAIN y : u[i] = y[i]
    BY <1>2, ConcatIs
<1>4. u[Len(y) + 1] = r
  <2>1. \A i \in DOMAIN e : (y \o e)[Len(y) + i] = e[i]
      BY ConcatIs
  <2>. QED
      BY <1>1, <1>2, <2>1
<1>5. \A k \in DOMAIN u : k \in DOMAIN y \/ k = Len(y) + 1
  <2>1. \A k \in DOMAIN (y \o e) : k \in DOMAIN y \/ \E i \in DOMAIN e : k = Len(y) + i
      BY ConcatIs
  <2>. QED
      BY <1>1, <1>2, <2>1
<1>6. \A k \in DOMAIN u : u[k].sync => k = Len(y) + 1
    BY <1>3, <1>5 DEF NoneWaited
<1>. QED
    BY <1>1, <1>2, <1>4, <1>6

\* There is one synchronous request at a time, for a channel that was erased.
LEMMA SyncStep == Types /\ SyncInv /\ [Next]_vars => SyncInv'
<1>. SUFFICES ASSUME Types, SyncInv, [Next]_vars PROVE SyncInv'
    OBVIOUS
<1>1. pc # "sync" => NoneWaited(unsent["input"])
    BY DEF SyncInv, NoneWaited
<1>2. NoneWaited(unsent'["input"]) => SyncInv'
    BY DEF SyncInv, NoneWaited
<1>3. ASSUME pc # "sync", unsent'["input"] = unsent["input"] PROVE SyncInv'
    BY <1>1, <1>2, <1>3
<1>4. ASSUME pc = "sync" => pc' = "sync", unsent' = unsent, subscribed' = subscribed PROVE SyncInv'
    BY <1>4 DEF SyncInv, InMap
<1>5. unsent["input"] \in Seq(InputCommands)
    BY InQueues DEF Types
<1>6. ASSUME NEW c \in Channels, Subscribe(c) PROVE SyncInv'
    BY <1>3, <1>6 DEF Subscribe, clientVars
<1>7. ASSUME NEW c \in Channels, Unsubscribe(c) PROVE SyncInv'
  <2>1. PICK r \in InputCommands :
            /\ r.channel = c /\ r.sync /\ <<r>> \in Seq(InputCommands)
            /\ unsent'["input"] = unsent["input"] \o <<r>>
      BY <1>7, UnsubscribeIs
  <2>2. PICK u \in Seq(InputCommands) : u = unsent["input"]
      BY <1>5
  <2>3. pc = "idle" /\ pc' = "sync" /\ subscribed' = [subscribed EXCEPT ![c] = "absent"]
      BY <1>7 DEF Unsubscribe
  <2>4. subscribed'[c] = "absent"
      BY <2>3 DEF Types
  <2>5. NoneWaited(u)
      BY <1>1, <2>2, <2>3
  <2>6. PICK v : v = u \o <<r>> /\ v = unsent'["input"]
      BY <2>1, <2>2
  <2>7. /\ \A i \in DOMAIN v : v[i].sync => v[i] = r
        /\ \A i, j \in DOMAIN v : v[i].sync /\ v[j].sync => i = j
      BY <2>1, <2>5, <2>6, LastWaited
  <2>8. \A i \in DOMAIN v : v[i].sync => subscribed'[v[i].channel] = "absent"
      BY <2>1, <2>4, <2>7
  <2>. QED
      BY <2>3, <2>6, <2>7, <2>8 DEF SyncInv, InMap
<1>8. ASSUME NEW c \in Channels, Publish(c) PROVE SyncInv'
  <2>1. pc = "idle"
      BY <1>8 DEF Publish
  <2>2. unsent'["input"] = unsent["input"]
      BY <1>8, PublishIs
  <2>. QED
      BY <1>3, <2>1, <2>2
<1>9. CASE Update
  <2>1. PICK t \in Seq(InputCommands) :
            unsent'["input"] = unsent["input"] \o t /\ \A i \in DOMAIN t : ~t[i].sync
      BY <1>9, UpdateIs
  <2>2. NoneWaited(unsent["input"]) /\ NoneWaited(t)
      BY <1>1, <1>9, <2>1 DEF Update, NoneWaited
  <2>. QED
      BY <1>2, <1>5, <2>1, <2>2, NoneWaitedInTurn
<1>10. CASE TimesOut
  <2>1. CASE \E r \in InputCommands, y, z \in Seq(InputCommands) :
                 /\ r.sync /\ <<r>> \in Seq(InputCommands)
                 /\ unsent["input"] = (y \o <<r>>) \o z /\ unsent'["input"] = y \o z
    <3>1. PICK r \in InputCommands, y \in Seq(InputCommands), z \in Seq(InputCommands) :
                 /\ r.sync /\ <<r>> \in Seq(InputCommands)
                 /\ unsent["input"] = (y \o <<r>>) \o z /\ unsent'["input"] = y \o z
        BY <2>1
    <3>2. \A i, j \in DOMAIN ((y \o <<r>>) \o z) :
              ((y \o <<r>>) \o z)[i].sync /\ ((y \o <<r>>) \o z)[j].sync => i = j
        BY <3>1 DEF SyncInv
    <3>3. NoneWaited(y \o z)
        BY <3>1, <3>2, OthersNotWaited
    <3>. QED
        BY <1>2, <3>1, <3>3
  <2>2. CASE /\ unsent'["input"] = unsent["input"]
             /\ \A i \in DOMAIN unsent["input"] : ~unsent["input"][i].sync
      BY <1>2, <2>2 DEF NoneWaited
  <2>. QED
      BY <1>10, <2>1, <2>2, TimesOutIs
<1>11. ASSUME NEW x \in Clients, ConnectFails(x) \/ LoseConnection(x) PROVE SyncInv'
  <2>1. unsent' = unsent /\ subscribed' = subscribed /\ \E called : ~called /\ pc' = After(called)
      BY <1>11 DEF ConnectFails, LoseConnection, clientVars
  <2>. QED
      BY <1>4, <2>1, WaitsOn
<1>12. ASSUME NEW x \in Clients, ClientUpdate(x) PROVE SyncInv'
  <2>1. Instead(x, <<>>, wire[x] \o unsent[x])
      BY <1>12, ClientUpdateIs
  <2>2. CASE x = "input"
    <3>1. unsent'["input"] = <<>>
        BY <2>1, <2>2 DEF Instead
    <3>. QED
        BY <1>2, <3>1 DEF NoneWaited
  <2>3. CASE x = "output"
    <3>1. unsent'["input"] = unsent["input"]
        BY <2>1, <2>3, ClientsAre DEF Instead
    <3>2. pc # "sync"
        BY <1>12, <2>3 DEF ClientUpdate, Turn
    <3>. QED
        BY <1>3, <3>1, <3>2
  <2>. QED
      BY <2>2, <2>3 DEF Clients
<1>13. ASSUME NEW x \in Clients, Read(x) \/ Serve(x) \/ ServerCloses(x) \/ Lose(x)
       PROVE  SyncInv'
  <2>1. unsent' = unsent /\ subscribed' = subscribed /\ pc' = pc
      BY <1>13 DEF Read, Serve, ServerCloses, Lose, clientVars
  <2>. QED
      BY <1>4, <2>1
<1>14. CASE UNCHANGED vars
  <2>1. unsent' = unsent /\ subscribed' = subscribed /\ pc' = pc
      BY <1>14 DEF vars, clientVars
  <2>. QED
      BY <1>4, <2>1
<1>15. ASSUME NEW x \in Clients, ClosedUpdate(x) PROVE SyncInv'
  <2>1. Instead(x, <<>>, wire[x])
      BY <1>15, ClosedUpdateIs
  <2>2. CASE x = "input"
    <3>1. unsent'["input"] = <<>>
        BY <2>1, <2>2 DEF Instead
    <3>. QED
        BY <1>2, <3>1 DEF NoneWaited
  <2>3. CASE x = "output"
    <3>1. unsent'["input"] = unsent["input"]
        BY <2>1, <2>3, ClientsAre DEF Instead
    <3>2. pc # "sync"
        BY <1>15, <2>3 DEF ClosedUpdate, Turn
    <3>. QED
        BY <1>3, <3>1, <3>2
  <2>. QED
      BY <2>2, <2>3 DEF Clients
<1>. QED
    BY <1>6, <1>7, <1>8, <1>9, <1>10, <1>11, <1>12, <1>13, <1>14, <1>15 DEF Next

-----------------------------------------------------------------------------
(* The map and the server                                                  *)

\* Who is silent says nothing.
LEMMA SilentSaysNothing == \A s, c : Silent(s, c) => ~LastSays(s, c)
    BY DEF Silent, LastSays

\* What is queued last decides, if it is about c.
LEMMA QueuedLast ==
    ASSUME NEW u \in Seq(InputCommands), NEW t \in Seq(InputCommands), NEW w, NEW held, NEW c
    PROVE  /\ LastSays(t, c) => Says(u \o t, w, held, c)
           /\ Silent(t, c) => (Says(u \o t, w, held, c) <=> Says(u, w, held, c))
           /\ ~LastSays(t, c) /\ ~Silent(t, c) => ~Says(u \o t, w, held, c)
<1>1. /\ Silent(u \o t, c) <=> Silent(u, c) /\ Silent(t, c)
      /\ LastSays(u \o t, c) <=> LastSays(t, c) \/ (Silent(t, c) /\ LastSays(u, c))
    BY SaidInTurn
<1>2. Silent(t, c) => ~LastSays(t, c)
    BY SilentSaysNothing
<1>. QED
    BY <1>1, <1>2 DEF Says

\* One that is withdrawn says nothing of the other channels.
LEMMA WithdrawnSays ==
    ASSUME NEW y \in Seq(InputCommands), NEW z \in Seq(InputCommands), NEW r \in InputCommands,
           <<r>> \in Seq(InputCommands), NEW c, r.channel # c, NEW w, NEW held
    PROVE  Says((y \o <<r>>) \o z, w, held, c) <=> Says(y \o z, w, held, c)
<1>1. PICK e \in Seq(InputCommands) : e = <<r>> /\ Silent(e, c)
    BY SaidOnce
<1>2. PICK a \in Seq(InputCommands) : a = y \o e
    BY ConcatProperties
<1>3. /\ Silent(a, c) <=> Silent(y, c) /\ Silent(e, c)
      /\ LastSays(a, c) <=> LastSays(e, c) \/ (Silent(e, c) /\ LastSays(y, c))
    BY <1>2, SaidInTurn
<1>4. /\ Silent(a \o z, c) <=> Silent(a, c) /\ Silent(z, c)
      /\ LastSays(a \o z, c) <=> LastSays(z, c) \/ (Silent(z, c) /\ LastSays(a, c))
    BY SaidInTurn
<1>5. /\ Silent(y \o z, c) <=> Silent(y, c) /\ Silent(z, c)
      /\ LastSays(y \o z, c) <=> LastSays(z, c) \/ (Silent(z, c) /\ LastSays(y, c))
    BY SaidInTurn
<1>6. ~LastSays(e, c)
    BY <1>1, SilentSaysNothing
<1>7. Says(a \o z, w, held, c) <=> Says(y \o z, w, held, c)
    BY <1>1, <1>3, <1>4, <1>5, <1>6 DEF Says
<1>. QED
    BY <1>1, <1>2, <1>7

\* What is sent is on the wire.
LEMMA SentSays ==
    ASSUME NEW u \in Seq(InputCommands), NEW w \in Seq(InputCommands), NEW held, NEW c
    PROVE  Says(<<>>, w \o u, held, c) <=> Says(u, w, held, c)
<1>1. /\ Silent(w \o u, c) <=> Silent(w, c) /\ Silent(u, c)
      /\ LastSays(w \o u, c) <=> LastSays(u, c) \/ (Silent(u, c) /\ LastSays(w, c))
    BY SaidInTurn
<1>. QED
    BY <1>1, NothingSaid DEF Says

\* What the server takes from the wire it holds, or does not.
LEMMA ServedSays ==
    ASSUME NEW u, NEW h \in InputCommands, <<h>> \in Seq(InputCommands),
           NEW z \in Seq(InputCommands), NEW held, NEW next, NEW c,
           next = IF h.op = "SUBSCRIBE" THEN held \union {h.channel} ELSE held \ {h.channel}
    PROVE  Says(u, <<h>> \o z, held, c) <=> Says(u, z, next, c)
<1>1. PICK e \in Seq(InputCommands) :
          /\ e = <<h>>
          /\ Silent(e, c) <=> h.channel # c
          /\ LastSays(e, c) <=> h.channel = c /\ h.op = "SUBSCRIBE"
  <2>1. /\ Silent(<<h>>, c) <=> h.channel # c
        /\ LastSays(<<h>>, c) <=> h.channel = c /\ h.op = "SUBSCRIBE"
      BY SaidOnce
  <2>. QED
      BY <2>1
<1>2. /\ Silent(e \o z, c) <=> Silent(e, c) /\ Silent(z, c)
      /\ LastSays(e \o z, c) <=> LastSays(z, c) \/ (Silent(z, c) /\ LastSays(e, c))
    BY SaidInTurn
<1>3. c \in next <=> IF h.channel = c THEN h.op = "SUBSCRIBE" ELSE c \in held
    OBVIOUS
<1>4. Says(u, e \o z, held, c) <=> Says(u, z, next, c)
    BY <1>1, <1>2, <1>3 DEF Says
<1>. QED
    BY <1>1, <1>4

\* Every step keeps the agreement: the last command for a channel that is queued, on the
\* wire or executed is the one that its flag calls for.
LEMMA AgreeStep == MapInv /\ Types' /\ [Next]_vars => AgreeInv'
<1>. SUFFICES ASSUME MapInv, Types', [Next]_vars PROVE AgreeInv'
    OBVIOUS
<1>1. Types /\ LinkInv /\ SyncInv /\ AgreeInv
    BY DEF MapInv
<1>. DEFINE Is(c) == Says(unsent["input"], wire["input"], server, c)
            WillBeSo(c) == Says(unsent'["input"], wire'["input"], server', c)
<1>2. /\ unsent["input"] \in Seq(InputCommands) /\ wire["input"] \in Seq(InputCommands)
      /\ unsent'["input"] \in Seq(InputCommands) /\ wire'["input"] \in Seq(InputCommands)
  <2>1. unsent \in Queues /\ wire \in Queues /\ unsent' \in Queues /\ wire' \in Queues
      BY <1>1 DEF Types
  <2>. QED
      BY <2>1, InQueues
<1>3. \A c \in Channels : /\ subscribed[c] = "yes" /\ link["input"] = "up" => Is(c)
                          /\ ~InMap(c) /\ c \notin withdrawn => ~Is(c)
    BY <1>1, <1>2, WillBeIs DEF AgreeInv
<1>. DEFINE Good(c) == /\ subscribed'[c] = "yes" /\ link'["input"] = "up" => WillBeSo(c)
                       /\ subscribed'[c] = "absent" /\ c \notin withdrawn' => ~WillBeSo(c)
<1>4. SUFFICES \A c \in Channels : Good(c)
    BY <1>2, WillBeNext DEF AgreeInv, InMap
<1>5. ASSUME NEW c \in Channels, WillBeSo(c) <=> Is(c),
             \/ subscribed'[c] = subscribed[c]
             \/ subscribed'[c] = "no" /\ subscribed[c] # "absent",
             link'["input"] = "up" /\ subscribed'[c] = "yes" => link["input"] = "up",
             withdrawn' = withdrawn
      PROVE  Good(c)
    BY <1>3, <1>5 DEF InMap
<1>6. ASSUME subscribed' = subscribed,
             link' = link \/ \E x \in Clients : link' = [link EXCEPT ![x] = "none"],
             withdrawn' = withdrawn, unsent'["input"] = unsent["input"],
             wire'["input"] = wire["input"], server' = server, NEW c \in Channels
      PROVE  Good(c)
  <2>1. WillBeSo(c) <=> Is(c)
      BY <1>6
  <2>2. link'["input"] = "up" => link["input"] = "up"
      BY <1>1, <1>6, ClientsAre DEF Types
  <2>. QED
      BY <1>5, <1>6, <2>1, <2>2
<1>. HIDE DEF Is, WillBeSo
<1>7. ASSUME NEW d \in Channels, Subscribe(d), NEW c \in Channels PROVE Good(c)
  <2>1. /\ subscribed' = [subscribed EXCEPT ![d] = "no"] /\ withdrawn' = withdrawn \ {d}
        /\ link' = link /\ unsent' = unsent /\ wire' = wire /\ server' = server
      BY <1>7 DEF Subscribe, clientVars, serverVars
  <2>2. WillBeSo(c) <=> Is(c)
      BY <2>1 DEF Is, WillBeSo
  <2>3. CASE c = d
    <3>1. subscribed'[c] = "no"
        BY <1>1, <2>1, <2>3 DEF Types
    <3>. QED
        BY <3>1
  <2>4. CASE c # d
    <3>1. subscribed'[c] = subscribed[c] /\ (c \in withdrawn' <=> c \in withdrawn)
        BY <1>1, <2>1, <2>4 DEF Types
    <3>. QED
        BY <1>3, <2>1, <2>2, <3>1 DEF InMap
  <2>. QED
      BY <2>3, <2>4
<1>8. ASSUME NEW d \in Channels, Unsubscribe(d), NEW c \in Channels PROVE Good(c)
  <2>1. /\ subscribed' = [subscribed EXCEPT ![d] = "absent"] /\ withdrawn' = withdrawn
        /\ link' = link /\ wire' = wire /\ server' = server
      BY <1>8 DEF Unsubscribe, serverVars
  <2>2. PICK r \in InputCommands :
            /\ r.channel = d /\ r.op = "UNSUBSCRIBE" /\ <<r>> \in Seq(InputCommands)
            /\ unsent'["input"] = unsent["input"] \o <<r>>
      BY <1>1, <1>8, UnsubscribeIs
  <2>3. Silent(<<r>>, c) <=> d # c
      BY <2>2, SaidOnce
  <2>4. ~LastSays(<<r>>, c)
      BY <2>2, SaidOnce
  <2>5. PICK t \in Seq(InputCommands), u \in Seq(InputCommands) : t = <<r>> /\ u = unsent["input"]
      BY <1>2, <2>2
  <2>6. /\ Silent(t, c) => (Says(u \o t, wire["input"], server, c)
                                <=> Says(u, wire["input"], server, c))
        /\ ~LastSays(t, c) /\ ~Silent(t, c) => ~Says(u \o t, wire["input"], server, c)
      BY QueuedLast
  <2>7. CASE c = d
    <3>1. subscribed'[c] = "absent"
        BY <1>1, <2>1, <2>7 DEF Types
    <3>2. ~WillBeSo(c)
        BY <2>1, <2>2, <2>3, <2>4, <2>5, <2>6, <2>7 DEF WillBeSo
    <3>. QED
        BY <3>1, <3>2
  <2>8. CASE c # d
    <3>1. subscribed'[c] = subscribed[c]
        BY <1>1, <2>1, <2>8 DEF Types
    <3>2. WillBeSo(c) <=> Is(c)
        BY <2>1, <2>2, <2>3, <2>5, <2>6, <2>8 DEF Is, WillBeSo
    <3>. QED
        BY <1>5, <2>1, <3>1, <3>2
  <2>. QED
      BY <2>7, <2>8
<1>9. ASSUME NEW d \in Channels, Publish(d), NEW c \in Channels PROVE Good(c)
  <2>1. /\ subscribed' = subscribed /\ link' = link /\ withdrawn' = withdrawn
        /\ wire' = wire /\ server' = server
      BY <1>9 DEF Publish, serverVars
  <2>2. unsent'["input"] = unsent["input"]
      BY <1>1, <1>9, PublishIs
  <2>. QED
      BY <1>6, <2>1, <2>2
<1>10. ASSUME Update, NEW c \in Channels PROVE Good(c)
  <2>1. /\ subscribed' = [d \in Channels |-> IF InMap(d) THEN "yes" ELSE "absent"]
        /\ withdrawn' = withdrawn /\ link' = link /\ wire' = wire /\ server' = server
      BY <1>10 DEF Update, serverVars, history
  <2>2. PICK t \in Seq(InputCommands) :
            /\ unsent'["input"] = unsent["input"] \o t
            /\ \A d \in Channels : IF subscribed[d] = "no" THEN LastSays(t, d) ELSE Silent(t, d)
      BY <1>1, <1>10, UpdateIs
  <2>3. PICK u \in Seq(InputCommands) : u = unsent["input"]
      BY <1>2
  <2>4. /\ LastSays(t, c) => Says(u \o t, wire["input"], server, c)
        /\ Silent(t, c) => (Says(u \o t, wire["input"], server, c)
                                <=> Says(u, wire["input"], server, c))
      BY QueuedLast
  <2>5. CASE subscribed[c] = "no"
    <3>1. subscribed'[c] = "yes"
        BY <2>1, <2>5 DEF InMap
    <3>2. WillBeSo(c)
        BY <2>1, <2>2, <2>3, <2>4, <2>5 DEF WillBeSo
    <3>. QED
        BY <3>1, <3>2
  <2>6. CASE subscribed[c] # "no"
    <3>1. subscribed'[c] = subscribed[c]
      <4>1. subscribed[c] \in {"absent", "no", "yes"}
          BY <1>1 DEF Types
      <4>. QED
          BY <2>1, <2>6, <4>1 DEF InMap
    <3>2. WillBeSo(c) <=> Is(c)
        BY <2>1, <2>2, <2>3, <2>4, <2>6 DEF Is, WillBeSo
    <3>. QED
        BY <1>5, <2>1, <3>1, <3>2
  <2>. QED
      BY <2>5, <2>6
<1>11. ASSUME TimesOut, NEW c \in Channels PROVE Good(c)
  <2>1. subscribed' = subscribed /\ link' = link /\ wire' = wire /\ server' = server
      BY <1>11 DEF TimesOut, serverVars
  <2>2. CASE \E r \in InputCommands, y, z \in Seq(InputCommands) :
                 /\ r.sync /\ withdrawn' = withdrawn \union {r.channel}
                 /\ <<r>> \in Seq(InputCommands)
                 /\ unsent["input"] = (y \o <<r>>) \o z /\ unsent'["input"] = y \o z
    <3>1. PICK r \in InputCommands, y \in Seq(InputCommands), z \in Seq(InputCommands) :
                 /\ withdrawn' = withdrawn \union {r.channel}
                 /\ <<r>> \in Seq(InputCommands)
                 /\ unsent["input"] = (y \o <<r>>) \o z /\ unsent'["input"] = y \o z
                 /\ r.sync
        BY <2>2
    <3>2. CASE r.channel # c
      <4>1. WillBeSo(c) <=> Is(c)
          BY <2>1, <3>1, <3>2, WithdrawnSays DEF Is, WillBeSo
      <4>2. c \in withdrawn' <=> c \in withdrawn
          BY <3>1, <3>2
      <4>. QED
          BY <1>3, <2>1, <4>1, <4>2 DEF InMap
    <3>3. CASE r.channel = c
      <4>1. \E i \in DOMAIN unsent["input"] : unsent["input"][i] = r
        <5>1. \E i \in DOMAIN (y \o <<r>>) : (y \o <<r>>)[i] = r
          <6>1. \A i \in DOMAIN <<r>> : /\ Len(y) + i \in DOMAIN (y \o <<r>>)
                                        /\ (y \o <<r>>)[Len(y) + i] = <<r>>[i]
              BY <3>1, ConcatIs
          <6>2. 1 \in DOMAIN <<r>> /\ <<r>>[1] = r
              OBVIOUS
          <6>. QED
              BY <6>1, <6>2
        <5>2. PICK a \in Seq(InputCommands) : a = y \o <<r>>
            BY <3>1, ConcatProperties
        <5>3. \A i \in DOMAIN a : i \in DOMAIN (a \o z) /\ (a \o z)[i] = a[i]
            BY ConcatIs
        <5>. QED
            BY <3>1, <5>1, <5>2, <5>3
      <4>2. subscribed[c] = "absent"
          BY <1>1, <3>1, <3>3, <4>1 DEF SyncInv, InMap
      <4>3. c \in withdrawn'
          BY <3>1, <3>3
      <4>. QED
          BY <2>1, <4>2, <4>3
    <3>. QED
        BY <3>2, <3>3
  <2>3. CASE unsent'["input"] = unsent["input"] /\ withdrawn' = withdrawn
      BY <1>6, <2>1, <2>3
  <2>. QED
      BY <1>1, <1>11, <2>2, <2>3, TimesOutIs
<1>12. ASSUME NEW x \in Clients, ConnectFails(x), NEW c \in Channels PROVE Good(c)
  <2>1. /\ subscribed' = subscribed /\ link' = link /\ withdrawn' = withdrawn
        /\ unsent' = unsent /\ wire' = wire /\ server' = server
      BY <1>12 DEF ConnectFails, clientVars, serverVars, history
  <2>. QED
      BY <1>6, <2>1
<1>13. ASSUME NEW x \in Clients, LoseConnection(x), NEW c \in Channels PROVE Good(c)
  <2>1. /\ subscribed' = subscribed /\ link' = [link EXCEPT ![x] = "none"]
        /\ withdrawn' = withdrawn /\ unsent' = unsent /\ wire' = wire /\ server' = server
      BY <1>13 DEF LoseConnection, serverVars, history
  <2>. QED
      BY <1>6, <2>1
<1>14. ASSUME NEW x \in Clients, ClientUpdate(x), NEW c \in Channels PROVE Good(c)
  <2>1. /\ link[x] \in {"none", "up"} /\ link' = [link EXCEPT ![x] = "up"]
        /\ subscribed' = IF link[x] = "none" /\ x = "input" THEN Resubscribe ELSE subscribed
        /\ server' = server /\ withdrawn' = withdrawn
      BY <1>14 DEF ClientUpdate
  <2>2. Instead(x, <<>>, wire[x] \o unsent[x])
      BY <1>1, <1>14, ClientUpdateIs
  <2>3. CASE x = "input"
    <3>1. unsent'["input"] = <<>> /\ wire'["input"] = wire["input"] \o unsent["input"]
        BY <2>2, <2>3 DEF Instead
    <3>2. WillBeSo(c) <=> Is(c)
        BY <1>2, <2>1, <3>1, SentSays DEF Is, WillBeSo
    <3>3. CASE link["input"] = "none"
      <4>1. subscribed'[c] = IF subscribed[c] # "absent" THEN "no" ELSE "absent"
          BY <2>1, <2>3, <3>3 DEF Resubscribe, InMap
      <4>. QED
          BY <1>3, <2>1, <3>2, <4>1 DEF InMap
    <3>4. CASE link["input"] = "up"
        BY <1>5, <2>1, <2>3, <3>2, <3>4
    <3>. QED
        BY <2>1, <2>3, <3>3, <3>4
  <2>4. CASE x = "output"
    <3>1. unsent'["input"] = unsent["input"] /\ wire'["input"] = wire["input"]
        BY <2>2, <2>4, ClientsAre DEF Instead
    <3>2. link'["input"] = link["input"] /\ subscribed' = subscribed
        BY <1>1, <2>1, <2>4, ClientsAre DEF Types
    <3>3. WillBeSo(c) <=> Is(c)
        BY <2>1, <3>1 DEF Is, WillBeSo
    <3>. QED
        BY <1>5, <2>1, <3>2, <3>3
  <2>. QED
      BY <2>3, <2>4 DEF Clients
<1>15. ASSUME NEW x \in Clients, Read(x), NEW c \in Channels PROVE Good(c)
  <2>1. /\ subscribed' = subscribed /\ link' = link /\ withdrawn' = withdrawn
        /\ unsent' = unsent /\ wire' = wire /\ server' = server
      BY <1>15 DEF Read, history
  <2>. QED
      BY <1>6, <2>1
<1>16. ASSUME NEW x \in Clients, Serve(x), NEW c \in Channels PROVE Good(c)
  <2>1. subscribed' = subscribed /\ link' = link /\ withdrawn' = withdrawn /\ unsent' = unsent
      BY <1>16 DEF Serve, clientVars, history
  <2>2. Instead(x, unsent[x], Tail(wire[x]))
      BY <1>1, <1>16, ServeIs
  <2>3. CASE x = "input"
    <3>1. PICK h \in InputCommands, z \in Seq(InputCommands) :
              /\ <<h>> \in Seq(InputCommands) /\ wire[x] = <<h>> \o z /\ z = Tail(wire[x])
              /\ server' = IF h.op = "SUBSCRIBE" THEN server \union {h.channel}
                           ELSE server \ {h.channel}
        BY <1>1, <1>16, <2>3, ServeIs
    <3>2. wire["input"] = <<h>> \o z /\ wire'["input"] = z
        BY <2>2, <2>3, <3>1 DEF Instead
    <3>3. PICK next : next = server'
        OBVIOUS
    <3>4. Says(unsent["input"], <<h>> \o z, server, c) <=> Says(unsent["input"], z, next, c)
        BY <3>1, <3>3, ServedSays
    <3>5. WillBeSo(c) <=> Is(c)
        BY <2>1, <3>2, <3>3, <3>4 DEF Is, WillBeSo
    <3>. QED
        BY <1>5, <2>1, <3>5
  <2>4. CASE x = "output"
    <3>1. wire'["input"] = wire["input"]
        BY <2>2, <2>4, ClientsAre DEF Instead
    <3>2. server' = server
        BY <1>1, <1>16, <2>4, ServeIs
    <3>. QED
        BY <1>6, <2>1, <3>1, <3>2
  <2>. QED
      BY <2>3, <2>4 DEF Clients
<1>17. ASSUME NEW x \in Clients, Lose(x), NEW c \in Channels PROVE Good(c)
  <2>1. /\ subscribed' = subscribed /\ withdrawn' = withdrawn /\ unsent' = unsent
        /\ link' = [link EXCEPT ![x] = "broken"]
        /\ server' = IF x = "input" THEN {} ELSE server
      BY <1>17 DEF Lose
  <2>2. Instead(x, unsent[x], <<>>)
      BY <1>1, <1>17, LoseIs
  <2>3. CASE x = "input"
    <3>1. wire'["input"] = <<>> /\ server' = {}
        BY <2>1, <2>2, <2>3 DEF Instead
    <3>2. link'["input"] # "up"
        BY <1>1, <2>1, <2>3, ClientsAre DEF Types
    <3>3. WillBeSo(c) => Is(c)
        BY <2>1, <3>1, NothingSaid DEF Is, WillBeSo, Says
    <3>. QED
        BY <1>3, <2>1, <3>2, <3>3 DEF InMap
  <2>4. CASE x = "output"
    <3>1. wire'["input"] = wire["input"] /\ server' = server
        BY <2>1, <2>2, <2>4, ClientsAre DEF Instead
    <3>2. link'["input"] = link["input"]
        BY <1>1, <2>1, <2>4, ClientsAre DEF Types
    <3>3. WillBeSo(c) <=> Is(c)
        BY <2>1, <3>1 DEF Is, WillBeSo
    <3>. QED
        BY <1>5, <2>1, <3>2, <3>3
  <2>. QED
      BY <2>3, <2>4 DEF Clients
<1>18. ASSUME UNCHANGED vars, NEW c \in Channels PROVE Good(c)
  <2>1. /\ subscribed' = subscribed /\ link' = link /\ withdrawn' = withdrawn
        /\ unsent' = unsent /\ wire' = wire /\ server' = server
      BY <1>18 DEF vars, clientVars, serverVars, history
  <2>. QED
      BY <1>6, <2>1
<1>19. ASSUME NEW x \in Clients, ClosedUpdate(x), NEW c \in Channels PROVE Good(c)
  <2>1. /\ link[x] = "closed" /\ subscribed' = subscribed /\ withdrawn' = withdrawn
        /\ wire' = wire /\ server' = server
        /\ link' = link \/ link' = [link EXCEPT ![x] = "broken"]
      BY <1>19 DEF ClosedUpdate
  <2>2. Instead(x, <<>>, wire[x])
      BY <1>1, <1>19, ClosedUpdateIs
  <2>3. CASE x = "input"
    <3>1. unsent'["input"] = <<>>
        BY <2>2, <2>3 DEF Instead
    <3>2. link["input"] # "up" /\ link'["input"] # "up"
        BY <1>1, <2>1, <2>3, ClientsAre DEF Types
    <3>3. wire'["input"] = <<>> /\ server' = {}
        BY <1>1, <2>1, <3>2 DEF LinkInv
    <3>4. ~WillBeSo(c)
        BY <3>1, <3>3, NothingSaid DEF WillBeSo, Says
    <3>. QED
        BY <3>2, <3>4
  <2>4. CASE x = "output"
    <3>1. unsent'["input"] = unsent["input"] /\ wire'["input"] = wire["input"]
        BY <2>1, <2>2, <2>4, ClientsAre DEF Instead
    <3>2. link'["input"] = link["input"]
        BY <1>1, <2>1, <2>4, ClientsAre DEF Types
    <3>3. WillBeSo(c) <=> Is(c)
        BY <2>1, <3>1 DEF Is, WillBeSo
    <3>. QED
        BY <1>5, <2>1, <3>2, <3>3
  <2>. QED
      BY <2>3, <2>4 DEF Clients
<1>20. ASSUME NEW x \in Clients, ServerCloses(x), NEW c \in Channels PROVE Good(c)
  <2>1. /\ subscribed' = subscribed /\ withdrawn' = withdrawn /\ unsent' = unsent
        /\ wire[x] = <<>> /\ wire' = wire /\ link' = [link EXCEPT ![x] = "closed"]
        /\ server' = IF x = "input" THEN {} ELSE server
      BY <1>20 DEF ServerCloses
  <2>2. CASE x = "input"
    <3>1. wire'["input"] = <<>> /\ server' = {}
        BY <2>1, <2>2
    <3>2. link'["input"] # "up"
        BY <1>1, <2>1, <2>2, ClientsAre DEF Types
    <3>3. WillBeSo(c) => Is(c)
        BY <2>1, <3>1, NothingSaid DEF Is, WillBeSo, Says
    <3>. QED
        BY <1>3, <2>1, <3>2, <3>3 DEF InMap
  <2>3. CASE x = "output"
    <3>1. wire'["input"] = wire["input"] /\ server' = server
        BY <2>1, <2>3, ClientsAre
    <3>2. link'["input"] = link["input"]
        BY <1>1, <2>1, <2>3, ClientsAre DEF Types
    <3>3. WillBeSo(c) <=> Is(c)
        BY <2>1, <3>1 DEF Is, WillBeSo
    <3>. QED
        BY <1>5, <2>1, <3>2, <3>3
  <2>. QED
      BY <2>2, <2>3 DEF Clients
<1>. HIDE DEF Good
<1>. QED
    BY <1>7, <1>8, <1>9, <1>10, <1>11, <1>12, <1>13, <1>14, <1>15, <1>16, <1>17, <1>18, <1>19,
       <1>20
       DEF Next

\* At the start the map and the server are empty.
LEMMA MapStart == Init => MapInv
<1>. SUFFICES ASSUME Init PROVE MapInv
    OBVIOUS
<1>1. Types
    BY TypesInit
<1>2. /\ unsent["input"] = <<>> /\ wire["input"] = <<>> /\ server = {}
      /\ link["input"] = "none" /\ \A c \in Channels : subscribed[c] = "absent"
    BY ClientsAre DEF Init
<1>3. LinkInv /\ SyncInv
    BY <1>2 DEF LinkInv, SyncInv
<1>4. ASSUME NEW c \in Channels PROVE ~WillBe(c)
    BY <1>2, EmptyQueues, NothingSaid, WillBeIs DEF Says
<1>5. AgreeInv
    BY <1>2, <1>4 DEF AgreeInv
<1>. QED
    BY <1>1, <1>3, <1>5 DEF MapInv

\* The map and the server agree, up to the commands on their way: what Subscribe,
\* Unsubscribe, Update and a new connection do to the flags keeps up with what is sent,
\* lost and withdrawn.
THEOREM AgreeCorrect == Spec => []MapAgreesWithServer
<1>1. Init => MapInv
    BY MapStart
<1>2. MapInv /\ [Next]_vars => MapInv'
    BY TypesStep, LinkStep, SyncStep, AgreeStep DEF MapInv
<1>3. MapInv => MapAgreesWithServer
    BY DEF MapInv, AgreeInv, MapAgreesWithServer
<1>. QED
    BY <1>1, <1>2, <1>3, PTL DEF Spec

-----------------------------------------------------------------------------
(* The order of the messages                                               *)

\* Of two sequences in turn.
LEMMA InTurn ==
    ASSUME NEW S, NEW s \in Seq(S), NEW t \in Seq(S)
    PROVE  /\ Rising(s \o t) <=> Rising(s) /\ Rising(t) /\ Before(s, t)
           /\ \A x : /\ Before(s \o t, x) <=> Before(s, x) /\ Before(t, x)
                     /\ Before(x, s \o t) <=> Before(x, s) /\ Before(x, t)
           /\ \A n : UpTo(s \o t, n) <=> UpTo(s, n) /\ UpTo(t, n)
<1>1. Rising(s \o t) <=> Rising(s) /\ Rising(t) /\ Before(s, t)
    BY RisingInTurn
<1>2. ASSUME NEW x PROVE /\ Before(s \o t, x) <=> Before(s, x) /\ Before(t, x)
                         /\ Before(x, s \o t) <=> Before(x, s) /\ Before(x, t)
    BY BeforeInTurn
<1>3. ASSUME NEW n PROVE UpTo(s \o t, n) <=> UpTo(s, n) /\ UpTo(t, n)
    BY UpToInTurn
<1>. QED
    BY <1>1, <1>2, <1>3

\* What is dispatched goes from the list to what was delivered.
LEMMA DeliverFlows ==
    ASSUME NEW d \in Seq(Messages), NEW m \in Seq(Messages), NEW b, NEW w, NEW u, NEW n,
           Flows(d, m, b, w, u, n)
    PROVE  Flows(d \o Dispatch(m), <<>>, b, w, u, n)
<1>1. PICK t \in Seq(Messages) :
          /\ t = Dispatch(m)
          /\ Rising(m) => Rising(t)
          /\ \A x : /\ Before(m, x) => Before(t, x)
                    /\ Before(x, m) => Before(x, t)
          /\ \A k : UpTo(m, k) => UpTo(t, k)
    BY DispatchInOrder
<1>2. PICK a : a = d \o t
    OBVIOUS
<1>3. /\ Rising(a) <=> Rising(d) /\ Rising(t) /\ Before(d, t)
      /\ \A x : /\ Before(a, x) <=> Before(d, x) /\ Before(t, x)
                /\ Before(x, a) <=> Before(x, d) /\ Before(x, t)
      /\ \A k : UpTo(a, k) <=> UpTo(d, k) /\ UpTo(t, k)
    BY <1>2, InTurn
<1>4. Flows(a, <<>>, b, w, u, n)
    BY <1>1, <1>3, NoneInOrder DEF Flows
<1>. QED
    BY <1>1, <1>2, <1>4

\* The commands that are sent go to the wire.
LEMMA SendFlows ==
    ASSUME NEW w \in Seq(OutputCommands), NEW u \in Seq(OutputCommands),
           NEW d, NEW m, NEW b, NEW n, Flows(d, m, b, w, u, n)
    PROVE  Flows(d, m, b, w \o u, <<>>, n)
<1>1. PICK a : a = w \o u
    OBVIOUS
<1>2. /\ Rising(a) <=> Rising(w) /\ Rising(u) /\ Before(w, u)
      /\ \A x : /\ Before(a, x) <=> Before(w, x) /\ Before(u, x)
                /\ Before(x, a) <=> Before(x, w) /\ Before(x, u)
      /\ \A k : UpTo(a, k) <=> UpTo(w, k) /\ UpTo(u, k)
    BY <1>1, InTurn
<1>3. Flows(d, m, b, a, <<>>, n)
    BY <1>2, NoneInOrder DEF Flows
<1>. QED
    BY <1>1, <1>3

\* What was under way is lost.
LEMMA LoseFlows ==
    ASSUME NEW d, NEW m, NEW b, NEW w, NEW u, NEW n, Flows(d, m, b, w, u, n)
    PROVE  /\ Flows(d, m, <<>>, w, u, n) /\ Flows(d, m, b, <<>>, u, n)
           /\ Flows(d, m, b, w, <<>>, n)
    BY NoneInOrder DEF Flows

\* The first of what was sent back is dropped, or goes to the message list.
LEMMA ReadFlows ==
    ASSUME NEW m \in Seq(Messages), NEW e, NEW z \in Seq(Pushed), <<e>> \in Seq(Pushed),
           NEW d, NEW w, NEW u, NEW n, Flows(d, m, <<e>> \o z, w, u, n)
    PROVE  /\ Flows(d, m, z, w, u, n)
           /\ <<e>> \in Seq(Messages) => Flows(d, m \o <<e>>, z, w, u, n)
<1>1. PICK t \in Seq(Pushed) : t = <<e>>
    OBVIOUS
<1>2. PICK b : b = t \o z
    OBVIOUS
<1>3. /\ Rising(b) <=> Rising(t) /\ Rising(z) /\ Before(t, z)
      /\ \A x : /\ Before(b, x) <=> Before(t, x) /\ Before(z, x)
                /\ Before(x, b) <=> Before(x, t) /\ Before(x, z)
      /\ \A k : UpTo(b, k) <=> UpTo(t, k) /\ UpTo(z, k)
    BY <1>2, InTurn
<1>4. Flows(d, m, b, w, u, n)
    BY <1>1, <1>2
<1>5. Flows(d, m, z, w, u, n)
    BY <1>3, <1>4 DEF Flows
<1>6. ASSUME t \in Seq(Messages) PROVE Flows(d, m \o t, z, w, u, n)
  <2>1. PICK a : a = m \o t
      OBVIOUS
  <2>2. /\ Rising(a) <=> Rising(m) /\ Rising(t) /\ Before(m, t)
        /\ \A x : /\ Before(a, x) <=> Before(m, x) /\ Before(t, x)
                  /\ Before(x, a) <=> Before(x, m) /\ Before(x, t)
        /\ \A k : UpTo(a, k) <=> UpTo(m, k) /\ UpTo(t, k)
      BY <1>6, <2>1, InTurn
  <2>3. Flows(d, a, z, w, u, n)
      BY <1>3, <1>4, <2>2 DEF Flows
  <2>. QED
      BY <2>1, <2>3
<1>. QED
    BY <1>1, <1>5, <1>6

\* A message stands where its command stood.
LEMMA Replaced ==
    ASSUME NEW g, NEW h, g.id = h.id, h.op # "reply"
    PROVE  /\ Rising(<<g>>)
           /\ \A x : /\ Before(<<h>>, x) => Before(<<g>>, x)
                     /\ Before(x, <<h>>) => Before(x, <<g>>)
           /\ \A n : UpTo(<<h>>, n) => UpTo(<<g>>, n)
<1>1. PICK s, t : /\ s = <<g>> /\ Rising(s) /\ DOMAIN s = {1} /\ s[1] = g
                  /\ t = <<h>> /\ DOMAIN t = {1} /\ t[1] = h
    BY OneInOrder
<1>2. \A x : Before(t, x) => Before(s, x)
    BY <1>1 DEF Before
<1>3. \A x : Before(x, t) => Before(x, s)
    BY <1>1 DEF Before
<1>4. \A n : UpTo(t, n) => UpTo(s, n)
    BY <1>1 DEF UpTo
<1>. QED
    BY <1>1, <1>2, <1>3, <1>4

\* The server takes a command: it pushes its message, or not.
LEMMA ServeFlows ==
    ASSUME NEW b \in Seq(Pushed), NEW h, NEW z \in Seq(OutputCommands), h.op # "reply",
           <<h>> \in Seq(OutputCommands), NEW g, g.id = h.id,
           NEW d, NEW m, NEW u, NEW n, Flows(d, m, b, <<h>> \o z, u, n)
    PROVE  /\ Flows(d, m, b, z, u, n)
           /\ <<g>> \in Seq(Pushed) => Flows(d, m, b \o <<g>>, z, u, n)
<1>1. PICK s : s = <<g>>
    OBVIOUS
<1>2. PICK t \in Seq(OutputCommands) :
          /\ t = <<h>> /\ Rising(s)
          /\ \A x : /\ Before(t, x) => Before(s, x)
                    /\ Before(x, t) => Before(x, s)
          /\ \A k : UpTo(t, k) => UpTo(s, k)
    BY <1>1, Replaced
<1>3. PICK w : w = t \o z
    OBVIOUS
<1>4. /\ Rising(w) <=> Rising(t) /\ Rising(z) /\ Before(t, z)
      /\ \A x : /\ Before(w, x) <=> Before(t, x) /\ Before(z, x)
                /\ Before(x, w) <=> Before(x, t) /\ Before(x, z)
      /\ \A k : UpTo(w, k) <=> UpTo(t, k) /\ UpTo(z, k)
    BY <1>3, InTurn
<1>5. Flows(d, m, b, w, u, n)
    BY <1>2, <1>3
<1>6. Flows(d, m, b, z, u, n)
    BY <1>4, <1>5 DEF Flows
<1>7. ASSUME s \in Seq(Pushed) PROVE Flows(d, m, b \o s, z, u, n)
  <2>1. PICK a : a = b \o s
      OBVIOUS
  <2>2. /\ Rising(a) <=> Rising(b) /\ Rising(s) /\ Before(b, s)
        /\ \A x : /\ Before(a, x) <=> Before(b, x) /\ Before(s, x)
                  /\ Before(x, a) <=> Before(x, b) /\ Before(x, s)
        /\ \A k : UpTo(a, k) <=> UpTo(b, k) /\ UpTo(s, k)
      BY <1>7, <2>1, InTurn
  <2>3. Flows(d, m, a, z, u, n)
      BY <1>2, <1>4, <1>5, <2>2 DEF Flows
  <2>. QED
      BY <2>1, <2>3
<1>. QED
    BY <1>1, <1>2, <1>6, <1>7

\* A reply has no place in the order.
LEMMA ReplyFlows ==
    ASSUME NEW b \in Seq(Pushed), NEW d, NEW m, NEW w, NEW u, NEW n \in Nat,
           Flows(d, m, b, w, u, n)
    PROVE  Flows(d, m, b \o <<Reply>>, w, u, n)
<1>1. PICK t \in Seq(Pushed) :
          t = <<Reply>> /\ Rising(t) /\ DOMAIN t = {1} /\ t[1].op = "reply" /\ t[1].id = 0
  <2>1. <<Reply>> \in Seq(Pushed)
      BY DEF Pushed
  <2>2. Rising(<<Reply>>) /\ DOMAIN <<Reply>> = {1} /\ <<Reply>>[1] = Reply
      BY OneInOrder
  <2>. QED
      BY <2>1, <2>2 DEF Reply
<1>2. \A x : Before(t, x) /\ Before(x, t)
    BY <1>1 DEF Before
<1>3. UpTo(t, n)
    BY <1>1 DEF UpTo
<1>4. PICK a : a = b \o t
    OBVIOUS
<1>5. /\ Rising(a) <=> Rising(b) /\ Rising(t) /\ Before(b, t)
      /\ \A x : /\ Before(a, x) <=> Before(b, x) /\ Before(t, x)
                /\ Before(x, a) <=> Before(x, b) /\ Before(x, t)
      /\ \A k : UpTo(a, k) <=> UpTo(b, k) /\ UpTo(t, k)
    BY <1>4, InTurn
<1>6. Flows(d, m, a, w, u, n)
    BY <1>1, <1>2, <1>3, <1>5 DEF Flows
<1>. QED
    BY <1>1, <1>4, <1>6

Numbered(s) == \A i \in DOMAIN s : s[i].id \in Nat

\* Messages, what is sent back and commands have numbers.
LEMMA AreNumbered ==
    /\ \A s \in Seq(Messages) : Numbered(s)
    /\ \A s \in Seq(Pushed) : Numbered(s)
    /\ \A s \in Seq(OutputCommands) : Numbered(s)
<1>1. \A e \in Messages : e.id \in Nat
    BY DEF Messages
<1>2. \A e \in Pushed : e.id \in Nat
    BY <1>1 DEF Pushed, Reply
<1>3. \A e \in OutputCommands : e.id \in Nat
    BY DEF OutputCommands
<1>4. ASSUME NEW s \in Seq(Messages), NEW i \in DOMAIN s PROVE s[i] \in Messages
    BY ElementOfSeq, LenProperties
<1>5. ASSUME NEW s \in Seq(Pushed), NEW i \in DOMAIN s PROVE s[i] \in Pushed
    BY ElementOfSeq, LenProperties
<1>6. ASSUME NEW s \in Seq(OutputCommands), NEW i \in DOMAIN s PROVE s[i] \in OutputCommands
    BY ElementOfSeq, LenProperties
<1>7. \A s \in Seq(Messages) : Numbered(s)
    BY <1>1, <1>4 DEF Numbered
<1>8. \A s \in Seq(Pushed) : Numbered(s)
    BY <1>2, <1>5 DEF Numbered
<1>9. \A s \in Seq(OutputCommands) : Numbered(s)
    BY <1>3, <1>6 DEF Numbered
<1>. QED
    BY <1>7, <1>8, <1>9

\* A message that is published comes after all there are.
LEMMA PublishFlows ==
    ASSUME NEW d \in Seq(Messages), NEW m \in Seq(Messages), NEW b \in Seq(Pushed),
           NEW w \in Seq(OutputCommands), NEW u \in Seq(OutputCommands), NEW n \in Nat,
           NEW r, r.id = n + 1, <<r>> \in Seq(OutputCommands), Flows(d, m, b, w, u, n)
    PROVE  Flows(d, m, b, w, u \o <<r>>, n + 1)
<1>1. PICK t \in Seq(OutputCommands) :
          t = <<r>> /\ Rising(t) /\ DOMAIN t = {1} /\ t[1].id = n + 1
  <2>1. Rising(<<r>>) /\ DOMAIN <<r>> = {1} /\ <<r>>[1] = r
      BY OneInOrder
  <2>. QED
      BY <2>1
<1>2. \A x : Numbered(x) /\ UpTo(x, n) => Before(x, t)
  <2>1. ASSUME NEW x, Numbered(x), UpTo(x, n), NEW i \in DOMAIN x PROVE x[i].id < n + 1
    <3>1. x[i].id \in Nat /\ x[i].id <= n
        BY <2>1 DEF Numbered, UpTo
    <3>. QED
        BY <3>1
  <2>. QED
      BY <1>1, <2>1 DEF Before
<1>3. \A x : Numbered(x) /\ UpTo(x, n) => UpTo(x, n + 1)
  <2>1. ASSUME NEW x, Numbered(x), UpTo(x, n), NEW i \in DOMAIN x PROVE x[i].id <= n + 1
    <3>1. x[i].id \in Nat /\ x[i].id <= n
        BY <2>1 DEF Numbered, UpTo
    <3>. QED
        BY <3>1
  <2>. QED
      BY <2>1 DEF UpTo
<1>4. UpTo(t, n + 1)
    BY <1>1 DEF UpTo
<1>5. Numbered(d) /\ Numbered(m) /\ Numbered(b) /\ Numbered(w) /\ Numbered(u)
    BY AreNumbered
<1>6. PICK a : a = u \o t
    OBVIOUS
<1>7. /\ Rising(a) <=> Rising(u) /\ Rising(t) /\ Before(u, t)
      /\ \A x : /\ Before(a, x) <=> Before(u, x) /\ Before(t, x)
                /\ Before(x, a) <=> Before(x, u) /\ Before(x, t)
      /\ \A k : UpTo(a, k) <=> UpTo(u, k) /\ UpTo(t, k)
    BY <1>6, InTurn
<1>8. Flows(d, m, b, w, a, n + 1)
    BY <1>1, <1>2, <1>3, <1>4, <1>5, <1>7 DEF Flows
<1>. QED
    BY <1>1, <1>6, <1>8

\* Every step keeps the order, from the queue of the output client by the server and the
\* message list to the callbacks.
LEMMA FlowStep == Types /\ FlowInv /\ [Next]_vars => FlowInv'
<1>. SUFFICES ASSUME Types, FlowInv, [Next]_vars PROVE FlowInv'
    OBVIOUS
<1>1. PICK d \in Seq(Messages), m \in Seq(Messages), b \in Seq(Pushed),
           w \in Seq(OutputCommands), u \in Seq(OutputCommands), n \in Nat :
          /\ d = delivered /\ m = messageList /\ b = back["input"]
          /\ w = wire["output"] /\ u = unsent["output"] /\ n = published
  <2>1. /\ delivered \in Seq(Messages) /\ messageList \in Seq(Messages)
        /\ back["input"] \in Seq(Pushed) /\ published \in Nat
      BY ClientsAre DEF Types
  <2>2. wire["output"] \in Seq(OutputCommands) /\ unsent["output"] \in Seq(OutputCommands)
      BY InQueues DEF Types
  <2>. QED
      BY <2>1, <2>2
<1>2. Flows(d, m, b, w, u, n)
    BY <1>1 DEF FlowInv
<1>3. SUFFICES Flows(delivered', messageList', back'["input"], wire'["output"],
                     unsent'["output"], published')
    BY DEF FlowInv
<1>. DEFINE Next5 == Flows(delivered', messageList', back'["input"], wire'["output"],
                           unsent'["output"], published')
<1>4. ASSUME UNCHANGED <<delivered, messageList, back, wire, unsent, published>> PROVE Next5
    BY <1>1, <1>2, <1>4
<1>5. ASSUME NEW c \in Channels, Subscribe(c) PROVE Next5
  <2>1. UNCHANGED <<delivered, messageList, back, wire, unsent, published>>
      BY <1>5 DEF Subscribe, clientVars, serverVars
  <2>. QED
      BY <1>4, <2>1
<1>6. ASSUME NEW c \in Channels, Unsubscribe(c) PROVE Next5
  <2>1. UNCHANGED <<delivered, messageList, back, wire, published>>
      BY <1>6 DEF Unsubscribe, serverVars
  <2>2. unsent'["output"] = unsent["output"]
      BY <1>6, UnsubscribeIs
  <2>. QED
      BY <1>1, <1>2, <2>1, <2>2
<1>7. ASSUME NEW c \in Channels, Publish(c) PROVE Next5
  <2>1. UNCHANGED <<delivered, messageList, back, wire>> /\ published' = n + 1
      BY <1>1, <1>7 DEF Publish, serverVars
  <2>2. PICK r \in OutputCommands :
            /\ r.id = n + 1 /\ <<r>> \in Seq(OutputCommands)
            /\ unsent'["output"] = u \o <<r>>
      BY <1>1, <1>7, PublishIs
  <2>3. Flows(d, m, b, w, u \o <<r>>, n + 1)
      BY <1>2, <2>2, PublishFlows
  <2>. QED
      BY <1>1, <2>1, <2>2, <2>3
<1>8. ASSUME Update PROVE Next5
  <2>1. UNCHANGED <<delivered, messageList, back, wire, published>>
      BY <1>8 DEF Update, serverVars, history
  <2>2. unsent'["output"] = unsent["output"]
      BY <1>8, UpdateIs
  <2>. QED
      BY <1>1, <1>2, <2>1, <2>2
<1>9. ASSUME TimesOut PROVE Next5
  <2>1. UNCHANGED <<delivered, messageList, back, wire, published>>
      BY <1>9 DEF TimesOut, serverVars
  <2>2. unsent'["output"] = unsent["output"]
      BY <1>9, TimesOutIs
  <2>. QED
      BY <1>1, <1>2, <2>1, <2>2
<1>10. ASSUME NEW x \in Clients, ConnectFails(x) \/ LoseConnection(x) PROVE Next5
  <2>1. UNCHANGED <<delivered, messageList, back, wire, unsent, published>>
      BY <1>10 DEF ConnectFails, LoseConnection, clientVars, serverVars, history
  <2>. QED
      BY <1>4, <2>1
<1>11. ASSUME NEW x \in Clients, ClientUpdate(x) PROVE Next5
  <2>1. UNCHANGED <<back, published>>
      BY <1>11 DEF ClientUpdate
  <2>2. Instead(x, <<>>, wire[x] \o unsent[x])
      BY <1>11, ClientUpdateIs
  <2>3. CASE x = "input"
    <3>1. delivered' = d \o Dispatch(m) /\ messageList' = <<>>
        BY <1>1, <1>11, <2>3 DEF ClientUpdate, Callbacks
    <3>2. unsent'["output"] = u /\ wire'["output"] = w
        BY <1>1, <2>2, <2>3, ClientsAre DEF Instead
    <3>3. Flows(d \o Dispatch(m), <<>>, b, w, u, n)
        BY <1>2, DeliverFlows
    <3>. QED
        BY <1>1, <2>1, <3>1, <3>2, <3>3
  <2>4. CASE x = "output"
    <3>1. delivered' = d /\ messageList' = m
        BY <1>1, <1>11, <2>4 DEF ClientUpdate, Callbacks
    <3>2. unsent'["output"] = <<>> /\ wire'["output"] = w \o u
        BY <1>1, <2>2, <2>4 DEF Instead
    <3>3. Flows(d, m, b, w \o u, <<>>, n)
        BY <1>2, SendFlows
    <3>. QED
        BY <1>1, <2>1, <3>1, <3>2, <3>3
  <2>. QED
      BY <2>3, <2>4 DEF Clients
<1>12. ASSUME NEW x \in Clients, Read(x) PROVE Next5
  <2>1. UNCHANGED <<delivered, wire, unsent, published>>
      BY <1>12 DEF Read, history
  <2>2. CASE back'["input"] = back["input"] /\ messageList' = messageList
      BY <1>1, <1>2, <2>1, <2>2
  <2>3. CASE \E e \in Pushed, z \in Seq(Pushed) :
                 /\ <<e>> \in Seq(Pushed) /\ back["input"] = <<e>> \o z /\ back'["input"] = z
                 /\ \/ messageList' = messageList
                    \/ e \in Messages /\ <<e>> \in Seq(Messages)
                       /\ messageList' = messageList \o <<e>>
    <3>1. PICK e \in Pushed, z \in Seq(Pushed) :
                 /\ <<e>> \in Seq(Pushed) /\ b = <<e>> \o z /\ back'["input"] = z
                 /\ \/ messageList' = m
                    \/ <<e>> \in Seq(Messages) /\ messageList' = m \o <<e>>
        BY <1>1, <2>3
    <3>2. Flows(d, m, <<e>> \o z, w, u, n)
        BY <1>2, <3>1
    <3>3. /\ Flows(d, m, z, w, u, n)
          /\ <<e>> \in Seq(Messages) => Flows(d, m \o <<e>>, z, w, u, n)
        BY <3>1, <3>2, ReadFlows
    <3>. QED
        BY <1>1, <2>1, <3>1, <3>3
  <2>. QED
      BY <1>12, <2>2, <2>3, ReadIs
<1>13. ASSUME NEW x \in Clients, Serve(x) PROVE Next5
  <2>1. UNCHANGED <<delivered, messageList, published>>
      BY <1>13 DEF Serve, clientVars, history
  <2>2. Instead(x, unsent[x], Tail(wire[x]))
      BY <1>13, ServeIs
  <2>3. CASE x = "input"
    <3>1. unsent'["output"] = u /\ wire'["output"] = w
        BY <1>1, <2>2, <2>3, ClientsAre DEF Instead
    <3>2. back'["input"] = b \o <<Reply>>
        BY <1>1, <1>13, <2>3, ServeIs
    <3>3. Flows(d, m, b \o <<Reply>>, w, u, n)
        BY <1>2, ReplyFlows
    <3>. QED
        BY <1>1, <2>1, <3>1, <3>2, <3>3
  <2>4. CASE x = "output"
    <3>1. PICK h \in OutputCommands, z \in Seq(OutputCommands) :
              /\ <<h>> \in Seq(OutputCommands) /\ wire[x] = <<h>> \o z /\ z = Tail(wire[x])
              /\ \/ back'["input"] = back["input"]
                 \/ /\ Message(h).id = h.id /\ <<Message(h)>> \in Seq(Pushed)
                    /\ back'["input"] = back["input"] \o <<Message(h)>>
        BY <1>13, <2>4, ServeIs
    <3>2. unsent'["output"] = u /\ wire'["output"] = z /\ w = <<h>> \o z
        BY <1>1, <2>2, <2>4, <3>1 DEF Instead
    <3>3. h.op # "reply"
        BY DEF OutputCommands
    <3>4. PICK g : g = Message(h)
        OBVIOUS
    <3>5. Flows(d, m, b, <<h>> \o z, u, n)
        BY <1>2, <3>2
    <3>6. g.id = h.id => /\ Flows(d, m, b, z, u, n)
                         /\ <<g>> \in Seq(Pushed) => Flows(d, m, b \o <<g>>, z, u, n)
        BY <3>1, <3>3, <3>5, ServeFlows
    <3>7. Message(h).id = h.id
        BY DEF Message
    <3>. QED
        BY <1>1, <2>1, <3>1, <3>2, <3>4, <3>6, <3>7
  <2>. QED
      BY <2>3, <2>4 DEF Clients
<1>14. ASSUME NEW x \in Clients, Lose(x) PROVE Next5
  <2>1. UNCHANGED <<delivered, messageList, published>>
      BY <1>14 DEF Lose
  <2>2. Instead(x, unsent[x], <<>>) /\ back'["input"] = IF x = "input" THEN <<>> ELSE back["input"]
      BY <1>14, LoseIs
  <2>3. Flows(d, m, <<>>, w, u, n) /\ Flows(d, m, b, <<>>, u, n)
      BY <1>2, LoseFlows
  <2>4. CASE x = "input"
    <3>1. unsent'["output"] = u /\ wire'["output"] = w /\ back'["input"] = <<>>
        BY <1>1, <2>2, <2>4, ClientsAre DEF Instead
    <3>. QED
        BY <1>1, <2>1, <2>3, <3>1
  <2>5. CASE x = "output"
    <3>1. unsent'["output"] = u /\ wire'["output"] = <<>> /\ back'["input"] = b
        BY <1>1, <2>2, <2>5, ClientsAre DEF Instead
    <3>. QED
        BY <1>1, <2>1, <2>3, <3>1
  <2>. QED
      BY <2>4, <2>5 DEF Clients
<1>15. ASSUME UNCHANGED vars PROVE Next5
  <2>1. UNCHANGED <<delivered, messageList, back, wire, unsent, published>>
      BY <1>15 DEF vars, clientVars, serverVars, history
  <2>. QED
      BY <1>4, <2>1
<1>16. ASSUME NEW x \in Clients, ClosedUpdate(x) PROVE Next5
  <2>1. published' = n /\ wire' = wire
      BY <1>1, <1>16 DEF ClosedUpdate
  <2>2. /\ Instead(x, <<>>, wire[x])
        /\ back'["input"] = back["input"] \/ (x = "input" /\ back'["input"] = <<>>)
      BY <1>16, ClosedUpdateIs
  <2>3. CASE x = "input"
    <3>1. delivered' = d \o Dispatch(m) /\ messageList' = <<>>
        BY <1>1, <1>16, <2>3 DEF ClosedUpdate, Callbacks
    <3>2. unsent'["output"] = u /\ wire'["output"] = w
        BY <1>1, <2>2, <2>3, ClientsAre DEF Instead
    <3>3. Flows(d \o Dispatch(m), <<>>, b, w, u, n)
        BY <1>2, DeliverFlows
    <3>4. PICK a : a = d \o Dispatch(m)
        OBVIOUS
    <3>5. Flows(a, <<>>, b, w, u, n) /\ Flows(a, <<>>, <<>>, w, u, n)
        BY <3>3, <3>4, LoseFlows
    <3>6. back'["input"] = b \/ back'["input"] = <<>>
        BY <1>1, <2>2
    <3>. QED
        BY <2>1, <3>1, <3>2, <3>4, <3>5, <3>6
  <2>4. CASE x = "output"
    <3>1. delivered' = d /\ messageList' = m
        BY <1>1, <1>16, <2>4 DEF ClosedUpdate, Callbacks
    <3>2. unsent'["output"] = <<>> /\ wire'["output"] = w /\ back'["input"] = b
        BY <1>1, <2>1, <2>2, <2>4 DEF Instead
    <3>3. Flows(d, m, b, w, <<>>, n)
        BY <1>2, LoseFlows
    <3>. QED
        BY <2>1, <3>1, <3>2, <3>3
  <2>. QED
      BY <2>3, <2>4 DEF Clients
<1>17. ASSUME NEW x \in Clients, ServerCloses(x) PROVE Next5
  <2>1. UNCHANGED <<delivered, messageList, back, wire, unsent, published>>
      BY <1>17 DEF ServerCloses
  <2>. QED
      BY <1>4, <2>1
<1>. QED
    BY <1>5, <1>6, <1>7, <1>8, <1>9, <1>10, <1>11, <1>12, <1>13, <1>14, <1>15, <1>16, <1>17
       DEF Next

\* At the start there is no message.
LEMMA FlowStart == Init => FlowInv
<1>. SUFFICES ASSUME Init PROVE FlowInv
    OBVIOUS
<1>1. /\ unsent["output"] = <<>> /\ wire["output"] = <<>> /\ back["input"] = <<>>
      /\ messageList = <<>> /\ delivered = <<>>
    BY ClientsAre DEF Init
<1>. QED
    BY <1>1, NoneInOrder DEF FlowInv, Flows

\* Callbacks are called in the order of Publish, and never twice for one message, although
\* two clients and the server pass the messages on and connections are lost.
THEOREM DeliveredCorrect == Spec => []DeliveredInOrder
<1>1. Init => Types /\ FlowInv
    BY TypesInit, FlowStart
<1>2. (Types /\ FlowInv) /\ [Next]_vars => (Types /\ FlowInv)'
    BY TypesStep, FlowStep
<1>3. Types /\ FlowInv => DeliveredInOrder
  <2>1. ASSUME Types, FlowInv, NEW i \in DOMAIN delivered PROVE delivered[i].op # "reply"
    <3>1. delivered \in Seq(Messages)
        BY <2>1 DEF Types
    <3>2. delivered[i] \in Messages
        BY <3>1, ElementOfSeq, LenProperties
    <3>. QED
        BY <3>2 DEF Messages
  <2>2. FlowInv => Rising(delivered)
      BY DEF FlowInv, Flows
  <2>. QED
      BY <2>1, <2>2 DEF Rising, DeliveredInOrder
<1>. QED
    BY <1>1, <1>2, <1>3, PTL DEF Spec
=============================================================================
