------------------------ MODULE ClusterClientProofs -------------------------
(***************************************************************************)
(* Theorems about ClusterClient, for every cluster, every number of        *)
(* requests, transactions, migrations and lost connections.                *)
(***************************************************************************)
EXTENDS ClusterClient, FunctionTheorems, FiniteSetTheorems, SequenceTheorems,
        WellFoundedInduction, TLAPS

-----------------------------------------------------------------------------
(* The inductive invariants                                                *)

\* A command belongs to a request on the list, which waits for it, or else it is
\* the one query of the configuration.
CommandInv ==
    \A n \in Nodes : \A c \in ToSet(queue[n]) :
        /\ c.kind = "slots" => c.req = -1 /\ state = "pending"
        /\ c.kind # "slots" => c.req \in ToSet(requestList) /\ rstate[c.req] = "pending"

\* No two commands are of the same request.
Single(Q) ==
    \A m, n \in Nodes : \A i \in DOMAIN Q[m], j \in DOMAIN Q[n] :
        Q[m][i].req = Q[n][j].req => m = n /\ i = j

SingleInv == Single(queue)

\* The requests on the list were made, and the one whose callback is running has
\* its answer.
RequestInv ==
    /\ \A r \in ToSet(requestList) : r < made
    /\ \A r \in Ids : r >= made => rstate[r] = None
    /\ pc = "callback" => rstate[cur] = "ready"

\* Commands and slots are at nodes on the list, and a stable configuration has
\* them all.
ConfigInv ==
    /\ \A n \in Nodes : queue[n] # <<>> \/ ranges[n] # {} => Listed(n)
    /\ state = "stable" => \A s \in Slots : \E n \in Nodes : s \in ranges[n]
    /\ Running /\ pc \in {"reduce", "callback"} => state = "stable"

\* What is known of a request says whether a node has run its command.
TruthInv ==
    /\ IsInjective(executed)
    /\ \A n \in Nodes : \A c \in ToSet(queue[n]) :
           /\ c.kind = "run" => (c.reply = "ok" <=> c.req \in ToSet(executed))
           /\ c.kind = "asking" => c.req \notin ToSet(executed)
    /\ \A r \in Ids :
           /\ rstate[r] \in {None, "unsent"} => r \notin ToSet(executed)
           /\ rstate[r] = "ready" => (answer[r].reply = "ok" <=> r \in ToSet(executed))

\* A callback that was called was told the truth, and its request is gone or the
\* callback has not returned.
DeliveredInv ==
    /\ \A i, j \in DOMAIN delivered : delivered[i].req = delivered[j].req => i = j
    /\ \A i \in DOMAIN delivered :
           LET r == delivered[i].req IN
           /\ rstate[r] = "deleted" \/ (pc = "callback" /\ cur = r)
           /\ \/ delivered[i].reply = "ok" /\ r \in ToSet(executed)
              \/ delivered[i].reply = "error" /\ r \notin ToSet(executed)

-----------------------------------------------------------------------------
(* Numbers and lists                                                       *)

LEMMA LeastNat ==
    ASSUME NEW T \in SUBSET Nat, T # {}
    PROVE  \E m \in T : \A k \in T : m <= k
<1>1. IsWellFoundedOn(OpToRel(<, Nat), Nat)
    BY NatLessThanWellFounded
<1>2. PICK m \in T : \A k \in T : ~ (<<k, m>> \in OpToRel(<, Nat))
    BY <1>1, WFMin
<1>3. \A k \in T : ~(k < m)
    BY <1>2 DEF OpToRel
<1>. QED
    BY <1>3

LEMMA Minimum ==
    ASSUME NEW T \in SUBSET Nat, T # {}
    PROVE  Min(T) \in T /\ \A k \in T : Min(T) <= k
    BY LeastNat DEF Min

LEMMA Maximum ==
    ASSUME NEW n \in Nat, NEW T \in SUBSET (1 .. n), T # {}
    PROVE  Max(T) \in T /\ \A k \in T : k <= Max(T)
<1>. DEFINE U == {n - k : k \in T}
<1>1. U \in SUBSET Nat /\ U # {}
  <2>1. \A k \in T : n - k \in Nat
      OBVIOUS
  <2>. QED
      BY <2>1
<1>2. PICK u \in U : \A v \in U : u <= v
    BY <1>1, LeastNat
<1>3. PICK m \in T : u = n - m
    OBVIOUS
<1>4. \A k \in T : k <= m
  <2>1. ASSUME NEW k \in T PROVE k <= m
    <3>1. n - k \in U
        OBVIOUS
    <3>2. n - m <= n - k
        BY <1>2, <1>3, <3>1
    <3>. QED
        BY <3>2
  <2>. QED
      BY <2>1
<1>5. \E m0 \in T : \A k \in T : m0 >= k
    BY <1>4
<1>. QED
    BY <1>5 DEF Max

\* A list that has lost the element at one place.
LEMMA RemovedAt ==
    ASSUME NEW S, NEW s \in Seq(S), NEW i \in DOMAIN s, IsInjective(s)
    PROVE  /\ RemoveAt(s, i) \in Seq(S) /\ IsInjective(RemoveAt(s, i))
           /\ ToSet(RemoveAt(s, i)) = ToSet(s) \ {s[i]}
<1>1. Len(s) \in Nat /\ i \in 1 .. Len(s) /\ DOMAIN s = 1 .. Len(s)
    BY LenProperties
<1>. DEFINE x == SubSeq(s, 1, i - 1)
            y == SubSeq(s, i + 1, Len(s))
<1>2. /\ x \in Seq(S) /\ Len(x) = i - 1 /\ DOMAIN x = 1 .. i - 1
      /\ \A k \in 1 .. i - 1 : x[k] = s[k]
    BY <1>1, ElementOfSeq, SubSeqProperties, LenProperties
<1>3. /\ y \in Seq(S) /\ Len(y) = Len(s) - i /\ DOMAIN y = 1 .. Len(s) - i
      /\ \A k \in 1 .. Len(s) - i : y[k] = s[i + k]
    BY <1>1, ElementOfSeq, SubSeqProperties, LenProperties
<1>. HIDE DEF x, y
<1>4. RemoveAt(s, i) = x \o y
    BY DEF RemoveAt, x, y
<1>5. /\ x \o y \in Seq(S) /\ Len(x \o y) = Len(s) - 1
      /\ \A k \in 1 .. Len(s) - 1 :
             (x \o y)[k] = IF k <= i - 1 THEN x[k] ELSE y[k - (i - 1)]
  <2>1. /\ x \o y \in Seq(S) /\ Len(x \o y) = Len(x) + Len(y)
        /\ \A k \in 1 .. Len(x) + Len(y) :
               (x \o y)[k] = IF k <= Len(x) THEN x[k] ELSE y[k - Len(x)]
      BY <1>2, <1>3, ConcatProperties
  <2>2. Len(x) + Len(y) = Len(s) - 1
      BY <1>1, <1>2, <1>3
  <2>. QED
      BY <1>2, <2>1, <2>2
<1>6. PICK t \in Seq(S) : t = x \o y
    BY <1>5
<1>7. /\ DOMAIN t = 1 .. Len(s) - 1
      /\ \A k \in 1 .. Len(s) - 1 : t[k] = IF k <= i - 1 THEN s[k] ELSE s[k + 1]
  <2>1. DOMAIN t = 1 .. Len(s) - 1
      BY <1>5, <1>6, LenProperties
  <2>2. ASSUME NEW k \in 1 .. Len(s) - 1, k <= i - 1 PROVE t[k] = s[k]
      BY <1>1, <1>2, <1>5, <1>6, <2>2
  <2>3. ASSUME NEW k \in 1 .. Len(s) - 1, ~(k <= i - 1) PROVE t[k] = s[k + 1]
    <3>1. k - (i - 1) \in 1 .. Len(s) - i /\ i + (k - (i - 1)) = k + 1
        BY <1>1, <2>3
    <3>2. t[k] = y[k - (i - 1)]
        BY <1>5, <1>6, <2>3
    <3>. QED
        BY <1>3, <3>1, <3>2
  <2>. QED
      BY <2>1, <2>2, <2>3
<1>8. IsInjective(t)
  <2>. SUFFICES ASSUME NEW j \in 1 .. Len(s) - 1, NEW k \in 1 .. Len(s) - 1, t[j] = t[k]
                PROVE  j = k
      BY <1>7 DEF IsInjective
  <2>. DEFINE from(m) == IF m <= i - 1 THEN m ELSE m + 1
  <2>1. from(j) \in 1 .. Len(s) /\ from(k) \in 1 .. Len(s)
      BY <1>1
  <2>2. t[j] = s[from(j)] /\ t[k] = s[from(k)]
      BY <1>7
  <2>3. from(j) = from(k)
      BY <1>1, <2>1, <2>2 DEF IsInjective
  <2>. QED
      BY <1>1, <2>3
<1>9. ToSet(t) \subseteq ToSet(s) \ {s[i]}
    BY <1>1, <1>7 DEF ToSet, IsInjective
<1>10. ToSet(s) \ {s[i]} \subseteq ToSet(t)
  <2>1. ASSUME NEW k \in 1 .. Len(s), k # i PROVE s[k] \in ToSet(t)
    <3>1. CASE k < i
        BY <1>1, <1>7, <2>1, <3>1 DEF ToSet
    <3>2. CASE k > i
      <4>1. k - 1 \in DOMAIN t /\ t[k - 1] = s[k]
          BY <1>1, <1>7, <2>1, <3>2
      <4>. QED
          BY <4>1 DEF ToSet
    <3>. QED
        BY <2>1, <3>1, <3>2, <1>1
  <2>. QED
      BY <1>1, <2>1 DEF ToSet
<1>. QED
    BY <1>4, <1>5, <1>6, <1>8, <1>9, <1>10

\* A list that gets an element it does not have.
LEMMA AppendedOnce ==
    ASSUME NEW S, NEW s \in Seq(S), NEW e \in S
    PROVE  /\ Append(s, e) \in Seq(S)
           /\ ToSet(Append(s, e)) = ToSet(s) \union {e}
           /\ IsInjective(s) /\ e \notin ToSet(s) => IsInjective(Append(s, e))
<1>1. PICK l \in Nat : l = Len(s) /\ DOMAIN s = 1 .. l
    BY LenProperties
<1>2. PICK t \in Seq(S) : t = Append(s, e)
    BY AppendProperties
<1>3. /\ DOMAIN t = 1 .. l + 1 /\ t[l + 1] = e
      /\ \A i \in 1 .. l : t[i] = s[i]
    BY <1>1, <1>2, AppendProperties, LenProperties
<1>4. ToSet(t) = ToSet(s) \union {e}
    BY <1>1, <1>3 DEF ToSet
<1>5. ASSUME IsInjective(s), e \notin ToSet(s) PROVE IsInjective(t)
  <2>1. \A i \in 1 .. l : s[i] # e
      BY <1>1, <1>5 DEF ToSet
  <2>. QED
      BY <1>1, <1>3, <1>5, <2>1 DEF IsInjective
<1>. QED
    BY <1>2, <1>4, <1>5

\* A sequence of all the elements of a finite set.
LEMMA SeqsOfSet ==
    ASSUME NEW S, IsFiniteSet(S), NEW s \in SetToSeqs(S)
    PROVE  s \in Seq(S) /\ IsInjective(s) /\ ToSet(s) = S
<1>1. Cardinality(S) \in Nat /\ IsFiniteSet(S)
    BY FS_CardinalityType
<1>. DEFINE D == 1 .. Cardinality(S)
<1>2. s \in [D -> S] /\ \A i, j \in D : i # j => s[i] # s[j]
    BY DEF SetToSeqs
<1>3. s \in Seq(S)
    BY <1>1, <1>2, SeqDef
<1>4. IsInjective(s)
    BY <1>2 DEF IsInjective
<1>5. IsFiniteSet(D) /\ Cardinality(D) = Cardinality(S)
    BY <1>1, FS_Interval
<1>6. s \in Injection(D, S)
    BY <1>2 DEF Injection, IsInjective
<1>7. s \in Surjection(D, S)
    BY <1>1, <1>5, <1>6, FS_Injection
<1>8. ToSet(s) = S
    BY <1>2, <1>7 DEF Surjection, ToSet
<1>. QED
    BY <1>3, <1>4, <1>8

\* The place of an element on a list.
LEMMA PlaceOf ==
    ASSUME NEW S, NEW s \in Seq(S), NEW e \in ToSet(s)
    PROVE  LET i == CHOOSE i \in DOMAIN s : s[i] = e IN i \in 1 .. Len(s) /\ s[i] = e
<1>1. DOMAIN s = 1 .. Len(s)
    BY LenProperties
<1>2. \E i \in DOMAIN s : s[i] = e
    BY DEF ToSet
<1>. QED
    BY <1>1, <1>2

-----------------------------------------------------------------------------
(* Type correctness                                                        *)

ConfigType ==
    /\ state \in {"dirty", "pending", "stable", "incomplete"}
    /\ countdown \in 0 .. RetryUpdates
    /\ nodes \in Seq(Nodes) /\ IsInjective(nodes)
    /\ ranges \in [Nodes -> SUBSET Slots]

RequestType ==
    /\ rstate \in [Ids -> {"unsent", "pending", "ready", "deleted", None}]
    /\ redirects \in [Ids -> 0 .. 1] /\ target \in [Ids -> Nodes \union {None}]
    /\ answer \in [Ids -> [reply : Answers \union {None}, to : Nodes \union {None}]]

ProgramType ==
    /\ made \in 0 .. MaxRequests /\ key \in [1 .. made -> Keys] /\ transactions \subseteq Ids
    /\ requestList \in Seq(Ids) /\ IsInjective(requestList)

ThreadType ==
    /\ pc \in {"idle", "node", "serve", "switch", "reduce", "callback"}
    /\ broken \in {"no", "freed", "null"}
    /\ Running /\ pc \in {"node", "serve"} => Listed(cur)
    /\ pc \in {"reduce", "callback"} => cur \in ToSet(requestList)

ClusterType ==
    /\ owner \in [Slots -> Nodes] /\ view \in [Nodes -> [Slots -> Nodes \union {None}]]
    /\ migrating \in [Slots -> Nodes \union {None}] /\ keyAt \in [Keys -> Nodes]
    /\ moves \in 0 .. MaxMoves

ServersType ==
    /\ asking \in [Nodes -> BOOLEAN] /\ reported \in [Slots -> Nodes \union {None}]
    /\ executed \in Seq(Ids) /\ losses \in 0 .. MaxLosses /\ errors \in 0 .. MaxErrors

Queues == [Nodes -> Seq(Command)]

ProgressType == queue \in Queues /\ delivered \in Seq([req : Ids, reply : Answers])

LEMMA TypeParts ==
    TypeOK <=> /\ ConfigType /\ RequestType /\ ProgramType /\ ThreadType /\ ClusterType
               /\ ServersType /\ ProgressType
    BY DEF TypeOK, ConfigType, RequestType, ProgramType, ThreadType, ClusterType,
           ServersType, ProgressType, Queues

LEMMA TypePartsNext ==
    ASSUME ConfigType', RequestType', ProgramType', ThreadType', ClusterType', ServersType',
           ProgressType'
    PROVE  TypeOK'
    BY DEF TypeOK, ConfigType, RequestType, ProgramType, ThreadType, ClusterType,
           ServersType, ProgressType, Queues

LEMMA TypeFrame ==
    ASSUME TypeOK
    PROVE  /\ UNCHANGED config => ConfigType'
           /\ UNCHANGED request => RequestType'
           /\ UNCHANGED program => ProgramType'
           /\ UNCHANGED <<thread, nodes, requestList>> => ThreadType'
           /\ UNCHANGED cluster => ClusterType'
           /\ UNCHANGED servers => ServersType'
           /\ UNCHANGED <<queue, delivered>> => ProgressType'
<1>1. UNCHANGED config => ConfigType'
    BY DEF TypeOK, ConfigType, config
<1>2. UNCHANGED request => RequestType'
    BY DEF TypeOK, RequestType, request
<1>3. UNCHANGED program => ProgramType'
    BY DEF TypeOK, ProgramType, program
<1>4. UNCHANGED <<thread, nodes, requestList>> => ThreadType'
    BY DEF TypeOK, ThreadType, thread, Running, Listed
<1>5. UNCHANGED cluster => ClusterType'
    BY DEF TypeOK, ClusterType, cluster
<1>6. UNCHANGED servers => ServersType'
    BY DEF TypeOK, ServersType, servers
<1>7. UNCHANGED <<queue, delivered>> => ProgressType'
    BY DEF TypeOK, ProgressType, Queues
<1>. QED
    BY <1>1, <1>2, <1>3, <1>4, <1>5, <1>6, <1>7

LEMMA AskType ==
    ASSUME NEW kind \in {"slots", "asking", "run"}, NEW r \in Ids \union {-1}
    PROVE  Ask(kind, r) \in Command
    BY DEF Ask, Command

LEMMA RepliedType ==
    ASSUME NEW c \in Command, NEW a, a.reply \in {"sent"} \union Answers,
           a.to \in Nodes \union {None}
    PROVE  Replied(c, a) \in Command
    BY DEF Replied, Command

\* A client whose queue gets one command more, or one less at its head.
LEMMA QueuedType ==
    ASSUME NEW Q \in Queues, NEW n \in Nodes, NEW c \in Command
    PROVE  /\ [Q EXCEPT ![n] = Append(@, c)] \in Queues
           /\ Q[n] # <<>> => [Q EXCEPT ![n] = Tail(@)] \in Queues
<1>1. Q[n] \in Seq(Command)
    BY DEF Queues
<1>2. Append(Q[n], c) \in Seq(Command)
    BY <1>1, AppendProperties
<1>3. Q[n] # <<>> => Tail(Q[n]) \in Seq(Command)
    BY <1>1, HeadTailProperties
<1>. QED
    BY <1>2, <1>3 DEF Queues

\* What the client of a node serves is the head of its queue.
LEMMA HeadServed ==
    ASSUME TypeOK, NEW n \in Nodes, Served(n)
    PROVE  /\ queue[n] \in Seq(Command) /\ queue[n] # <<>>
           /\ 1 \in DOMAIN queue[n] /\ Head(queue[n]) = queue[n][1]
           /\ Head(queue[n]) \in Command /\ Head(queue[n]).reply \in Answers
           /\ Head(queue[n]).to \in Nodes \union {None}
           /\ Head(queue[n]).req \in Ids \union {-1}
           /\ [queue EXCEPT ![n] = Tail(@)] \in Queues
           /\ Listed(n)
<1>1. queue \in Queues /\ queue[n] \in Seq(Command) /\ queue[n] # <<>>
    BY DEF TypeOK, Served, Queues
<1>2. /\ Head(queue[n]) \in Command /\ Head(queue[n]) = queue[n][1]
      /\ Tail(queue[n]) \in Seq(Command)
    BY <1>1, HeadTailProperties
<1>3. 1 \in DOMAIN queue[n]
  <2>1. Len(queue[n]) \in Nat /\ Len(queue[n]) # 0 /\ DOMAIN queue[n] = 1 .. Len(queue[n])
      BY <1>1, LenProperties, EmptySeq
  <2>. QED
      BY <2>1
<1>4. [queue EXCEPT ![n] = Tail(@)] \in Queues
    BY <1>1, <1>2 DEF Queues
<1>5. Listed(n)
    BY DEF Served, TypeOK
<1>. QED
    BY <1>1, <1>2, <1>3, <1>4, <1>5 DEF Command, Served

LEMMA ListedAreNodes ==
    ASSUME TypeOK, NEW n, Listed(n)
    PROVE  n \in Nodes
<1>1. DOMAIN nodes = 1 .. Len(nodes) /\ nodes \in Seq(Nodes)
    BY LenProperties DEF TypeOK
<1>2. PICK i \in DOMAIN nodes : nodes[i] = n
    BY DEF Listed, ToSet
<1>. QED
    BY <1>1, <1>2, ElementOfSeq

LEMMA ListedAreIds ==
    ASSUME TypeOK, NEW r \in ToSet(requestList)
    PROVE  r \in Ids
<1>1. DOMAIN requestList = 1 .. Len(requestList) /\ requestList \in Seq(Ids)
    BY LenProperties DEF TypeOK
<1>2. PICK i \in DOMAIN requestList : requestList[i] = r
    BY DEF ToSet
<1>. QED
    BY <1>1, <1>2, ElementOfSeq

LEMMA DeliveredAreIds ==
    ASSUME TypeOK, NEW i \in DOMAIN delivered
    PROVE  delivered[i].req \in Ids
<1>1. /\ DOMAIN delivered = 1 .. Len(delivered)
      /\ delivered \in Seq([req : Ids, reply : Answers])
    BY LenProperties DEF TypeOK
<1>2. delivered[i] \in [req : Ids, reply : Answers]
    BY <1>1, ElementOfSeq
<1>. QED
    BY <1>2

\* On to the next node: one of the list, or none.
LEMMA AfterNodeType ==
    ASSUME TypeOK, Listed(cur), AfterNode, UNCHANGED <<nodes, requestList, broken>>
    PROVE  ThreadType'
<1>. DEFINE i == CHOOSE i \in DOMAIN nodes : nodes[i] = cur
<1>1. nodes \in Seq(Nodes) /\ cur \in ToSet(nodes) /\ broken \in {"no", "freed", "null"}
    BY DEF TypeOK, Listed
<1>2. i \in 1 .. Len(nodes) /\ nodes[i] = cur /\ DOMAIN nodes = 1 .. Len(nodes)
      /\ Len(nodes) \in Nat
    BY <1>1, PlaceOf, LenProperties
<1>3. \/ i < Len(nodes) /\ pc' = "node" /\ cur' = nodes[i + 1]
      \/ pc' = "switch"
    BY DEF AfterNode
<1>. HIDE DEF i
<1>4. i < Len(nodes) => nodes[i + 1] \in ToSet(nodes)
  <2>1. i < Len(nodes) => i + 1 \in DOMAIN nodes
      BY <1>2
  <2>. QED
      BY <2>1 DEF ToSet
<1>. QED
    BY <1>1, <1>3, <1>4 DEF ThreadType, Listed

\* On to the next request: one of the list, or none.
LEMMA AfterRequestType ==
    ASSUME TypeOK, cur \in ToSet(requestList), AfterRequest, UNCHANGED <<nodes, broken>>
    PROVE  /\ UNCHANGED requestList => ThreadType'
           /\ \A i \in DOMAIN requestList :
                  requestList[i] = cur /\ requestList' = RemoveAt(requestList, i) => ThreadType'
           /\ pc' \in {"reduce", "idle"}
<1>. DEFINE i == CHOOSE i \in DOMAIN requestList : requestList[i] = cur
<1>1. /\ requestList \in Seq(Ids) /\ IsInjective(requestList)
      /\ broken \in {"no", "freed", "null"}
    BY DEF TypeOK
<1>2. /\ i \in 1 .. Len(requestList) /\ requestList[i] = cur
      /\ DOMAIN requestList = 1 .. Len(requestList) /\ Len(requestList) \in Nat
    BY <1>1, PlaceOf, LenProperties
<1>3. \/ i < Len(requestList) /\ pc' = "reduce" /\ cur' = requestList[i + 1]
      \/ pc' = "idle"
    BY DEF AfterRequest
<1>. HIDE DEF i
<1>4. i < Len(requestList) =>
          requestList[i + 1] \in ToSet(requestList) /\ requestList[i + 1] # requestList[i]
  <2>1. i < Len(requestList) => i + 1 \in DOMAIN requestList /\ i \in DOMAIN requestList
      BY <1>2
  <2>2. i + 1 # i
      BY <1>2
  <2>. QED
      BY <1>1, <2>1, <2>2 DEF ToSet, IsInjective
<1>5. UNCHANGED requestList => ThreadType'
    BY <1>1, <1>3, <1>4 DEF ThreadType
<1>6. ASSUME NEW j \in DOMAIN requestList, requestList[j] = cur,
             requestList' = RemoveAt(requestList, j)
      PROVE  ThreadType'
  <2>1. ToSet(RemoveAt(requestList, j)) = ToSet(requestList) \ {cur}
      BY <1>1, <1>6, RemovedAt
  <2>2. ToSet(requestList') = ToSet(requestList) \ {cur}
      BY <1>6, <2>1
  <2>. QED
      BY <1>1, <1>2, <1>3, <1>4, <2>2 DEF ThreadType
<1>. QED
    BY <1>3, <1>5, <1>6

LEMMA InitType == Init => TypeOK
<1>. SUFFICES ASSUME Init PROVE TypeOK
    OBVIOUS
<1>. USE ClusterAssumption
<1>1. ConfigType
    BY DEF Init, ConfigType, IsInjective
<1>2. RequestType
    BY DEF Init, RequestType, NoAnswer
<1>3. ProgramType
  <2>1. <<>> \in [1 .. 0 -> Keys]
      OBVIOUS
  <2>. QED
      BY <2>1 DEF Init, ProgramType, IsInjective
<1>4. ThreadType
    BY DEF Init, ThreadType
<1>5. ClusterType
    BY DEF Init, ClusterType
<1>6. ServersType
    BY DEF Init, ServersType
<1>7. ProgressType
    BY DEF Init, ProgressType, Queues
<1>. QED
    BY <1>1, <1>2, <1>3, <1>4, <1>5, <1>6, <1>7, TypeParts

LEMMA CallType ==
    ASSUME TypeOK, RequestInv, Call
    PROVE  TypeOK'
<1>1. PICK k \in Keys : Make(k)
    BY DEF Call, MakeRequestAsync, MakeTransactionRequestAsync
<1>2. /\ made \in Ids /\ made' = made + 1 /\ made' \in 0 .. MaxRequests /\ made \in Nat
      /\ key' = Append(key, k) /\ requestList' = Append(requestList, made)
  <2>1. made' = made + 1 /\ made < MaxRequests
        /\ key' = Append(key, k) /\ requestList' = Append(requestList, made)
      BY <1>1 DEF Make
  <2>2. MaxRequests \in Nat /\ made \in 0 .. MaxRequests
      BY ClusterAssumption DEF TypeOK
  <2>. QED
      BY <2>1, <2>2 DEF Ids
<1>3. transactions' \subseteq Ids
    BY <1>2 DEF Call, MakeRequestAsync, MakeTransactionRequestAsync, TypeOK
<1>4. key' \in [1 .. made' -> Keys]
  <2>1. key \in [1 .. made -> Keys] /\ key \in Seq(Keys)
      BY <1>2, SeqDef DEF TypeOK
  <2>2. Len(key) = made
      BY <1>2, <2>1, LenProperties
  <2>3. /\ Append(key, k) \in Seq(Keys) /\ Len(Append(key, k)) = made + 1
      BY <2>1, <2>2, AppendProperties
  <2>. QED
      BY <1>2, <2>3, LenProperties
<1>5. /\ requestList' \in Seq(Ids) /\ IsInjective(requestList')
      /\ ToSet(requestList) \subseteq ToSet(requestList')
  <2>1. requestList \in Seq(Ids) /\ IsInjective(requestList)
      BY DEF TypeOK
  <2>2. made \notin ToSet(requestList)
      BY <1>2 DEF RequestInv
  <2>3. /\ Append(requestList, made) \in Seq(Ids)
        /\ ToSet(Append(requestList, made)) = ToSet(requestList) \union {made}
        /\ IsInjective(Append(requestList, made))
      BY <1>2, <2>1, <2>2, AppendedOnce
  <2>. QED
      BY <1>2, <2>3
<1>6. ProgramType'
    BY <1>2, <1>3, <1>4, <1>5 DEF ProgramType
<1>7. RequestType'
    BY <1>1, <1>2 DEF Make, TypeOK, RequestType
<1>8. ThreadType'
    BY <1>1, <1>5 DEF Make, TypeOK, ThreadType, thread, config, Running, Listed
<1>9. UNCHANGED <<config, cluster, servers, queue, delivered>>
    BY <1>1 DEF Make
<1>. QED
    BY <1>6, <1>7, <1>8, <1>9, TypeFrame, TypePartsNext

\* Update and the clients of the nodes.
LEMMA NodeType ==
    ASSUME TypeOK, NEW n \in Nodes,
           Update \/ NodeSends(n) \/ NodeNotConnected \/ NodeServed
    PROVE  TypeOK'
<1>1. CASE Update
  <2>1. nodes # <<>> => Head(nodes) \in ToSet(nodes)
    <3>1. nodes # <<>> => Len(nodes) # 0 /\ Head(nodes) = nodes[1]
        BY EmptySeq, HeadTailProperties DEF TypeOK
    <3>2. DOMAIN nodes = 1 .. Len(nodes) /\ Len(nodes) \in Nat
        BY LenProperties DEF TypeOK
    <3>3. nodes # <<>> => 1 \in DOMAIN nodes
        BY <3>1, <3>2
    <3>. QED
        BY <3>1, <3>3 DEF ToSet
  <2>2. ThreadType'
      BY <1>1, <2>1 DEF Update, TypeOK, ThreadType, Running, Listed, config
  <2>. QED
      BY <1>1, <2>2, TypeFrame, TypePartsNext DEF Update
<1>2. CASE NodeSends(n)
  <2>1. queue' \in Queues
    <3>1. queue \in Queues /\ queue[n] \in Seq(Command)
        BY DEF TypeOK, Queues
    <3>. DEFINE s == [i \in DOMAIN queue[n] |->
                          IF queue[n][i].reply = "unsent" THEN Replied(queue[n][i], Outstanding)
                          ELSE queue[n][i]]
    <3>2. DOMAIN queue[n] = 1 .. Len(queue[n]) /\ Len(queue[n]) \in Nat
          /\ \A i \in DOMAIN queue[n] : queue[n][i] \in Command
        BY <3>1, LenProperties, ElementOfSeq
    <3>3. \A i \in DOMAIN queue[n] : Replied(queue[n][i], Outstanding) \in Command
        BY <3>2, RepliedType DEF Outstanding
    <3>4. s \in [1 .. Len(queue[n]) -> Command]
        BY <3>2, <3>3
    <3>5. s \in Seq(Command)
        BY <3>2, <3>4, SeqDef
    <3>. HIDE DEF s
    <3>6. queue' = [queue EXCEPT ![n] = s]
        BY <1>2 DEF NodeSends, s
    <3>. QED
        BY <3>1, <3>5, <3>6 DEF Queues
  <2>2. ProgressType'
      BY <1>2, <2>1 DEF NodeSends, ProgressType, TypeOK
  <2>3. ThreadType'
      BY <1>2 DEF NodeSends, ThreadType, TypeOK, Running, Listed, config
  <2>4. UNCHANGED <<config, request, program, cluster, servers>>
      BY <1>2 DEF NodeSends
  <2>. QED
      BY <2>2, <2>3, <2>4, TypeFrame, TypePartsNext
<1>3. CASE NodeNotConnected \/ NodeServed
  <2>1. /\ Listed(cur) /\ AfterNode
        /\ UNCHANGED <<config, request, program, broken, cluster, servers, queue, delivered>>
      BY <1>3 DEF NodeNotConnected, NodeServed, TypeOK
  <2>2. ThreadType'
      BY <2>1, AfterNodeType DEF config, program
  <2>. QED
      BY <2>1, <2>2, TypeFrame, TypePartsNext
<1>. QED
    BY <1>1, <1>2, <1>3

LEMMA ServeType ==
    ASSUME TypeOK, NEW n \in Nodes, Serve(n)
    PROVE  TypeOK'
<1>. DEFINE c == Head(queue[n])
<1>1. Served(n)
    BY DEF Serve, ServeRun, ServeAsking, ServeSlots
<1>2. /\ c \in Command /\ c.reply \in Answers /\ c.to \in Nodes \union {None}
      /\ c.req \in Ids \union {-1} /\ [queue EXCEPT ![n] = Tail(@)] \in Queues
    BY <1>1, HeadServed
<1>. HIDE DEF c
<1>3. CASE ServeRun(n)
  <2>1. /\ answer' = [answer EXCEPT ![c.req] = [reply |-> c.reply, to |-> c.to]]
        /\ rstate' = [rstate EXCEPT ![c.req] = "ready"]
        /\ queue' = [queue EXCEPT ![n] = Tail(@)]
        /\ UNCHANGED <<config, redirects, target, program, thread, cluster, servers, delivered>>
      BY <1>3 DEF ServeRun, c
  <2>2. RequestType'
      BY <1>2, <2>1 DEF RequestType, TypeOK
  <2>3. ProgressType'
      BY <1>2, <2>1 DEF ProgressType, TypeOK
  <2>. QED
      BY <2>1, <2>2, <2>3, TypeFrame, TypePartsNext DEF config, program
<1>4. CASE ServeAsking(n)
  <2>. DEFINE rest == [queue EXCEPT ![n] = Tail(@)]
              t == target[c.req]
  <2>1. /\ \/ Listed(t) /\ queue' = [rest EXCEPT ![t] = Append(@, Ask("run", c.req))]
           \/ queue' = rest
        /\ \/ rstate' = [rstate EXCEPT ![c.req] = "pending"]
           \/ rstate' = [rstate EXCEPT ![c.req] = "unsent"]
        /\ UNCHANGED <<config, redirects, target, answer, program, thread, cluster, servers,
                       delivered>>
      BY <1>4 DEF ServeAsking, c
  <2>2. RequestType'
      BY <2>1 DEF RequestType, TypeOK
  <2>3. rest \in Queues /\ Ask("run", c.req) \in Command
      BY <1>2, AskType
  <2>. HIDE DEF rest, t
  <2>4. queue' \in Queues
    <3>1. CASE Listed(t) /\ queue' = [rest EXCEPT ![t] = Append(@, Ask("run", c.req))]
      <4>1. t \in Nodes
          BY <3>1, ListedAreNodes
      <4>2. [rest EXCEPT ![t] = Append(@, Ask("run", c.req))] \in Queues
          BY <2>3, <4>1, QueuedType
      <4>. QED
          BY <3>1, <4>2
    <3>2. CASE queue' = rest
        BY <2>3, <3>2
    <3>. QED
        BY <2>1, <3>1, <3>2
  <2>5. ProgressType'
      BY <2>1, <2>4 DEF ProgressType, TypeOK
  <2>. QED
      BY <2>1, <2>2, <2>5, TypeFrame, TypePartsNext DEF config, program
<1>5. CASE ServeSlots(n)
  <2>. DEFINE rest == [queue EXCEPT ![n] = Tail(@)]
  <2>1. /\ \/ ProcessClusterConfig(reported, rest)
           \/ queue' = rest /\ UNCHANGED <<nodes, ranges, asking>>
        /\ broken' = IF UNION {ranges'[m] : m \in Nodes} = {} THEN "null"
                     ELSE IF n \notin ToSet(nodes') THEN "freed" ELSE "no"
        /\ Reconfigured(ranges') /\ pc = "serve" /\ cur = n
        /\ UNCHANGED <<request, program, pc, cur, cluster, reported, executed, losses,
                       errors, delivered>>
      BY <1>5 DEF ServeSlots, Served
  <2>2. rest \in Queues
      BY <1>2
  <2>. HIDE DEF rest
  <2>3. /\ nodes' \in Seq(Nodes) /\ IsInjective(nodes')
        /\ ranges' \in [Nodes -> SUBSET Slots] /\ asking' \in [Nodes -> BOOLEAN]
        /\ queue' \in Queues
    <3>1. CASE ProcessClusterConfig(reported, rest)
      <4>. DEFINE live == {m \in Nodes : Handled(reported, m) # {}}
      <4>1. /\ nodes' \in SetToSeqs(live) /\ ranges' = [m \in Nodes |-> Handled(reported, m)]
            /\ queue' = [m \in Nodes |-> IF m \in live THEN rest[m] ELSE <<>>]
            /\ asking' = [m \in Nodes |-> m \in live /\ asking[m]]
          BY <3>1 DEF ProcessClusterConfig
      <4>2. IsFiniteSet(live)
          BY ClusterAssumption, FS_Subset
      <4>. HIDE DEF live
      <4>3. nodes' \in Seq(live) /\ IsInjective(nodes')
          BY <4>1, <4>2, SeqsOfSet
      <4>4. nodes' \in Seq(Nodes)
        <5>1. live \subseteq Nodes
            BY DEF live
        <5>2. nodes' \in [1 .. Len(nodes') -> live] /\ Len(nodes') \in Nat
            BY <4>3, LenProperties
        <5>3. nodes' \in [1 .. Len(nodes') -> Nodes]
            BY <5>1, <5>2
        <5>. QED
            BY <5>2, <5>3, SeqDef
      <4>5. \A m \in Nodes : rest[m] \in Seq(Command)
          BY <2>2 DEF Queues
      <4>6. queue' \in Queues
          BY <4>1, <4>5 DEF Queues
      <4>7. ranges' \in [Nodes -> SUBSET Slots]
          BY <4>1 DEF Handled
      <4>. QED
          BY <4>1, <4>3, <4>4, <4>6, <4>7
    <3>2. CASE queue' = rest /\ UNCHANGED <<nodes, ranges, asking>>
        BY <2>2, <3>2 DEF TypeOK
    <3>. QED
        BY <2>1, <3>1, <3>2
  <2>4. ConfigType'
    <3>1. countdown' \in 0 .. RetryUpdates /\ state' \in {"stable", "incomplete"}
        BY <2>1, ClusterAssumption DEF Reconfigured, TypeOK
    <3>. QED
        BY <2>3, <3>1 DEF ConfigType
  <2>5. ThreadType'
      BY <2>1 DEF ThreadType, Running, Listed
  <2>6. ServersType'
      BY <2>1, <2>3 DEF ServersType, TypeOK
  <2>7. ProgressType'
      BY <2>1, <2>3 DEF ProgressType, TypeOK
  <2>. QED
      BY <2>1, <2>4, <2>5, <2>6, <2>7, TypeFrame, TypePartsNext
<1>. QED
    BY <1>3, <1>4, <1>5 DEF Serve

LEMMA SwitchType ==
    ASSUME TypeOK, SwitchDirty \/ SwitchPending \/ SwitchIncomplete \/ SwitchStable
    PROVE  TypeOK'
<1>1. CASE SwitchDirty
  <2>1. /\ nodes' = IF nodes = <<>> THEN <<Seed>> ELSE nodes
        /\ state' = "pending" /\ pc' = "idle"
        /\ UNCHANGED <<countdown, ranges, request, program, cur, broken, cluster, servers,
                       delivered>>
      BY <1>1 DEF SwitchDirty
  <2>2. nodes' \in Seq(Nodes) /\ IsInjective(nodes')
    <3>1. <<Seed>> \in Seq(Nodes) /\ IsInjective(<<Seed>>)
        BY ClusterAssumption DEF IsInjective
    <3>. QED
        BY <2>1, <3>1 DEF TypeOK
  <2>3. PICK n \in ToSet(nodes') : queue' = [queue EXCEPT ![n] = Append(@, Ask("slots", -1))]
      BY <1>1 DEF SwitchDirty, QueuedAt
  <2>4. n \in Nodes
    <3>1. DOMAIN nodes' = 1 .. Len(nodes') /\ \A i \in 1 .. Len(nodes') : nodes'[i] \in Nodes
        BY <2>2, LenProperties, ElementOfSeq
    <3>. QED
        BY <2>3, <3>1 DEF ToSet
  <2>5. queue' \in Queues
    <3>1. queue \in Queues /\ Ask("slots", -1) \in Command
        BY AskType DEF TypeOK, Queues
    <3>. QED
        BY <2>3, <2>4, <3>1, QueuedType
  <2>6. ConfigType'
      BY <2>1, <2>2 DEF ConfigType, TypeOK
  <2>7. ThreadType'
      BY <2>1 DEF ThreadType, TypeOK
  <2>8. ProgressType'
      BY <2>1, <2>5 DEF ProgressType, TypeOK
  <2>. QED
      BY <2>1, <2>6, <2>7, <2>8, TypeFrame, TypePartsNext
<1>2. CASE SwitchPending
  <2>1. ThreadType'
      BY <1>2 DEF SwitchPending, ThreadType, TypeOK
  <2>. QED
      BY <1>2, <2>1, TypeFrame, TypePartsNext DEF SwitchPending
<1>3. CASE SwitchIncomplete
  <2>1. ConfigType'
      BY <1>3, ClusterAssumption DEF SwitchIncomplete, ConfigType, TypeOK
  <2>2. ThreadType'
      BY <1>3 DEF SwitchIncomplete, ThreadType, TypeOK
  <2>. QED
      BY <1>3, <2>1, <2>2, TypeFrame, TypePartsNext DEF SwitchIncomplete
<1>4. CASE SwitchStable
  <2>1. requestList # <<>> => Head(requestList) \in ToSet(requestList)
    <3>1. requestList # <<>> => Len(requestList) # 0 /\ Head(requestList) = requestList[1]
        BY EmptySeq, HeadTailProperties DEF TypeOK
    <3>2. DOMAIN requestList = 1 .. Len(requestList) /\ Len(requestList) \in Nat
        BY LenProperties DEF TypeOK
    <3>3. requestList # <<>> => 1 \in DOMAIN requestList
        BY <3>1, <3>2
    <3>. QED
        BY <3>1, <3>3 DEF ToSet
  <2>2. ThreadType'
      BY <1>4, <2>1 DEF SwitchStable, ThreadType, TypeOK, Switch, program
  <2>. QED
      BY <1>4, <2>2, TypeFrame, TypePartsNext DEF SwitchStable
<1>. QED
    BY <1>1, <1>2, <1>3, <1>4

\* The node a request is sent to is on the list.
LEMMA HandlerListed ==
    ASSUME TypeOK, NEW r, Handlers(r) # {}
    PROVE  /\ Listed(nodes[Min(Handlers(r))])
           /\ nodes[Min(Handlers(r))] \in Nodes
<1>1. DOMAIN nodes = 1 .. Len(nodes) /\ Len(nodes) \in Nat
    BY LenProperties DEF TypeOK
<1>2. Handlers(r) \in SUBSET Nat /\ Handlers(r) \subseteq DOMAIN nodes
    BY <1>1 DEF Handlers
<1>3. Min(Handlers(r)) \in DOMAIN nodes
    BY <1>2, Minimum
<1>4. Listed(nodes[Min(Handlers(r))])
    BY <1>3 DEF Listed, ToSet
<1>. QED
    BY <1>4, ListedAreNodes

LEMMA RedirectType ==
    ASSUME TypeOK, NEW r \in Ids, NEW kind \in {"asking", "run"}, Redirect(r, kind)
    PROVE  RequestType' /\ queue' \in Queues
<1>1. queue \in Queues /\ Ask(kind, r) \in Command
    BY AskType DEF TypeOK, Queues
<1>2. answer[r].to \in Nodes \union {None}
    BY DEF TypeOK
<1>3. CASE /\ redirects' = [redirects EXCEPT ![r] = 0]
           /\ rstate' = [rstate EXCEPT ![r] = "unsent"]
           /\ UNCHANGED <<target, answer, queue>>
    BY <1>1, <1>3 DEF TypeOK, RequestType
<1>4. CASE /\ redirects[r] + 1 # 2
           /\ redirects' = [redirects EXCEPT ![r] = @ + 1]
           /\ target' = [target EXCEPT ![r] = answer[r].to]
           /\ answer' = [answer EXCEPT ![r] = NoAnswer]
           /\ \/ /\ Listed(answer[r].to)
                 /\ queue' = [queue EXCEPT ![answer[r].to] = Append(@, Ask(kind, r))]
                 /\ rstate' = [rstate EXCEPT ![r] = "pending"]
              \/ rstate' = [rstate EXCEPT ![r] = "unsent"] /\ UNCHANGED queue
  <2>1. redirects' \in [Ids -> 0 .. 1]
    <3>1. redirects[r] \in 0 .. 1 /\ redirects \in [Ids -> 0 .. 1]
        BY DEF TypeOK
    <3>2. redirects[r] + 1 \in 0 .. 1
        BY <1>4, <3>1
    <3>. QED
        BY <1>4, <3>1, <3>2
  <2>2. target' \in [Ids -> Nodes \union {None}]
      BY <1>2, <1>4 DEF TypeOK
  <2>3. answer' \in [Ids -> [reply : Answers \union {None}, to : Nodes \union {None}]]
      BY <1>4 DEF TypeOK, NoAnswer
  <2>4. rstate' \in [Ids -> {"unsent", "pending", "ready", "deleted", None}]
      BY <1>4 DEF TypeOK
  <2>5. queue' \in Queues
    <3>1. CASE /\ Listed(answer[r].to)
               /\ queue' = [queue EXCEPT ![answer[r].to] = Append(@, Ask(kind, r))]
      <4>1. answer[r].to \in Nodes
          BY <3>1, ListedAreNodes
      <4>. QED
          BY <1>1, <3>1, <4>1, QueuedType
    <3>2. CASE UNCHANGED queue
        BY <1>1, <3>2
    <3>. QED
        BY <1>4, <3>1, <3>2
  <2>. QED
      BY <2>1, <2>2, <2>3, <2>4, <2>5 DEF RequestType
<1>. QED
    BY <1>3, <1>4 DEF Redirect, QueuedAt

LEMMA ReduceType ==
    ASSUME TypeOK, NEW r \in Ids,
           \/ ReduceUnsent(r) \/ ReducePending(r) \/ ReduceAsk(r) \/ ReduceMoved(r)
           \/ ReduceReady(r)
    PROVE  TypeOK'
<1>1. pc \in {"reduce", "callback"} => cur \in ToSet(requestList)
    BY DEF TypeOK
<1>2. ASSUME Bail, UNCHANGED broken PROVE ThreadType'
    BY <1>2 DEF Bail, ThreadType, TypeOK
<1>3. ASSUME SignalClusterConfigDirty, UNCHANGED <<countdown, nodes, ranges>>
      PROVE  ConfigType'
    BY <1>3 DEF SignalClusterConfigDirty, ConfigType, TypeOK
<1>4. CASE ReduceUnsent(r)
  <2>1. CASE SignalClusterConfigDirty /\ Bail /\ UNCHANGED <<queue, rstate>>
    <3>1. /\ UNCHANGED <<countdown, nodes, ranges, redirects, target, answer, program, broken,
                         cluster, servers, delivered>>
        BY <1>4 DEF ReduceUnsent
    <3>. QED
        BY <1>2, <1>3, <2>1, <3>1, TypeFrame, TypePartsNext DEF request
  <2>2. CASE /\ Handlers(r) # {}
             /\ queue' = QueuedAt(nodes[Min(Handlers(r))], Ask("run", r))
             /\ rstate' = [rstate EXCEPT ![r] = "pending"]
             /\ AfterRequest
             /\ UNCHANGED state
    <3>1. /\ UNCHANGED <<countdown, nodes, ranges, redirects, target, answer, program, broken,
                         cluster, servers, delivered>>
          /\ pc = "reduce"
        BY <1>4 DEF ReduceUnsent, Reduce
    <3>2. queue' \in Queues
      <4>1. queue \in Queues /\ Ask("run", r) \in Command /\ nodes[Min(Handlers(r))] \in Nodes
          BY <2>2, AskType, HandlerListed DEF TypeOK, Queues
      <4>. QED
          BY <2>2, <4>1, QueuedType DEF QueuedAt
    <3>3. ProgressType'
        BY <3>1, <3>2 DEF ProgressType, TypeOK
    <3>4. RequestType'
        BY <2>2, <3>1 DEF RequestType, TypeOK
    <3>5. ThreadType'
        BY <1>1, <2>2, <3>1, AfterRequestType DEF program
    <3>. QED
        BY <2>2, <3>1, <3>3, <3>4, <3>5, TypeFrame, TypePartsNext DEF config
  <2>. QED
      BY <1>4, <2>1, <2>2 DEF ReduceUnsent
<1>5. CASE ReducePending(r)
  <2>1. /\ UNCHANGED <<config, request, program, broken, cluster, servers, queue, delivered>>
        /\ pc = "reduce" /\ AfterRequest
      BY <1>5 DEF ReducePending, Reduce
  <2>2. ThreadType'
      BY <1>1, <2>1, AfterRequestType DEF program, config
  <2>. QED
      BY <2>1, <2>2, TypeFrame, TypePartsNext
<1>6. CASE ReduceAsk(r)
  <2>1. /\ UNCHANGED <<config, program, broken, cluster, servers, delivered>>
        /\ pc = "reduce" /\ AfterRequest /\ Redirect(r, "asking")
      BY <1>6 DEF ReduceAsk, Reduce
  <2>2. RequestType' /\ queue' \in Queues
      BY <2>1, RedirectType
  <2>3. ThreadType'
      BY <1>1, <2>1, AfterRequestType DEF program, config
  <2>4. ProgressType'
      BY <2>1, <2>2 DEF ProgressType, TypeOK
  <2>. QED
      BY <2>1, <2>2, <2>3, <2>4, TypeFrame, TypePartsNext
<1>7. CASE ReduceMoved(r)
  <2>1. /\ UNCHANGED <<countdown, nodes, ranges, program, broken, cluster, servers, delivered>>
        /\ SignalClusterConfigDirty /\ Bail /\ Redirect(r, "run")
      BY <1>7 DEF ReduceMoved
  <2>2. RequestType' /\ queue' \in Queues
      BY <2>1, RedirectType
  <2>3. ProgressType'
      BY <2>1, <2>2 DEF ProgressType, TypeOK
  <2>. QED
      BY <1>2, <1>3, <2>1, <2>2, <2>3, TypeFrame, TypePartsNext
<1>8. CASE ReduceReady(r)
  <2>1. /\ UNCHANGED <<config, request, program, cur, broken, cluster, servers, queue>>
        /\ pc = "reduce" /\ pc' = "callback" /\ answer[r].reply \in {"ok", "error"}
        /\ delivered' = Append(delivered, [req |-> r, reply |-> answer[r].reply])
      BY <1>8 DEF ReduceReady, Reduce
  <2>2. ThreadType'
      BY <1>1, <2>1 DEF ThreadType, TypeOK, program
  <2>3. [req |-> r, reply |-> answer[r].reply] \in [req : Ids, reply : Answers]
      BY <2>1 DEF Answers
  <2>4. delivered' \in Seq([req : Ids, reply : Answers])
      BY <2>1, <2>3, AppendProperties DEF TypeOK
  <2>5. ProgressType'
      BY <2>1, <2>4 DEF ProgressType, TypeOK, Queues
  <2>. QED
      BY <2>1, <2>2, <2>5, TypeFrame, TypePartsNext
<1>. QED
    BY <1>4, <1>5, <1>6, <1>7, <1>8

LEMMA DeleteType ==
    ASSUME TypeOK, ReduceDelete
    PROVE  TypeOK'
<1>1. /\ cur \in ToSet(requestList) /\ AfterRequest
      /\ rstate' = [rstate EXCEPT ![cur] = "deleted"]
      /\ UNCHANGED <<config, redirects, target, answer, made, key, transactions, broken,
                     cluster, servers, queue, delivered>>
    BY DEF ReduceDelete, TypeOK
<1>2. PICK i \in DOMAIN requestList :
          requestList[i] = cur /\ requestList' = RemoveAt(requestList, i)
    BY DEF ReduceDelete
<1>3. requestList' \in Seq(Ids) /\ IsInjective(requestList')
  <2>1. requestList \in Seq(Ids) /\ IsInjective(requestList)
      BY DEF TypeOK
  <2>. QED
      BY <1>2, <2>1, RemovedAt
<1>4. ProgramType'
    BY <1>1, <1>3 DEF ProgramType, TypeOK
<1>5. RequestType'
    BY <1>1 DEF RequestType, TypeOK
<1>6. ThreadType'
    BY <1>1, <1>2, AfterRequestType DEF config
<1>. QED
    BY <1>1, <1>4, <1>5, <1>6, TypeFrame, TypePartsNext

\* The oldest command on the connection to a node.
LEMMA OldestSent ==
    ASSUME TypeOK, NEW n \in Nodes, SentTo(n) # {}
    PROVE  /\ queue[n] \in Seq(Command) /\ Min(SentTo(n)) \in DOMAIN queue[n]
           /\ queue[n][Min(SentTo(n))] \in Command
           /\ queue[n][Min(SentTo(n))].reply = "sent"
<1>1. /\ queue[n] \in Seq(Command) /\ DOMAIN queue[n] = 1 .. Len(queue[n])
      /\ Len(queue[n]) \in Nat
    BY LenProperties DEF TypeOK
<1>2. SentTo(n) \in SUBSET Nat
    BY <1>1 DEF SentTo
<1>3. Min(SentTo(n)) \in SentTo(n)
    BY <1>2, Minimum
<1>4. /\ Min(SentTo(n)) \in DOMAIN queue[n] /\ queue[n][Min(SentTo(n))].reply = "sent"
    BY <1>3 DEF SentTo
<1>. QED
    BY <1>1, <1>4, ElementOfSeq

LEMMA ReplyType ==
    ASSUME TypeOK, NEW n \in Nodes, NEW r \in Ids, r < made
    PROVE  /\ Reply(n, r).reply \in {"ok", "error", "ask", "moved"}
           /\ Reply(n, r).to \in Nodes \union {None}
<1>1. key[r + 1] \in Keys
  <2>1. r + 1 \in 1 .. made /\ key \in [1 .. made -> Keys]
      BY DEF TypeOK, Ids
  <2>. QED
      BY <2>1
<1>2. SlotOf(r) \in Slots
    BY <1>1, ClusterAssumption DEF SlotOf
<1>3. view[n][SlotOf(r)] \in Nodes \union {None} /\ migrating[SlotOf(r)] \in Nodes \union {None}
    BY <1>2 DEF TypeOK
<1>. QED
    BY <1>3 DEF Reply

LEMMA AnsweredType ==
    ASSUME TypeOK, NEW n \in Nodes, SentTo(n) # {}, NEW a, a.reply \in Answers,
           a.to \in Nodes \union {None}, Answered(n, a)
    PROVE  queue' \in Queues
<1>. DEFINE i == Min(SentTo(n))
<1>1. /\ queue \in Queues /\ queue[n] \in Seq(Command) /\ i \in DOMAIN queue[n]
      /\ queue[n][i] \in Command
    BY OldestSent DEF TypeOK, Queues
<1>2. queue' = [queue EXCEPT ![n] = [queue[n] EXCEPT ![i] = Replied(queue[n][i], a)]]
    BY DEF Answered, ReplaceAt
<1>. HIDE DEF i
<1>3. PICK c \in Command : c = Replied(queue[n][i], a)
    BY <1>1, RepliedType
<1>4. [queue[n] EXCEPT ![i] = c] \in Seq(Command)
    BY <1>1, ExceptSeq
<1>5. queue' = [queue EXCEPT ![n] = [queue[n] EXCEPT ![i] = c]]
    BY <1>2, <1>3
<1>. QED
    BY <1>1, <1>4, <1>5 DEF Queues

LEMMA ServerType ==
    ASSUME TypeOK, CommandInv, RequestInv, NEW n \in Nodes, ServerRuns(n)
    PROVE  TypeOK'
<1>. DEFINE c == queue[n][Min(SentTo(n))]
<1>1. /\ SentTo(n) # {} /\ c \in Command /\ Min(SentTo(n)) \in DOMAIN queue[n]
      /\ UNCHANGED <<config, request, program, thread, cluster, losses, delivered>>
    BY OldestSent DEF ServerRuns
<1>2. c.kind # "slots" => c.req \in Ids /\ c.req < made
  <2>1. c \in ToSet(queue[n])
      BY <1>1 DEF ToSet
  <2>2. c.kind # "slots" => c.req \in ToSet(requestList)
      BY <2>1 DEF CommandInv
  <2>. QED
      BY <2>2, ListedAreIds DEF RequestInv
<1>. HIDE DEF c
<1>3. /\ [reply |-> "ok", to |-> None].reply \in Answers
      /\ [reply |-> "ok", to |-> None].to \in Nodes \union {None}
      /\ [reply |-> "error", to |-> None].reply \in Answers
      /\ [reply |-> "error", to |-> None].to \in Nodes \union {None}
    BY DEF Answers
<1>4. c.kind = "run" =>
          /\ Reply(n, c.req).reply \in Answers /\ Reply(n, c.req).to \in Nodes \union {None}
    BY <1>2, ReplyType DEF Answers
<1>5. /\ \/ c.kind = "run" /\ Answered(n, Reply(n, c.req))
         \/ Answered(n, [reply |-> "ok", to |-> None])
         \/ Answered(n, [reply |-> "error", to |-> None])
      /\ asking' \in {[asking EXCEPT ![n] = TRUE], [asking EXCEPT ![n] = FALSE]}
      /\ \/ UNCHANGED executed
         \/ c.kind = "run" /\ executed' = Append(executed, c.req)
      /\ reported' \in {reported, view[n]}
      /\ UNCHANGED errors \/ (errors < MaxErrors /\ errors' = errors + 1)
    BY DEF ServerRuns, c
<1>6. queue' \in Queues
    BY <1>1, <1>3, <1>4, <1>5, AnsweredType
<1>7. ProgressType'
    BY <1>1, <1>6 DEF ProgressType, TypeOK
<1>8. executed' \in Seq(Ids)
  <2>1. executed \in Seq(Ids)
      BY DEF TypeOK
  <2>2. c.kind = "run" => Append(executed, c.req) \in Seq(Ids)
      BY <1>2, <2>1, AppendProperties
  <2>. QED
      BY <1>5, <2>1, <2>2
<1>9. asking' \in [Nodes -> BOOLEAN]
    BY <1>5 DEF TypeOK
<1>10. reported' \in [Slots -> Nodes \union {None}]
    BY <1>5 DEF TypeOK
<1>11. errors' \in 0 .. MaxErrors
  <2>1. errors \in 0 .. MaxErrors /\ MaxErrors \in Nat
      BY ClusterAssumption DEF TypeOK
  <2>. QED
      BY <1>5, <2>1
<1>12. ServersType'
    BY <1>1, <1>8, <1>9, <1>10, <1>11 DEF ServersType, TypeOK
<1>13. UNCHANGED <<nodes, requestList>>
    BY <1>1 DEF config, program
<1>. QED
    BY <1>1, <1>7, <1>12, <1>13, TypeFrame, TypePartsNext

\* What a lost connection leaves of a queue: the commands before and after those
\* on the connection.
LEMMA LostQueue ==
    ASSUME TypeOK, NEW n \in Nodes, Lose(n)
    PROVE  \E i, k \in 1 .. Len(queue[n]) :
               /\ i <= k
               /\ queue' = [queue EXCEPT ![n] =
                                SubSeq(@, 1, i - 1) \o SubSeq(@, k + 1, Len(@))]
<1>. DEFINE on == {i \in DOMAIN queue[n] : queue[n][i].reply # "unsent"}
<1>1. DOMAIN queue[n] = 1 .. Len(queue[n]) /\ Len(queue[n]) \in Nat
    BY LenProperties DEF TypeOK
<1>2. PICK i \in on :
          queue' = [queue EXCEPT ![n] = SubSeq(@, 1, i - 1) \o SubSeq(@, Max(on) + 1, Len(@))]
    BY DEF Lose
<1>3. on \in SUBSET (1 .. Len(queue[n])) /\ on # {}
    BY <1>1, <1>2
<1>. HIDE DEF on
<1>4. Max(on) \in on /\ i <= Max(on)
    BY <1>1, <1>2, <1>3, Maximum
<1>. QED
    BY <1>2, <1>3, <1>4

\* Two parts of a sequence, put together: every place in it stems from another.
LEMMA CutOut ==
    ASSUME NEW S, NEW s \in Seq(S), NEW i \in 1 .. Len(s), NEW k \in 1 .. Len(s), i <= k
    PROVE  LET t == SubSeq(s, 1, i - 1) \o SubSeq(s, k + 1, Len(s)) IN
           /\ t \in Seq(S) /\ DOMAIN t = 1 .. Len(s) - (k - i + 1)
           /\ \A j \in DOMAIN t : t[j] = IF j < i THEN s[j] ELSE s[j + (k - i + 1)]
<1>1. PICK l \in Nat : l = Len(s) /\ \A j \in 1 .. l : s[j] \in S
    BY LenProperties, ElementOfSeq
<1>2. i \in 1 .. l /\ k \in 1 .. l
    BY <1>1
<1>3. PICK x \in Seq(S) :
          /\ x = SubSeq(s, 1, i - 1) /\ Len(x) = i - 1
          /\ \A j \in 1 .. i - 1 : x[j] = s[j]
  <2>1. \A j \in 1 .. i - 1 : s[j] \in S
      BY <1>1, <1>2
  <2>2. i - 1 \in Int /\ \A j \in Int : 1 + j - 1 = j
      BY <1>2
  <2>3. /\ SubSeq(s, 1, i - 1) \in Seq(S)
        /\ Len(SubSeq(s, 1, i - 1)) = IF 1 <= i - 1 THEN (i - 1) - 1 + 1 ELSE 0
        /\ \A j \in 1 .. (i - 1) - 1 + 1 : SubSeq(s, 1, i - 1)[j] = s[1 + j - 1]
      BY <2>1, <2>2, SubSeqProperties
  <2>4. PICK x \in Seq(S) : x = SubSeq(s, 1, i - 1)
      BY <2>3
  <2>5. Len(x) = i - 1 /\ \A j \in 1 .. i - 1 : x[j] = s[j]
      BY <1>2, <2>2, <2>3, <2>4
  <2>. QED
      BY <2>4, <2>5
<1>4. PICK y \in Seq(S) :
          /\ y = SubSeq(s, k + 1, l) /\ Len(y) = l - k
          /\ \A j \in 1 .. l - k : y[j] = s[k + j]
  <2>1. \A j \in k + 1 .. l : s[j] \in S
      BY <1>1, <1>2
  <2>2. k + 1 \in Int /\ l \in Int /\ \A j \in Int : (k + 1) + j - 1 = k + j
      BY <1>2
  <2>3. /\ SubSeq(s, k + 1, l) \in Seq(S)
        /\ Len(SubSeq(s, k + 1, l)) = IF k + 1 <= l THEN l - (k + 1) + 1 ELSE 0
        /\ \A j \in 1 .. l - (k + 1) + 1 : SubSeq(s, k + 1, l)[j] = s[(k + 1) + j - 1]
      BY <2>1, <2>2, SubSeqProperties
  <2>4. PICK y \in Seq(S) : y = SubSeq(s, k + 1, l)
      BY <2>3
  <2>5. Len(y) = l - k /\ \A j \in 1 .. l - k : y[j] = s[k + j]
      BY <1>2, <2>2, <2>3, <2>4
  <2>. QED
      BY <2>4, <2>5
<1>5. /\ x \o y \in Seq(S) /\ Len(x \o y) = Len(x) + Len(y)
      /\ \A j \in 1 .. Len(x) + Len(y) :
             (x \o y)[j] = IF j <= Len(x) THEN x[j] ELSE y[j - Len(x)]
    BY ConcatProperties
<1>6. PICK t \in Seq(S) : t = x \o y
    BY <1>5
<1>7. Len(x) + Len(y) = l - (k - i + 1)
    BY <1>2, <1>3, <1>4
<1>8. DOMAIN t = 1 .. l - (k - i + 1)
    BY <1>5, <1>6, <1>7, LenProperties
<1>9. ASSUME NEW j \in 1 .. l - (k - i + 1), j < i PROVE t[j] = s[j]
  <2>1. j \in 1 .. i - 1 /\ j <= i - 1
      BY <1>2, <1>9
  <2>. QED
      BY <1>3, <1>5, <1>6, <1>7, <2>1
<1>10. ASSUME NEW j \in 1 .. l - (k - i + 1), ~(j < i) PROVE t[j] = s[j + (k - i + 1)]
  <2>1. /\ j - (i - 1) \in 1 .. l - k /\ k + (j - (i - 1)) = j + (k - i + 1)
        /\ ~(j <= i - 1)
      BY <1>2, <1>10
  <2>2. t[j] = y[j - (i - 1)]
      BY <1>3, <1>5, <1>6, <1>7, <2>1
  <2>. QED
      BY <1>4, <2>1, <2>2
<1>. QED
    BY <1>1, <1>3, <1>4, <1>6, <1>8, <1>9, <1>10

LEMMA NetworkType ==
    ASSUME TypeOK, NEW n \in Nodes, Lose(n)
    PROVE  TypeOK'
<1>1. /\ losses < MaxLosses /\ losses' = losses + 1
      /\ asking' = [asking EXCEPT ![n] = FALSE]
      /\ UNCHANGED <<config, request, program, thread, cluster, reported, executed, errors,
                     delivered>>
    BY DEF Lose
<1>2. PICK i, k \in 1 .. Len(queue[n]) :
          /\ i <= k
          /\ queue' = [queue EXCEPT ![n] = SubSeq(@, 1, i - 1) \o SubSeq(@, k + 1, Len(@))]
    BY LostQueue
<1>3. queue' \in Queues
  <2>1. queue \in Queues /\ queue[n] \in Seq(Command)
      BY DEF TypeOK, Queues
  <2>2. SubSeq(queue[n], 1, i - 1) \o SubSeq(queue[n], k + 1, Len(queue[n])) \in Seq(Command)
      BY <1>2, <2>1, CutOut
  <2>. QED
      BY <1>2, <2>1, <2>2 DEF Queues
<1>4. ProgressType'
    BY <1>1, <1>3 DEF ProgressType, TypeOK
<1>5. ServersType'
  <2>1. losses' \in 0 .. MaxLosses
    <3>1. losses \in 0 .. MaxLosses /\ MaxLosses \in Nat
        BY ClusterAssumption DEF TypeOK
    <3>. QED
        BY <1>1, <3>1
  <2>. QED
      BY <1>1, <2>1 DEF ServersType, TypeOK
<1>6. UNCHANGED <<nodes, requestList>>
    BY <1>1 DEF config, program
<1>. QED
    BY <1>1, <1>4, <1>5, <1>6, TypeFrame, TypePartsNext

LEMMA MoveType ==
    ASSUME TypeOK,
           \/ \E s \in Slots : StartMove(s) \/ EndMove(s)
           \/ \E k \in Keys : MoveKey(k)
           \/ \E n \in Nodes, s \in Slots : Gossip(n, s)
    PROVE  TypeOK'
<1>1. UNCHANGED <<config, request, program, thread, servers, queue, delivered>>
    BY DEF StartMove, EndMove, MoveKey, Gossip
<1>2. ClusterType'
  <2>1. CASE \E s \in Slots : StartMove(s)
    <3>1. PICK s \in Slots : StartMove(s)
        BY <2>1
    <3>2. moves' \in 0 .. MaxMoves
      <4>1. moves \in 0 .. MaxMoves /\ MaxMoves \in Nat
          BY ClusterAssumption DEF TypeOK
      <4>. QED
          BY <3>1, <4>1 DEF StartMove
    <3>3. PICK n \in Nodes : migrating' = [migrating EXCEPT ![s] = n]
        BY <3>1 DEF StartMove
    <3>. QED
        BY <3>1, <3>2, <3>3 DEF StartMove, ClusterType, TypeOK
  <2>2. CASE \E s \in Slots : EndMove(s)
    <3>1. PICK s \in Slots : EndMove(s)
        BY <2>2
    <3>2. migrating[s] \in Nodes
        BY <3>1 DEF EndMove, TypeOK
    <3>3. view' \in [Nodes -> [Slots -> Nodes \union {None}]]
        BY <3>1, <3>2 DEF EndMove, TypeOK
    <3>. QED
        BY <3>1, <3>2, <3>3 DEF EndMove, ClusterType, TypeOK
  <2>3. CASE \E k \in Keys : MoveKey(k)
    <3>1. PICK k \in Keys : MoveKey(k)
        BY <2>3
    <3>2. KeySlot[k] \in Slots
        BY ClusterAssumption
    <3>3. migrating[KeySlot[k]] \in Nodes
        BY <3>1, <3>2 DEF MoveKey, TypeOK
    <3>. QED
        BY <3>1, <3>3 DEF MoveKey, ClusterType, TypeOK
  <2>4. CASE \E n \in Nodes, s \in Slots : Gossip(n, s)
    <3>1. PICK n \in Nodes, s \in Slots : Gossip(n, s)
        BY <2>4
    <3>2. owner[s] \in Nodes
        BY DEF TypeOK
    <3>3. view' \in [Nodes -> [Slots -> Nodes \union {None}]]
        BY <3>1, <3>2 DEF Gossip, TypeOK
    <3>4. migrating' \in [Slots -> Nodes \union {None}]
        BY <3>1 DEF Gossip, TypeOK
    <3>. QED
        BY <3>1, <3>3, <3>4 DEF Gossip, ClusterType, TypeOK
  <2>. QED
      BY <2>1, <2>2, <2>3, <2>4
<1>3. UNCHANGED <<nodes, requestList>>
    BY <1>1 DEF config, program
<1>. QED
    BY <1>1, <1>2, <1>3, TypeFrame, TypePartsNext

LEMMA TypeStep ==
    ASSUME TypeOK, CommandInv, RequestInv, [Next]_vars
    PROVE  TypeOK'
<1>1. CASE UNCHANGED vars
  <2>1. UNCHANGED <<config, request, program, thread, cluster, servers, queue, delivered>>
      BY <1>1 DEF vars
  <2>2. UNCHANGED <<nodes, requestList>>
      BY <2>1 DEF config, program
  <2>. QED
      BY <2>1, <2>2, TypeFrame, TypePartsNext
<1>2. CASE Call
    BY <1>2, CallType
<1>3. CASE Update
    BY <1>3, NodeType, ClusterAssumption
<1>4. CASE Updating
    BY <1>4, NodeType, ServeType, SwitchType, ReduceType, DeleteType, ClusterAssumption
       DEF Updating
<1>5. CASE External
    BY <1>5, ServerType, NetworkType, MoveType DEF External
<1>. QED
    BY <1>1, <1>2, <1>3, <1>4, <1>5 DEF Next

-----------------------------------------------------------------------------
(* Commands                                                                *)

CommandsInv == CommandInv /\ SingleInv /\ RequestInv /\ ConfigInv

Fates == TruthInv /\ DeliveredInv

\* No queue has a command it did not have.
Kept == \A n \in Nodes : ToSet(queue'[n]) \subseteq ToSet(queue[n])

LEMMA EmptyHasNone ==
    ASSUME NEW s \in Seq(Command)
    PROVE  s = <<>> <=> ToSet(s) = {}
<1>1. PICK l \in Nat : l = Len(s) /\ DOMAIN s = 1 .. l
    BY LenProperties
<1>2. s = <<>> <=> l = 0
    BY <1>1, EmptySeq
<1>3. l # 0 => s[1] \in ToSet(s)
    BY <1>1 DEF ToSet
<1>4. l = 0 => ToSet(s) = {}
    BY <1>1 DEF ToSet
<1>. QED
    BY <1>2, <1>3, <1>4

\* Steps that add no command, and leave the requests and the configuration alone.
LEMMA Frame ==
    ASSUME TypeOK, TypeOK', CommandsInv, Fates, Kept, SingleInv',
           UNCHANGED <<state, nodes, ranges, requestList, made, rstate, answer, executed,
                       delivered, broken>>,
           \/ UNCHANGED <<pc, cur>>
           \/ /\ pc # "callback" /\ pc' # "callback"
              /\ pc' = "reduce" => pc = "reduce" \/ state = "stable"
    PROVE  CommandsInv' /\ Fates'
<1>1. CommandInv'
    BY DEF CommandsInv, CommandInv, Kept
<1>2. RequestInv'
    BY DEF CommandsInv, RequestInv
<1>3. ConfigInv'
  <2>1. \A n \in Nodes : queue'[n] # <<>> => queue[n] # <<>>
    <3>1. \A n \in Nodes : queue[n] \in Seq(Command) /\ queue'[n] \in Seq(Command)
        BY DEF TypeOK
    <3>. QED
        BY <3>1, EmptyHasNone DEF Kept
  <2>. QED
      BY <2>1 DEF CommandsInv, ConfigInv, Running, Listed
<1>4. TruthInv'
    BY DEF Fates, TruthInv, Kept
<1>5. DeliveredInv'
  <2>1. \A i \in DOMAIN delivered : pc = "callback" \/ rstate[delivered[i].req] = "deleted"
      BY DEF Fates, DeliveredInv
  <2>. QED
      BY <2>1 DEF Fates, DeliveredInv
<1>. QED
    BY <1>1, <1>2, <1>3, <1>4, <1>5 DEF CommandsInv, Fates

\* The head of a queue is taken off: no other command is of its request.
LEMMA HeadTaken ==
    ASSUME TypeOK, SingleInv, NEW n \in Nodes, Served(n),
           NEW Q \in Queues, Q = [queue EXCEPT ![n] = Tail(@)]
    PROVE  /\ Single(Q)
           /\ Head(queue[n]) \in ToSet(queue[n])
           /\ \A m \in Nodes : ToSet(Q[m]) \subseteq ToSet(queue[m])
           /\ \A m \in Nodes : \A c \in ToSet(Q[m]) : c.req # Head(queue[n]).req
<1>1. /\ queue[n] \in Seq(Command) /\ queue[n] # <<>> /\ 1 \in DOMAIN queue[n]
      /\ Head(queue[n]) = queue[n][1] /\ Q \in Queues
    BY HeadServed
<1>2. PICK l \in Nat : l = Len(queue[n]) /\ DOMAIN queue[n] = 1 .. l
    BY <1>1, LenProperties
<1>3. PICK t \in Seq(Command) : t = Tail(queue[n])
    BY <1>1, HeadTailProperties
<1>4. l # 0 /\ DOMAIN t = 1 .. l - 1 /\ \A i \in 1 .. l - 1 : t[i] = queue[n][i + 1]
    BY <1>1, <1>2, <1>3, HeadTailProperties, LenProperties
<1>5. Q[n] = t /\ \A m \in Nodes : m # n => Q[m] = queue[m]
    BY <1>3 DEF TypeOK
<1>6. \A i \in DOMAIN t :
          i + 1 \in DOMAIN queue[n] /\ i + 1 # 1 /\ t[i] = queue[n][i + 1] /\ i \in Int
    BY <1>2, <1>4
<1>. DEFINE from(m, i) == IF m = n THEN i + 1 ELSE i
<1>7. \A m \in Nodes : \A i \in DOMAIN Q[m] :
          /\ from(m, i) \in DOMAIN queue[m] /\ Q[m][i] = queue[m][from(m, i)]
          /\ m = n => i \in Int /\ from(m, i) # 1 /\ from(m, i) = i + 1
          /\ m # n => from(m, i) = i
    BY <1>5, <1>6
<1>. HIDE DEF from
<1>8. Single(Q)
  <2>. SUFFICES ASSUME NEW a \in Nodes, NEW b \in Nodes, NEW i \in DOMAIN Q[a],
                       NEW j \in DOMAIN Q[b], Q[a][i].req = Q[b][j].req
                PROVE  a = b /\ i = j
      BY DEF Single
  <2>1. /\ from(a, i) \in DOMAIN queue[a] /\ from(b, j) \in DOMAIN queue[b]
        /\ queue[a][from(a, i)].req = queue[b][from(b, j)].req
      BY <1>7
  <2>2. a = b /\ from(a, i) = from(b, j)
      BY <2>1 DEF SingleInv, Single
  <2>. QED
      BY <1>7, <2>2
<1>9. \A m \in Nodes : ToSet(Q[m]) \subseteq ToSet(queue[m])
  <2>1. ASSUME NEW m \in Nodes, NEW c \in ToSet(Q[m]) PROVE c \in ToSet(queue[m])
    <3>1. PICK i \in DOMAIN Q[m] : c = Q[m][i]
        BY DEF ToSet
    <3>. QED
        BY <1>7, <3>1 DEF ToSet
  <2>. QED
      BY <2>1
<1>10. ASSUME NEW m \in Nodes, NEW c \in ToSet(Q[m]), c.req = Head(queue[n]).req
       PROVE  FALSE
  <2>1. PICK i \in DOMAIN Q[m] : c = Q[m][i]
      BY DEF ToSet
  <2>2. from(m, i) \in DOMAIN queue[m] /\ Q[m][i] = queue[m][from(m, i)]
      BY <1>7
  <2>3. queue[m][from(m, i)].req = queue[n][1].req
      BY <1>1, <1>10, <2>1, <2>2
  <2>4. m = n /\ from(m, i) = 1
      BY <1>1, <2>2, <2>3 DEF SingleInv, Single
  <2>. QED
      BY <1>7, <2>4
<1>11. Head(queue[n]) \in ToSet(queue[n])
    BY <1>1 DEF ToSet
<1>. QED
    BY <1>1, <1>8, <1>9, <1>10, <1>11

\* A command is queued for a request that has none.
LEMMA CommandQueued ==
    ASSUME NEW Q \in Queues, Single(Q), NEW n \in Nodes, NEW c \in Command,
           \A m \in Nodes : \A d \in ToSet(Q[m]) : d.req # c.req,
           NEW P \in Queues, P[n] = Append(Q[n], c),
           \A m \in Nodes : m # n => P[m] = Q[m]
    PROVE  /\ Single(P)
           /\ ToSet(P[n]) = ToSet(Q[n]) \union {c}
<1>1. Q[n] \in Seq(Command)
    BY DEF Queues
<1>2. PICK l \in Nat : l = Len(Q[n]) /\ DOMAIN Q[n] = 1 .. l
    BY <1>1, LenProperties
<1>3. PICK t \in Seq(Command) : t = Append(Q[n], c)
    BY <1>1, AppendProperties
<1>4. DOMAIN t = 1 .. l + 1 /\ t[l + 1] = c /\ \A i \in 1 .. l : t[i] = Q[n][i]
    BY <1>1, <1>2, <1>3, AppendProperties, LenProperties
<1>5. P[n] = t
    BY <1>3
<1>6. ToSet(P[n]) = ToSet(Q[n]) \union {c}
    BY <1>1, <1>3, <1>5, AppendedOnce
<1>7. \A m \in Nodes : \A i \in DOMAIN P[m] :
          \/ i \in DOMAIN Q[m] /\ P[m][i] = Q[m][i]
          \/ m = n /\ i = l + 1 /\ P[m][i] = c
    BY <1>2, <1>4, <1>5
<1>8. \A m \in Nodes : \A i \in DOMAIN Q[m] : Q[m][i].req # c.req
    BY DEF ToSet
<1>9. Single(P)
  <2>. SUFFICES ASSUME NEW a \in Nodes, NEW b \in Nodes, NEW i \in DOMAIN P[a],
                       NEW j \in DOMAIN P[b], P[a][i].req = P[b][j].req
                PROVE  a = b /\ i = j
      BY DEF Single
  <2>1. CASE i \in DOMAIN Q[a] /\ P[a][i] = Q[a][i]
    <3>1. j \in DOMAIN Q[b] /\ P[b][j] = Q[b][j]
        BY <1>7, <1>8, <2>1
    <3>. QED
        BY <2>1, <3>1 DEF Single
  <2>2. CASE a = n /\ i = l + 1 /\ P[a][i] = c
    <3>1. b = n /\ j = l + 1
        BY <1>7, <1>8, <2>2
    <3>. QED
        BY <2>2, <3>1
  <2>. QED
      BY <1>7, <2>1, <2>2
<1>. QED
    BY <1>5, <1>6, <1>9

LEMMA AskQueued ==
    ASSUME NEW Q \in Queues, Single(Q), NEW n \in Nodes,
           NEW kind \in {"slots", "asking", "run"}, NEW r \in Ids \union {-1},
           \A m \in Nodes : \A d \in ToSet(Q[m]) : d.req # r,
           NEW P \in Queues, P[n] = Append(Q[n], Ask(kind, r)),
           \A m \in Nodes : m # n => P[m] = Q[m]
    PROVE  Single(P)
<1>1. Ask(kind, r) \in Command /\ Ask(kind, r).req = r
    BY AskType DEF Ask
<1>2. \A m \in Nodes : \A d \in ToSet(Q[m]) : d.req # Ask(kind, r).req
    BY <1>1
<1>3. Single(P)
    BY <1>1, <1>2, CommandQueued
<1>. QED
    BY <1>3

LEMMA MakeStep ==
    ASSUME TypeOK, CommandsInv, Fates, Call
    PROVE  CommandsInv' /\ Fates'
<1>1. PICK k \in Keys : Make(k)
    BY DEF Call, MakeRequestAsync, MakeTransactionRequestAsync
<1>2. /\ made \in Ids /\ made' = made + 1 /\ made \in Nat
      /\ requestList' = Append(requestList, made)
      /\ rstate' = [rstate EXCEPT ![made] = "unsent"]
      /\ UNCHANGED <<config, redirects, target, answer, thread, servers, queue, delivered>>
  <2>1. made' = made + 1 /\ made < MaxRequests /\ MaxRequests \in Nat /\ made \in 0 .. MaxRequests
      BY <1>1, ClusterAssumption DEF Make, TypeOK
  <2>. QED
      BY <1>1, <2>1 DEF Make, Ids
<1>3. ToSet(requestList') = ToSet(requestList) \union {made}
  <2>1. ToSet(Append(requestList, made)) = ToSet(requestList) \union {made}
      BY <1>2, AppendedOnce DEF TypeOK
  <2>. QED
      BY <1>2, <2>1
<1>4. \A r \in ToSet(requestList) : r < made /\ r \in Ids
    BY ListedAreIds DEF CommandsInv, RequestInv
<1>5. /\ rstate'[made] = "unsent" /\ rstate[made] = None
      /\ \A r \in Ids : r # made => rstate'[r] = rstate[r]
    BY <1>2 DEF TypeOK, CommandsInv, RequestInv
<1>6. \A r \in ToSet(requestList) : rstate'[r] = rstate[r]
    BY <1>2, <1>4, <1>5
<1>7. CommandInv'
    BY <1>2, <1>3, <1>6 DEF CommandsInv, CommandInv, config
<1>8. SingleInv'
    BY <1>2 DEF CommandsInv, SingleInv
<1>9. RequestInv'
  <2>1. pc = "callback" => cur \in ToSet(requestList)
      BY DEF TypeOK
  <2>2. UNCHANGED <<pc, cur>>
      BY <1>2 DEF thread
  <2>3. \A r \in ToSet(requestList') : r < made'
      BY <1>2, <1>3, <1>4 DEF Ids
  <2>4. \A r \in Ids : r >= made' => r >= made /\ r # made
      BY <1>2 DEF Ids
  <2>5. \A r \in Ids : r >= made' => rstate'[r] = None
      BY <1>5, <2>4 DEF CommandsInv, RequestInv
  <2>. QED
      BY <1>6, <2>1, <2>2, <2>3, <2>5 DEF CommandsInv, RequestInv
<1>10. ConfigInv'
    BY <1>2 DEF CommandsInv, ConfigInv, config, thread, Running, Listed
<1>11. TruthInv'
    BY <1>2, <1>5 DEF Fates, TruthInv, servers
<1>12. DeliveredInv'
  <2>1. \A i \in DOMAIN delivered : delivered[i].req \in Ids
      BY DeliveredAreIds
  <2>2. \A r \in Ids : rstate[r] = "deleted" => rstate'[r] = "deleted"
      BY <1>5, ClusterAssumption
  <2>3. UNCHANGED <<pc, cur, executed, delivered>>
      BY <1>2 DEF thread, servers
  <2>. QED
      BY <2>1, <2>2, <2>3 DEF Fates, DeliveredInv
<1>. QED
    BY <1>7, <1>8, <1>9, <1>10, <1>11, <1>12 DEF CommandsInv, Fates

\* Commands may get other replies: they stay those of their requests.
Relabelled ==
    \A n \in Nodes :
        /\ DOMAIN queue'[n] = DOMAIN queue[n]
        /\ \A i \in DOMAIN queue[n] : /\ queue'[n][i].kind = queue[n][i].kind
                                      /\ queue'[n][i].req = queue[n][i].req

LEMMA RelabelledCommands ==
    ASSUME TypeOK, TypeOK', CommandsInv, Relabelled,
           UNCHANGED <<state, nodes, ranges, requestList, made, rstate, broken, cur>>,
           pc' = pc \/ (pc # "callback" /\ pc' \notin {"reduce", "callback"})
    PROVE  CommandsInv'
<1>1. \A n \in Nodes : \A c \in ToSet(queue'[n]) : \E d \in ToSet(queue[n]) :
          c.kind = d.kind /\ c.req = d.req
    BY DEF Relabelled, ToSet
<1>2. CommandInv'
    BY <1>1 DEF CommandsInv, CommandInv
<1>3. SingleInv'
    BY DEF Relabelled, CommandsInv, SingleInv, Single
<1>4. RequestInv'
    BY DEF CommandsInv, RequestInv
<1>5. ConfigInv'
  <2>1. \A n \in Nodes : queue'[n] # <<>> => queue[n] # <<>>
    <3>1. \A n \in Nodes : queue[n] \in Seq(Command) /\ queue'[n] \in Seq(Command)
        BY DEF TypeOK
    <3>2. \A n \in Nodes : ToSet(queue'[n]) # {} => ToSet(queue[n]) # {}
        BY <1>1
    <3>. QED
        BY <3>1, <3>2, EmptyHasNone
  <2>. QED
      BY <2>1 DEF CommandsInv, ConfigInv, Running, Listed
<1>. QED
    BY <1>2, <1>3, <1>4, <1>5 DEF CommandsInv

LEMMA SendsStep ==
    ASSUME TypeOK, TypeOK', CommandsInv, Fates, NEW n \in Nodes, NodeSends(n)
    PROVE  CommandsInv' /\ Fates'
<1>. DEFINE sent(c) == IF c.reply = "unsent" THEN Replied(c, Outstanding) ELSE c
<1>1. /\ queue' = [queue EXCEPT ![n] = [i \in DOMAIN queue[n] |-> sent(queue[n][i])]]
      /\ pc = "node" /\ pc' = "serve"
      /\ UNCHANGED <<config, request, program, cur, broken, servers, delivered>>
    BY DEF NodeSends
<1>2. \A c : /\ sent(c).kind = c.kind /\ sent(c).req = c.req
             /\ sent(c).reply = c.reply \/ (c.reply = "unsent" /\ sent(c).reply = "sent")
    BY DEF Replied, Outstanding
<1>. HIDE DEF sent
<1>3. /\ DOMAIN queue'[n] = DOMAIN queue[n]
      /\ \A i \in DOMAIN queue[n] : queue'[n][i] = sent(queue[n][i])
      /\ \A m \in Nodes : m # n => queue'[m] = queue[m]
    BY <1>1 DEF TypeOK
<1>4. Relabelled
    BY <1>2, <1>3 DEF Relabelled
<1>5. CommandsInv'
    BY <1>1, <1>4, RelabelledCommands DEF config, request, program
<1>6. \A m \in Nodes : \A c \in ToSet(queue'[m]) : \E d \in ToSet(queue[m]) :
          /\ c.kind = d.kind /\ c.req = d.req
          /\ c.reply = d.reply \/ (d.reply = "unsent" /\ c.reply = "sent")
    BY <1>2, <1>3 DEF ToSet
<1>7. TruthInv'
    BY <1>1, <1>6 DEF Fates, TruthInv, servers, request
<1>8. DeliveredInv'
    BY <1>1 DEF Fates, DeliveredInv, servers, request
<1>. QED
    BY <1>5, <1>7, <1>8 DEF Fates

\* A node runs the oldest command of a connection, or refuses it.
LEMMA ServerStep ==
    ASSUME TypeOK, TypeOK', CommandsInv, Fates, NEW n \in Nodes, ServerRuns(n)
    PROVE  CommandsInv' /\ Fates'
<1>. DEFINE o == Min(SentTo(n))
            c == queue[n][o]
<1>1. /\ SentTo(n) # {} /\ c \in Command /\ o \in DOMAIN queue[n] /\ c.reply = "sent"
      /\ UNCHANGED <<config, request, program, thread, delivered>>
    BY OldestSent DEF ServerRuns
<1>2. PICK a : /\ queue' = [queue EXCEPT ![n] = [queue[n] EXCEPT ![o] = Replied(c, a)]]
               /\ \/ /\ c.kind = "run" /\ a = Reply(n, c.req)
                     /\ executed' = IF a.reply = "ok" THEN Append(executed, c.req)
                                    ELSE executed
                  \/ c.kind # "run" /\ UNCHANGED executed
    BY DEF ServerRuns, Answered, ReplaceAt
<1>3. c \in ToSet(queue[n])
    BY <1>1 DEF ToSet
<1>. HIDE DEF c, o
<1>4. PICK d : d = Replied(c, a) /\ d.kind = c.kind /\ d.req = c.req /\ d.reply = a.reply
  <2>1. /\ Replied(c, a).kind = c.kind /\ Replied(c, a).req = c.req
        /\ Replied(c, a).reply = a.reply
      BY DEF Replied
  <2>. QED
      BY <2>1
<1>5. /\ DOMAIN queue'[n] = DOMAIN queue[n] /\ queue'[n][o] = d /\ queue[n][o] = c
      /\ \A i \in DOMAIN queue[n] : i # o => queue'[n][i] = queue[n][i]
      /\ \A m \in Nodes : m # n => queue'[m] = queue[m]
    BY <1>1, <1>2, <1>4 DEF TypeOK, c
<1>6. Relabelled
    BY <1>4, <1>5 DEF Relabelled
<1>7. CommandsInv'
    BY <1>1, <1>6, RelabelledCommands DEF config, request, program, thread
\* Every other command is as before, and of another request.
<1>8. \A m \in Nodes : \A b \in ToSet(queue'[m]) :
          \/ b = d
          \/ b \in ToSet(queue[m]) /\ b.req # c.req
  <2>. SUFFICES ASSUME NEW m \in Nodes, NEW i \in DOMAIN queue'[m], queue'[m][i] # d
                PROVE  queue'[m][i] \in ToSet(queue[m]) /\ queue'[m][i].req # c.req
      BY DEF ToSet
  <2>1. i \in DOMAIN queue[m] /\ queue'[m][i] = queue[m][i] /\ ~(m = n /\ i = o)
      BY <1>5
  <2>2. queue[m][i].req # c.req
      BY <1>1, <1>5, <2>1 DEF CommandsInv, SingleInv, Single
  <2>. QED
      BY <2>1, <2>2 DEF ToSet
\* A command that waits for its reply has not been run.
<1>9. c.kind = "run" => /\ c.req \in Ids /\ rstate[c.req] = "pending"
                        /\ c.req \notin ToSet(executed)
  <2>1. c.kind = "run" => c.req \in ToSet(requestList) /\ rstate[c.req] = "pending"
      BY <1>3 DEF CommandsInv, CommandInv
  <2>2. c.kind = "run" => c.req \notin ToSet(executed)
      BY <1>1, <1>3 DEF Fates, TruthInv
  <2>. QED
      BY <2>1, <2>2, ListedAreIds
<1>10. CASE UNCHANGED executed /\ ~(c.kind = "run" /\ a.reply = "ok")
  <2>1. \A m \in Nodes : \A b \in ToSet(queue'[m]) :
            /\ b.kind = "run" => (b.reply = "ok" <=> b.req \in ToSet(executed))
            /\ b.kind = "asking" => b.req \notin ToSet(executed)
    <3>1. d.kind = "run" => d.reply # "ok" /\ d.req \notin ToSet(executed)
        BY <1>4, <1>9, <1>10
    <3>2. d.kind = "asking" => d.req \notin ToSet(executed)
        BY <1>3, <1>4 DEF Fates, TruthInv
    <3>. QED
        BY <1>8, <3>1, <3>2 DEF Fates, TruthInv
  <2>2. TruthInv'
      BY <1>1, <1>10, <2>1 DEF Fates, TruthInv, request
  <2>3. DeliveredInv'
      BY <1>1, <1>10 DEF Fates, DeliveredInv, request, thread
  <2>. QED
      BY <1>7, <2>2, <2>3 DEF Fates
<1>11. CASE c.kind = "run" /\ a.reply = "ok" /\ executed' = Append(executed, c.req)
  <2>1. /\ ToSet(executed') = ToSet(executed) \union {c.req} /\ IsInjective(executed')
    <3>1. executed \in Seq(Ids) /\ IsInjective(executed)
        BY DEF TypeOK, Fates, TruthInv
    <3>2. /\ ToSet(Append(executed, c.req)) = ToSet(executed) \union {c.req}
          /\ IsInjective(Append(executed, c.req))
        BY <1>9, <1>11, <3>1, AppendedOnce
    <3>. QED
        BY <1>11, <3>2
  <2>2. \A m \in Nodes : \A b \in ToSet(queue'[m]) :
            /\ b.kind = "run" => (b.reply = "ok" <=> b.req \in ToSet(executed'))
            /\ b.kind = "asking" => b.req \notin ToSet(executed')
    <3>1. d.kind = "run" /\ d.reply = "ok" /\ d.req \in ToSet(executed')
        BY <1>4, <1>11, <2>1
    <3>. QED
        BY <1>8, <2>1, <3>1 DEF Fates, TruthInv
  <2>3. TruthInv'
    <3>1. \A r \in Ids : /\ rstate[r] \in {None, "unsent", "ready"} => r # c.req
        BY <1>9, <1>11, ClusterAssumption
    <3>. QED
        BY <1>1, <2>1, <2>2, <3>1 DEF Fates, TruthInv, request
  <2>4. DeliveredInv'
    <3>1. \A i \in DOMAIN delivered : delivered[i].req # c.req
        BY <1>9, <1>11 DEF Fates, DeliveredInv, CommandsInv, RequestInv
    <3>. QED
        BY <1>1, <2>1, <3>1 DEF Fates, DeliveredInv, request, thread
  <2>. QED
      BY <1>7, <2>3, <2>4 DEF Fates
<1>. QED
    BY <1>2, <1>10, <1>11

\* The callback of a command of a request.
LEMMA ServeRunStep ==
    ASSUME TypeOK, TypeOK', CommandsInv, Fates, NEW n \in Nodes, ServeRun(n)
    PROVE  CommandsInv' /\ Fates'
<1>. DEFINE c == Head(queue[n])
<1>1. /\ Served(n) /\ c.kind = "run" /\ c.reply \in Answers
      /\ answer' = [answer EXCEPT ![c.req] = [reply |-> c.reply, to |-> c.to]]
      /\ rstate' = [rstate EXCEPT ![c.req] = "ready"]
      /\ queue' = [queue EXCEPT ![n] = Tail(@)]
      /\ UNCHANGED <<config, program, thread, servers, delivered>>
    BY DEF ServeRun, Served
<1>. HIDE DEF c
<1>2. pc = "serve"
    BY <1>1 DEF Served
<1>3. /\ SingleInv' /\ c \in ToSet(queue[n])
      /\ \A m \in Nodes : ToSet(queue'[m]) \subseteq ToSet(queue[m])
      /\ \A m \in Nodes : \A d \in ToSet(queue'[m]) : d.req # c.req
  <2>1. PICK Q \in Queues : Q = [queue EXCEPT ![n] = Tail(@)]
      BY <1>1, HeadServed
  <2>2. /\ Single(Q) /\ c \in ToSet(queue[n])
        /\ \A m \in Nodes : ToSet(Q[m]) \subseteq ToSet(queue[m])
        /\ \A m \in Nodes : \A d \in ToSet(Q[m]) : d.req # c.req
      BY <1>1, <2>1, HeadTaken DEF CommandsInv, c
  <2>3. queue' = Q
      BY <1>1, <2>1
  <2>4. SingleInv'
      BY <2>2, <2>3 DEF SingleInv, Single
  <2>. QED
      BY <2>2, <2>3, <2>4
<1>4. c.req \in ToSet(requestList) /\ rstate[c.req] = "pending" /\ c.req \in Ids /\ c.req < made
    BY <1>1, <1>3, ListedAreIds DEF CommandsInv, CommandInv, RequestInv
<1>5. /\ rstate'[c.req] = "ready" /\ answer'[c.req].reply = c.reply
      /\ \A r \in Ids : r # c.req => rstate'[r] = rstate[r] /\ answer'[r] = answer[r]
    BY <1>1, <1>4 DEF TypeOK
<1>6. CommandInv'
  <2>1. \A m \in Nodes : \A d \in ToSet(queue'[m]) :
            d \in ToSet(queue[m]) /\ d.req # c.req
      BY <1>3
  <2>2. \A m \in Nodes : \A d \in ToSet(queue'[m]) : d.kind # "slots" =>
            d.req \in ToSet(requestList) /\ rstate'[d.req] = "pending"
      BY <1>5, <2>1, ListedAreIds DEF CommandsInv, CommandInv
  <2>. QED
      BY <1>1, <2>1, <2>2 DEF CommandsInv, CommandInv, config, program
<1>7. RequestInv'
  <2>1. UNCHANGED <<made, requestList, pc>>
      BY <1>1 DEF program, thread
  <2>2. made \in Nat /\ c.req \in Nat
      BY <1>4, ClusterAssumption DEF TypeOK, Ids
  <2>3. \A r \in Ids : r >= made => r # c.req
      BY <1>4, <2>2 DEF Ids
  <2>. QED
      BY <1>2, <1>5, <2>1, <2>3 DEF CommandsInv, RequestInv
<1>8. ConfigInv'
  <2>1. \A m \in Nodes : queue'[m] # <<>> => queue[m] # <<>>
    <3>1. \A m \in Nodes : queue[m] \in Seq(Command) /\ queue'[m] \in Seq(Command)
        BY DEF TypeOK
    <3>. QED
        BY <1>3, <3>1, EmptyHasNone
  <2>. QED
      BY <1>1, <1>2, <2>1 DEF CommandsInv, ConfigInv, Running, Listed, config, thread
<1>9. TruthInv'
  <2>1. c.reply = "ok" <=> c.req \in ToSet(executed)
      BY <1>1, <1>3 DEF Fates, TruthInv
  <2>2. \A r \in Ids :
            /\ rstate'[r] \in {None, "unsent"} => r \notin ToSet(executed)
            /\ rstate'[r] = "ready" => (answer'[r].reply = "ok" <=> r \in ToSet(executed))
    <3>1. "ready" \notin {None, "unsent"}
        BY ClusterAssumption
    <3>. QED
        BY <1>5, <2>1, <3>1 DEF Fates, TruthInv
  <2>. QED
      BY <1>1, <1>3, <2>2 DEF Fates, TruthInv, servers
<1>10. DeliveredInv'
  <2>1. \A i \in DOMAIN delivered :
            delivered[i].req \in Ids /\ rstate[delivered[i].req] = "deleted"
      BY <1>2, DeliveredAreIds DEF Fates, DeliveredInv
  <2>2. \A i \in DOMAIN delivered : rstate'[delivered[i].req] = "deleted"
      BY <1>4, <1>5, <2>1
  <2>. QED
      BY <1>1, <2>2 DEF Fates, DeliveredInv, servers
<1>. QED
    BY <1>3, <1>6, <1>7, <1>8, <1>9, <1>10 DEF CommandsInv, Fates

\* A request whose command is served gets another in its place: at node n, where
\* Q is what is left in the queues.
LEMMA Requeued ==
    ASSUME TypeOK, CommandsInv, NEW Q \in Queues, Single(Q),
           \A m \in Nodes : ToSet(Q[m]) \subseteq ToSet(queue[m]),
           NEW r \in Ids, r \in ToSet(requestList),
           \A m \in Nodes : \A d \in ToSet(Q[m]) : d.req # r,
           NEW n \in Nodes, Listed(n), NEW kind \in {"run", "asking"},
           queue' \in Queues, queue'[n] = Append(Q[n], Ask(kind, r)),
           \A m \in Nodes : m # n => queue'[m] = Q[m],
           rstate'[r] = "pending", \A q \in Ids : q # r => rstate'[q] = rstate[q],
           state' = state \/ state # "pending", UNCHANGED <<nodes, requestList>>
    PROVE  /\ CommandInv' /\ SingleInv'
           /\ \A m \in Nodes : queue'[m] # <<>> => Listed(m)
           /\ \A m \in Nodes : \A d \in ToSet(queue'[m]) :
                  \/ d.req = r /\ d.reply = "unsent"
                  \/ d.req # r /\ d \in ToSet(queue[m])
<1>1. PICK c \in Command :
          c = Ask(kind, r) /\ c.req = r /\ c.kind = kind /\ c.reply = "unsent"
  <2>1. /\ Ask(kind, r) \in Command /\ Ask(kind, r).req = r
        /\ Ask(kind, r).kind = kind /\ Ask(kind, r).reply = "unsent"
      BY AskType DEF Ask
  <2>. QED
      BY <2>1
<1>2. PICK P \in Queues : P = queue'
    OBVIOUS
<1>3. Single(P) /\ ToSet(P[n]) = ToSet(Q[n]) \union {c}
  <2>1. Single(P)
      BY <1>2, AskQueued
  <2>2. Q[n] \in Seq(Command)
      BY DEF Queues
  <2>3. ToSet(Append(Q[n], c)) = ToSet(Q[n]) \union {c}
      BY <2>2, AppendedOnce
  <2>4. P[n] = Append(Q[n], c)
      BY <1>1, <1>2
  <2>. QED
      BY <2>1, <2>3, <2>4
<1>4. queue' = P
    BY <1>2
<1>5. \A m \in Nodes : \A d \in ToSet(queue'[m]) :
          \/ d = c /\ m = n
          \/ d \in ToSet(Q[m]) /\ d \in ToSet(queue[m]) /\ d.req # r
    BY <1>3, <1>4
<1>6. SingleInv'
    BY <1>3, <1>4 DEF SingleInv, Single
<1>7. CommandInv'
  <2>. SUFFICES ASSUME NEW m \in Nodes, NEW d \in ToSet(queue'[m])
                PROVE  /\ d.kind = "slots" => d.req = -1 /\ state' = "pending"
                       /\ d.kind # "slots" =>
                              d.req \in ToSet(requestList) /\ rstate'[d.req] = "pending"
      BY DEF CommandInv
  <2>1. CASE d = c
      BY <1>1, <2>1
  <2>2. CASE d \in ToSet(queue[m]) /\ d.req # r
    <3>1. /\ d.kind = "slots" => d.req = -1 /\ state = "pending"
          /\ d.kind # "slots" => d.req \in ToSet(requestList) /\ rstate[d.req] = "pending"
        BY <2>2 DEF CommandsInv, CommandInv
    <3>. QED
        BY <2>2, <3>1, ListedAreIds
  <2>. QED
      BY <1>5, <2>1, <2>2
<1>8. \A m \in Nodes : queue'[m] # <<>> => Listed(m)
  <2>. SUFFICES ASSUME NEW m \in Nodes, m # n, queue'[m] # <<>>
                PROVE  Listed(m)
      OBVIOUS
  <2>1. Q[m] \in Seq(Command) /\ queue[m] \in Seq(Command) /\ Q[m] # <<>>
      BY <1>3, <1>4 DEF Queues, TypeOK
  <2>2. queue[m] # <<>>
      BY <2>1, EmptyHasNone
  <2>. QED
      BY <2>2 DEF CommandsInv, ConfigInv
<1>. QED
    BY <1>1, <1>5, <1>6, <1>7, <1>8

\* A request whose command is served, if it has one, gets no other.
LEMMA Unqueued ==
    ASSUME TypeOK, CommandsInv, NEW Q \in Queues, Single(Q),
           \A m \in Nodes : ToSet(Q[m]) \subseteq ToSet(queue[m]),
           NEW r \in Ids, \A m \in Nodes : \A d \in ToSet(Q[m]) : d.req # r,
           queue' = Q, \A q \in Ids : q # r => rstate'[q] = rstate[q],
           state' = state \/ state # "pending", UNCHANGED <<nodes, requestList>>
    PROVE  /\ CommandInv' /\ SingleInv'
           /\ \A m \in Nodes : queue'[m] # <<>> => Listed(m)
           /\ \A m \in Nodes : \A d \in ToSet(queue'[m]) :
                  d \in ToSet(queue[m]) /\ d.req # r
<1>1. SingleInv'
    BY DEF SingleInv, Single
<1>2. CommandInv'
  <2>. SUFFICES ASSUME NEW m \in Nodes, NEW d \in ToSet(queue'[m])
                PROVE  /\ d.kind = "slots" => d.req = -1 /\ state' = "pending"
                       /\ d.kind # "slots" =>
                              d.req \in ToSet(requestList) /\ rstate'[d.req] = "pending"
      BY DEF CommandInv
  <2>1. d \in ToSet(queue[m]) /\ d.req # r
      OBVIOUS
  <2>2. /\ d.kind = "slots" => d.req = -1 /\ state = "pending"
        /\ d.kind # "slots" => d.req \in ToSet(requestList) /\ rstate[d.req] = "pending"
      BY <2>1 DEF CommandsInv, CommandInv
  <2>. QED
      BY <2>1, <2>2, ListedAreIds
<1>3. \A m \in Nodes : queue'[m] # <<>> => Listed(m)
  <2>. SUFFICES ASSUME NEW m \in Nodes, queue'[m] # <<>>
                PROVE  Listed(m)
      OBVIOUS
  <2>1. Q[m] \in Seq(Command) /\ queue[m] \in Seq(Command) /\ Q[m] # <<>>
      BY DEF Queues, TypeOK
  <2>2. queue[m] # <<>>
      BY <2>1, EmptyHasNone
  <2>. QED
      BY <2>2 DEF CommandsInv, ConfigInv
<1>. QED
    BY <1>1, <1>2, <1>3

\* A request on the list is in another state.
LEMMA RequestMoved ==
    ASSUME TypeOK, CommandsInv, NEW r \in Ids, r \in ToSet(requestList),
           \A q \in Ids : q # r => rstate'[q] = rstate[q], UNCHANGED <<requestList, made>>,
           pc' # "callback"
    PROVE  RequestInv'
<1>1. made \in Nat /\ r < made /\ Ids \subseteq Nat
    BY ClusterAssumption DEF CommandsInv, RequestInv, TypeOK, Ids
<1>2. \A q \in Ids : q >= made => q # r
    BY <1>1
<1>. QED
    BY <1>2 DEF CommandsInv, RequestInv

\* What is known of request r changes, and of no other.
LEMMA TruthMoved ==
    ASSUME TypeOK, Fates, NEW r \in Ids, NEW x \in {"unsent", "pending", "ready"},
           rstate'[r] = x, \A q \in Ids : q # r => rstate'[q] = rstate[q],
           \A q \in Ids : q # r => answer'[q] = answer[q], UNCHANGED executed,
           \A m \in Nodes : \A d \in ToSet(queue'[m]) :
               \/ d \in ToSet(queue[m])
               \/ d.req = r /\ d.reply # "ok" /\ r \notin ToSet(executed),
           x = "unsent" => r \notin ToSet(executed),
           x = "ready" => (answer'[r].reply = "ok" <=> r \in ToSet(executed))
    PROVE  TruthInv'
<1>1. None \notin {"unsent", "pending", "ready"}
    BY ClusterAssumption
<1>2. \A q \in Ids :
          /\ rstate'[q] \in {None, "unsent"} => q \notin ToSet(executed)
          /\ rstate'[q] = "ready" => (answer'[q].reply = "ok" <=> q \in ToSet(executed))
  <2>. SUFFICES ASSUME NEW q \in Ids
                PROVE  /\ rstate'[q] \in {None, "unsent"} => q \notin ToSet(executed)
                       /\ rstate'[q] = "ready" =>
                              (answer'[q].reply = "ok" <=> q \in ToSet(executed))
      OBVIOUS
  <2>1. CASE q = r
      BY <1>1, <2>1
  <2>2. CASE q # r
      BY <2>2 DEF Fates, TruthInv
  <2>. QED
      BY <2>1, <2>2
<1>3. \A m \in Nodes : \A d \in ToSet(queue'[m]) :
          /\ d.kind = "run" => (d.reply = "ok" <=> d.req \in ToSet(executed))
          /\ d.kind = "asking" => d.req \notin ToSet(executed)
    BY DEF Fates, TruthInv
<1>. QED
    BY <1>2, <1>3 DEF Fates, TruthInv

\* No callback is called, and none of the requests on the list has its result.
LEMMA DeliveredKept ==
    ASSUME TypeOK, Fates, CommandsInv, NEW r \in Ids, rstate[r] # "deleted",
           pc # "callback", \A q \in Ids : q # r => rstate'[q] = rstate[q],
           UNCHANGED <<executed, delivered>>
    PROVE  DeliveredInv'
<1>1. \A i \in DOMAIN delivered :
          delivered[i].req \in Ids /\ rstate[delivered[i].req] = "deleted"
    BY DeliveredAreIds DEF Fates, DeliveredInv
<1>2. \A i \in DOMAIN delivered : rstate'[delivered[i].req] = "deleted"
    BY <1>1
<1>. QED
    BY <1>2 DEF Fates, DeliveredInv

\* A slot still has its node.
LEMMA ConfigKept ==
    ASSUME TypeOK, CommandsInv, UNCHANGED <<nodes, ranges>>, state' \in {state, "dirty"},
           \A m \in Nodes : queue'[m] # <<>> => Listed(m), UNCHANGED broken,
           pc' \in {"reduce", "callback"} =>
               state' = state /\ (state = "stable" \/ pc \in {"reduce", "callback"})
    PROVE  ConfigInv'
    BY DEF CommandsInv, ConfigInv, Listed, Running

\* The callback of an ASKING: the command itself follows it, or the request starts
\* anew.
LEMMA ServeAskingStep ==
    ASSUME TypeOK, TypeOK', CommandsInv, Fates, NEW n \in Nodes, ServeAsking(n)
    PROVE  CommandsInv' /\ Fates'
<1>. DEFINE c == Head(queue[n])
<1>1. PICK r : r = c.req /\ Served(n) /\ c.kind = "asking" /\ pc = "serve"
    BY DEF ServeAsking, Served
<1>2. PICK Q \in Queues : Q = [queue EXCEPT ![n] = Tail(@)]
    BY <1>1, HeadServed
<1>3. /\ \/ /\ Listed(target[r])
            /\ queue' = [Q EXCEPT ![target[r]] = Append(@, Ask("run", r))]
            /\ rstate' = [rstate EXCEPT ![r] = "pending"]
         \/ queue' = Q /\ rstate' = [rstate EXCEPT ![r] = "unsent"]
      /\ UNCHANGED <<config, redirects, target, answer, program, thread, cluster, servers,
                     delivered>>
    BY <1>1, <1>2 DEF ServeAsking
<1>4. /\ Single(Q) /\ c \in ToSet(queue[n])
      /\ \A m \in Nodes : ToSet(Q[m]) \subseteq ToSet(queue[m])
      /\ \A m \in Nodes : \A d \in ToSet(Q[m]) : d.req # r
    BY <1>1, <1>2, HeadTaken DEF CommandsInv
<1>. HIDE DEF c
<1>5. /\ r \in ToSet(requestList) /\ rstate[r] = "pending" /\ r \in Ids
      /\ r \notin ToSet(executed)
    BY <1>1, <1>4, ListedAreIds DEF CommandsInv, CommandInv, Fates, TruthInv
<1>6. /\ CommandInv' /\ SingleInv'
      /\ \A m \in Nodes : queue'[m] # <<>> => Listed(m)
      /\ \A m \in Nodes : \A d \in ToSet(queue'[m]) :
             \/ d \in ToSet(queue[m])
             \/ d.req = r /\ d.reply # "ok" /\ r \notin ToSet(executed)
  <2>1. UNCHANGED <<state, nodes, requestList>>
      BY <1>3 DEF config, program
  <2>2. CASE /\ Listed(target[r])
             /\ queue' = [Q EXCEPT ![target[r]] = Append(@, Ask("run", r))]
             /\ rstate' = [rstate EXCEPT ![r] = "pending"]
    <3>1. PICK t \in Nodes : t = target[r] /\ Listed(t)
        BY <2>2, ListedAreNodes
    <3>2. /\ CommandInv' /\ SingleInv'
          /\ \A m \in Nodes : queue'[m] # <<>> => Listed(m)
          /\ \A m \in Nodes : \A d \in ToSet(queue'[m]) :
                 \/ d.req = r /\ d.reply = "unsent"
                 \/ d.req # r /\ d \in ToSet(queue[m])
      <4>1. /\ queue'[t] = Append(Q[t], Ask("run", r))
            /\ \A m \in Nodes : m # t => queue'[m] = Q[m]
            /\ rstate'[r] = "pending" /\ \A q \in Ids : q # r => rstate'[q] = rstate[q]
          BY <1>5, <2>2, <3>1 DEF Queues, TypeOK
      <4>2. queue' \in Queues
          BY DEF TypeOK, Queues
      <4>. QED
          BY <1>4, <1>5, <2>1, <3>1, <4>1, <4>2, Requeued
    <3>. QED
        BY <1>5, <3>2
  <2>3. CASE queue' = Q /\ rstate' = [rstate EXCEPT ![r] = "unsent"]
    <3>1. \A q \in Ids : q # r => rstate'[q] = rstate[q]
        BY <2>3 DEF TypeOK
    <3>2. queue' = Q
        BY <2>3
    <3>. QED
        BY <1>4, <1>5, <2>1, <3>1, <3>2, Unqueued
  <2>. QED
      BY <1>3, <2>2, <2>3
<1>7. PICK x \in {"pending", "unsent"} :
          rstate'[r] = x /\ \A q \in Ids : q # r => rstate'[q] = rstate[q]
    BY <1>3, <1>5 DEF TypeOK
<1>8. RequestInv'
    BY <1>1, <1>3, <1>5, <1>7, RequestMoved DEF program, thread
<1>9. ConfigInv'
    BY <1>1, <1>3, <1>6, ConfigKept DEF config, thread
<1>10. TruthInv'
    BY <1>3, <1>5, <1>6, <1>7, TruthMoved DEF servers
<1>11. DeliveredInv'
    BY <1>1, <1>3, <1>5, <1>7, DeliveredKept DEF servers
<1>. QED
    BY <1>6, <1>8, <1>9, <1>10, <1>11 DEF CommandsInv, Fates

\* The callback of CLUSTER SLOTS.  Nodes that go take their commands with them.
LEMMA ServeSlotsStep ==
    ASSUME TypeOK, TypeOK', CommandsInv, Fates, NEW n \in Nodes, ServeSlots(n)
    PROVE  CommandsInv' /\ Fates'
<1>. DEFINE c == Head(queue[n])
            live == {m \in Nodes : Handled(reported, m) # {}}
<1>1. /\ Served(n) /\ c.kind = "slots" /\ pc = "serve"
      /\ Reconfigured(ranges')
      /\ UNCHANGED <<request, program, pc, cur, executed, delivered>>
    BY DEF ServeSlots, Served
<1>2. PICK Q \in Queues : Q = [queue EXCEPT ![n] = Tail(@)]
    BY <1>1, HeadServed
<1>3. \/ ProcessClusterConfig(reported, Q)
      \/ queue' = Q /\ UNCHANGED <<nodes, ranges>>
    BY <1>2 DEF ServeSlots
<1>4. /\ Single(Q) /\ c \in ToSet(queue[n])
      /\ \A m \in Nodes : ToSet(Q[m]) \subseteq ToSet(queue[m])
      /\ \A m \in Nodes : \A d \in ToSet(Q[m]) : d.req # c.req
    BY <1>1, <1>2, HeadTaken DEF CommandsInv
<1>. HIDE DEF c
<1>5. c.req = -1
    BY <1>1, <1>4 DEF CommandsInv, CommandInv
<1>6. /\ \A m \in Nodes : queue'[m] = Q[m] \/ queue'[m] = <<>>
      /\ \A m \in Nodes : queue'[m] # <<>> \/ ranges'[m] # {} => m \in ToSet(nodes')
  <2>1. CASE ProcessClusterConfig(reported, Q)
    <3>1. /\ nodes' \in SetToSeqs(live) /\ ranges' = [m \in Nodes |-> Handled(reported, m)]
          /\ queue' = [m \in Nodes |-> IF m \in live THEN Q[m] ELSE <<>>]
        BY <2>1 DEF ProcessClusterConfig
    <3>2. IsFiniteSet(live)
        BY ClusterAssumption, FS_Subset
    <3>3. \A m \in Nodes : m \in live <=> Handled(reported, m) # {}
        OBVIOUS
    <3>. HIDE DEF live
    <3>4. ToSet(nodes') = live
        BY <3>1, <3>2, SeqsOfSet
    <3>. QED
        BY <3>1, <3>3, <3>4
  <2>2. CASE queue' = Q /\ UNCHANGED <<nodes, ranges>>
    <3>1. \A m \in Nodes : Q[m] \in Seq(Command) /\ queue[m] \in Seq(Command)
        BY DEF Queues, TypeOK
    <3>2. \A m \in Nodes : Q[m] # <<>> => queue[m] # <<>>
        BY <1>4, <3>1, EmptyHasNone
    <3>. QED
        BY <2>2, <3>2 DEF CommandsInv, ConfigInv, Listed
  <2>. QED
      BY <1>3, <2>1, <2>2
<1>7. \A m \in Nodes : \A d \in ToSet(queue'[m]) :
          d \in ToSet(Q[m]) /\ d \in ToSet(queue[m]) /\ d.req # -1 /\ d.kind # "slots"
  <2>. SUFFICES ASSUME NEW m \in Nodes, NEW d \in ToSet(queue'[m])
                PROVE  /\ d \in ToSet(Q[m]) /\ d \in ToSet(queue[m])
                       /\ d.req # -1 /\ d.kind # "slots"
      OBVIOUS
  <2>1. queue'[m] # <<>>
    <3>1. ToSet(<<>>) = {}
        BY DEF ToSet
    <3>. QED
        BY <3>1
  <2>2. d \in ToSet(Q[m]) /\ d \in ToSet(queue[m]) /\ d.req # -1
      BY <1>4, <1>5, <1>6, <2>1
  <2>. QED
      BY <2>2 DEF CommandsInv, CommandInv
<1>8. CommandInv'
    BY <1>1, <1>7 DEF CommandsInv, CommandInv, program, request
<1>9. SingleInv'
  <2>. SUFFICES ASSUME NEW a \in Nodes, NEW b \in Nodes, NEW i \in DOMAIN queue'[a],
                       NEW j \in DOMAIN queue'[b], queue'[a][i].req = queue'[b][j].req
                PROVE  a = b /\ i = j
      BY DEF SingleInv, Single
  <2>1. queue'[a] # <<>> /\ queue'[b] # <<>>
    <3>1. DOMAIN <<>> = {}
        OBVIOUS
    <3>. QED
        BY <3>1
  <2>2. queue'[a] = Q[a] /\ queue'[b] = Q[b]
      BY <1>6, <2>1
  <2>. QED
      BY <1>4, <2>2 DEF Single
<1>10. RequestInv'
    BY <1>1 DEF CommandsInv, RequestInv, program, request
<1>11. ConfigInv'
  <2>1. state' = "stable" => \A s \in Slots : \E m \in Nodes : s \in ranges'[m]
    <3>1. state' = "stable" => UNION {ranges'[m] : m \in Nodes} = Slots
        BY <1>1 DEF Reconfigured, Covered
    <3>. QED
        BY <3>1
  <2>. QED
      BY <1>1, <1>6, <2>1 DEF ConfigInv, Listed
<1>12. TruthInv'
    BY <1>1, <1>7 DEF Fates, TruthInv, request
<1>13. DeliveredInv'
    BY <1>1 DEF Fates, DeliveredInv, request
<1>. QED
    BY <1>8, <1>9, <1>10, <1>11, <1>12, <1>13 DEF CommandsInv, Fates
\* A request that has no command gets one.
LEMMA Asked ==
    ASSUME TypeOK, TypeOK', CommandsInv, NEW r \in Ids, r \in ToSet(requestList),
           \A m \in Nodes : \A d \in ToSet(queue[m]) : d.req # r,
           NEW kind \in {"run", "asking"}, NEW n, Listed(n),
           queue' = QueuedAt(n, Ask(kind, r)),
           rstate'[r] = "pending", \A q \in Ids : q # r => rstate'[q] = rstate[q],
           state' = state \/ state # "pending", UNCHANGED <<nodes, requestList>>
    PROVE  /\ CommandInv' /\ SingleInv'
           /\ \A m \in Nodes : queue'[m] # <<>> => Listed(m)
           /\ \A m \in Nodes : \A d \in ToSet(queue'[m]) :
                  \/ d.req = r /\ d.reply = "unsent"
                  \/ d.req # r /\ d \in ToSet(queue[m])
<1>1. PICK t \in Nodes : t = n /\ Listed(t)
    BY ListedAreNodes
<1>2. queue \in Queues /\ queue' \in Queues
    BY DEF TypeOK, Queues
<1>3. PICK Q \in Queues : Q = queue
    BY <1>2
<1>4. /\ queue'[t] = Append(Q[t], Ask(kind, r))
      /\ \A m \in Nodes : m # t => queue'[m] = Q[m]
    BY <1>1, <1>2, <1>3 DEF QueuedAt, Queues
<1>5. /\ Single(Q) /\ \A m \in Nodes : ToSet(Q[m]) \subseteq ToSet(queue[m])
      /\ \A m \in Nodes : \A d \in ToSet(Q[m]) : d.req # r
    BY <1>3 DEF CommandsInv, SingleInv
<1>. QED
    BY <1>1, <1>2, <1>4, <1>5, Requeued

\* Steps of the requests' own: the queues may get a command of request r, and r
\* goes on to state x.
LEMMA RequestStep ==
    ASSUME TypeOK, TypeOK', CommandsInv, Fates,
           NEW r \in Ids, r \in ToSet(requestList), r \notin ToSet(executed),
           rstate[r] \in {"unsent", "ready"}, pc = "reduce", pc' # "callback",
           NEW kind \in {"run", "asking"}, NEW n, NEW x \in {"unsent", "pending"},
           rstate'[r] = x, \A q \in Ids : q # r => rstate'[q] = rstate[q],
           \/ x = "pending" /\ Listed(n) /\ queue' = QueuedAt(n, Ask(kind, r))
           \/ x = "unsent" /\ UNCHANGED queue,
           state' \in {state, "dirty"}, state = "stable",
           pc' = "reduce" => state' = state, \A q \in Ids : q # r => answer'[q] = answer[q],
           UNCHANGED <<nodes, ranges, requestList, made, executed, delivered, broken>>
    PROVE  CommandsInv' /\ Fates'
<1>1. queue \in Queues /\ queue' \in Queues /\ Single(queue)
    BY DEF TypeOK, Queues, CommandsInv, SingleInv
<1>2. \A m \in Nodes : \A d \in ToSet(queue[m]) : d.req # r
  <2>1. r # -1
      BY ClusterAssumption DEF Ids
  <2>. QED
      BY <2>1 DEF CommandsInv, CommandInv
<1>3. /\ CommandInv' /\ SingleInv'
      /\ \A m \in Nodes : queue'[m] # <<>> => Listed(m)
      /\ \A m \in Nodes : \A d \in ToSet(queue'[m]) :
             \/ d.req = r /\ d.reply = "unsent"
             \/ d.req # r /\ d \in ToSet(queue[m])
  <2>1. CASE x = "pending" /\ Listed(n) /\ queue' = QueuedAt(n, Ask(kind, r))
      BY <1>2, <2>1, Asked
  <2>2. CASE x = "unsent" /\ UNCHANGED queue
    <3>1. PICK Q \in Queues : Q = queue
        BY <1>1
    <3>2. /\ Single(Q) /\ \A m \in Nodes : ToSet(Q[m]) \subseteq ToSet(queue[m])
          /\ \A m \in Nodes : \A d \in ToSet(Q[m]) : d.req # r
        BY <1>1, <1>2, <3>1
    <3>. QED
        BY <2>2, <3>1, <3>2, Unqueued
  <2>. QED
      BY <2>1, <2>2
<1>4. RequestInv'
    BY RequestMoved
<1>5. ConfigInv'
    BY <1>3, ConfigKept
<1>6. TruthInv'
    BY <1>3, TruthMoved
<1>7. DeliveredInv'
    BY DeliveredKept
<1>. QED
    BY <1>3, <1>4, <1>5, <1>6, <1>7 DEF CommandsInv, Fates

\* After a request comes the next one, or the end of Update.
LEMMA AfterRequestPc == AfterRequest => pc' \in {"reduce", "idle"}
    BY DEF AfterRequest

LEMMA UnsentStep ==
    ASSUME TypeOK, TypeOK', CommandsInv, Fates, NEW r \in Ids, ReduceUnsent(r)
    PROVE  CommandsInv' /\ Fates'
<1>1. /\ pc = "reduce" /\ cur = r /\ rstate[r] = "unsent" /\ Running
      /\ r \in ToSet(requestList)
      /\ UNCHANGED <<countdown, nodes, ranges, redirects, target, answer, program, broken,
                     cluster, servers, delivered>>
    BY DEF ReduceUnsent, Reduce, TypeOK
<1>2. state = "stable" /\ r \notin ToSet(executed)
    BY <1>1 DEF CommandsInv, ConfigInv, Fates, TruthInv
<1>3. CASE SignalClusterConfigDirty /\ Bail /\ UNCHANGED <<queue, rstate>>
  <2>1. rstate'[r] = "unsent" /\ UNCHANGED rstate
      BY <1>1, <1>3
  <2>2. pc' = "idle" /\ state' = "dirty"
      BY <1>2, <1>3 DEF Bail, SignalClusterConfigDirty
  <2>. QED
      BY <1>1, <1>2, <1>3, <2>1, <2>2, RequestStep DEF program, servers
<1>4. CASE /\ Handlers(r) # {}
           /\ queue' = QueuedAt(nodes[Min(Handlers(r))], Ask("run", r))
           /\ rstate' = [rstate EXCEPT ![r] = "pending"]
           /\ AfterRequest /\ UNCHANGED state
  <2>1. PICK n : n = nodes[Min(Handlers(r))] /\ Listed(n)
      BY <1>4, HandlerListed
  <2>2. queue' = QueuedAt(n, Ask("run", r)) /\ pc' \in {"reduce", "idle"} /\ UNCHANGED state
      BY <1>4, <2>1, AfterRequestPc
  <2>3. rstate'[r] = "pending" /\ \A q \in Ids : q # r => rstate'[q] = rstate[q]
      BY <1>4 DEF TypeOK
  <2>. QED
      BY <1>1, <1>2, <2>1, <2>2, <2>3, RequestStep DEF program, servers, request
<1>. QED
    BY <1>3, <1>4 DEF ReduceUnsent

\* A redirection is an answer that says no node has run the command.
LEMMA RedirectStep ==
    ASSUME TypeOK, TypeOK', CommandsInv, Fates, NEW r \in Ids, ReduceAsk(r) \/ ReduceMoved(r)
    PROVE  CommandsInv' /\ Fates'
<1>1. /\ pc = "reduce" /\ cur = r /\ rstate[r] = "ready" /\ Running
      /\ r \in ToSet(requestList) /\ answer[r].reply # "ok"
      /\ UNCHANGED <<countdown, nodes, ranges, program, broken, cluster, servers, delivered>>
    BY DEF ReduceAsk, ReduceMoved, Reduce, TypeOK, config
<1>2. state = "stable" /\ r \notin ToSet(executed)
    BY <1>1 DEF CommandsInv, ConfigInv, Fates, TruthInv
<1>3. \/ UNCHANGED state /\ pc' \in {"reduce", "idle"}
      \/ state' = "dirty" /\ pc' = "idle"
    BY <1>2, AfterRequestPc
       DEF ReduceAsk, ReduceMoved, SignalClusterConfigDirty, Bail, config
<1>4. PICK kind \in {"run", "asking"} : Redirect(r, kind)
    BY DEF ReduceAsk, ReduceMoved
<1>5. CASE /\ rstate' = [rstate EXCEPT ![r] = "unsent"]
           /\ UNCHANGED <<target, answer, queue>>
  <2>1. rstate'[r] = "unsent" /\ \A q \in Ids : q # r => rstate'[q] = rstate[q]
      BY <1>5 DEF TypeOK
  <2>. QED
      BY <1>1, <1>2, <1>3, <1>5, <2>1, RequestStep DEF program, servers
<1>6. CASE /\ answer' = [answer EXCEPT ![r] = NoAnswer]
           /\ rstate' = [rstate EXCEPT ![r] = "unsent"] /\ UNCHANGED queue
  <2>1. \A q \in Ids : q # r => answer'[q] = answer[q]
      BY <1>6 DEF TypeOK
  <2>2. rstate'[r] = "unsent" /\ \A q \in Ids : q # r => rstate'[q] = rstate[q]
      BY <1>6 DEF TypeOK
  <2>. QED
      BY <1>1, <1>2, <1>3, <1>6, <2>1, <2>2, RequestStep DEF program, servers
<1>7. CASE /\ answer' = [answer EXCEPT ![r] = NoAnswer]
           /\ Listed(answer[r].to)
           /\ queue' = QueuedAt(answer[r].to, Ask(kind, r))
           /\ rstate' = [rstate EXCEPT ![r] = "pending"]
  <2>1. \A q \in Ids : q # r => answer'[q] = answer[q]
      BY <1>7 DEF TypeOK
  <2>2. PICK n : n = answer[r].to /\ Listed(n) /\ queue' = QueuedAt(n, Ask(kind, r))
      BY <1>7
  <2>3. rstate'[r] = "pending" /\ \A q \in Ids : q # r => rstate'[q] = rstate[q]
      BY <1>7 DEF TypeOK
  <2>. QED
      BY <1>1, <1>2, <1>3, <1>4, <2>1, <2>2, <2>3, RequestStep DEF program, servers
<1>. QED
    BY <1>4, <1>5, <1>6, <1>7 DEF Redirect

\* The callback of a request, which is the last one it gets.
LEMMA ReadyStep ==
    ASSUME TypeOK, TypeOK', CommandsInv, Fates, NEW r \in Ids, ReduceReady(r)
    PROVE  CommandsInv' /\ Fates'
<1>1. /\ pc = "reduce" /\ pc' = "callback" /\ cur = r /\ rstate[r] = "ready" /\ Running
      /\ answer[r].reply \in {"ok", "error"}
      /\ UNCHANGED <<config, request, program, cur, broken, cluster, servers, queue>>
    BY DEF ReduceReady, Reduce
<1>2. PICK d : d = [req |-> r, reply |-> answer[r].reply]
    OBVIOUS
<1>3. d \in [req : Ids, reply : Answers] /\ d.req = r /\ d.reply = answer[r].reply
    BY <1>1, <1>2 DEF Answers
<1>4. delivered' = Append(delivered, d)
    BY <1>2 DEF ReduceReady
<1>5. PICK l \in Nat : /\ DOMAIN delivered = 1 .. l /\ DOMAIN delivered' = 1 .. l + 1
                       /\ delivered'[l + 1] = d
                       /\ \A i \in 1 .. l : delivered'[i] = delivered[i]
  <2>1. delivered \in Seq([req : Ids, reply : Answers])
      BY DEF TypeOK
  <2>2. PICK l \in Nat : l = Len(delivered) /\ DOMAIN delivered = 1 .. l
      BY <2>1, LenProperties
  <2>3. PICK t \in Seq([req : Ids, reply : Answers]) : t = Append(delivered, d)
      BY <1>3, <2>1, AppendProperties
  <2>4. DOMAIN t = 1 .. l + 1 /\ t[l + 1] = d /\ \A i \in 1 .. l : t[i] = delivered[i]
      BY <1>3, <2>1, <2>2, <2>3, AppendProperties, LenProperties
  <2>. QED
      BY <1>4, <2>2, <2>3, <2>4
<1>6. \A i \in 1 .. l : rstate[delivered[i].req] = "deleted" /\ delivered[i].req # r
    BY <1>1, <1>5 DEF Fates, DeliveredInv
<1>7. DeliveredInv'
  <2>1. \A i, j \in 1 .. l + 1 : delivered'[i].req = delivered'[j].req => i = j
    <3>. SUFFICES ASSUME NEW i \in 1 .. l + 1, NEW j \in 1 .. l + 1,
                         delivered'[i].req = delivered'[j].req
                  PROVE  i = j
        OBVIOUS
    <3>1. CASE i \in 1 .. l /\ j \in 1 .. l
        BY <1>5, <3>1 DEF Fates, DeliveredInv
    <3>2. CASE i = l + 1
        BY <1>3, <1>5, <1>6, <3>2
    <3>3. CASE j = l + 1
        BY <1>3, <1>5, <1>6, <3>3
    <3>. QED
        BY <3>1, <3>2, <3>3
  <2>2. \A i \in 1 .. l :
            /\ rstate[delivered'[i].req] = "deleted"
            /\ \/ delivered'[i].reply = "ok" /\ delivered'[i].req \in ToSet(executed)
               \/ delivered'[i].reply = "error" /\ delivered'[i].req \notin ToSet(executed)
      BY <1>5, <1>6 DEF Fates, DeliveredInv
  <2>3. \/ d.reply = "ok" /\ d.req \in ToSet(executed)
        \/ d.reply = "error" /\ d.req \notin ToSet(executed)
      BY <1>1, <1>3 DEF Fates, TruthInv
  <2>4. \A i \in 1 .. l + 1 :
            /\ rstate[delivered'[i].req] = "deleted" \/ delivered'[i].req = r
            /\ \/ delivered'[i].reply = "ok" /\ delivered'[i].req \in ToSet(executed)
               \/ delivered'[i].reply = "error" /\ delivered'[i].req \notin ToSet(executed)
    <3>. SUFFICES ASSUME NEW i \in 1 .. l + 1
                  PROVE
            /\ rstate[delivered'[i].req] = "deleted" \/ delivered'[i].req = r
            /\ \/ delivered'[i].reply = "ok" /\ delivered'[i].req \in ToSet(executed)
               \/ delivered'[i].reply = "error" /\ delivered'[i].req \notin ToSet(executed)
        OBVIOUS
    <3>1. CASE i = l + 1
        BY <1>3, <1>5, <2>3, <3>1
    <3>2. CASE i \in 1 .. l
        BY <2>2, <3>2
    <3>. QED
        BY <3>1, <3>2
  <2>5. UNCHANGED <<rstate, executed, cur>>
      BY <1>1 DEF request, servers
  <2>. QED
      BY <1>1, <1>5, <2>1, <2>4, <2>5 DEF DeliveredInv
<1>8. TruthInv'
    BY <1>1 DEF Fates, TruthInv, request, servers
<1>9. CommandInv' /\ SingleInv'
    BY <1>1 DEF CommandsInv, CommandInv, SingleInv, Single, config, request, program
<1>10. RequestInv' /\ ConfigInv'
    BY <1>1 DEF CommandsInv, RequestInv, ConfigInv, config, request, program, Running, Listed
<1>. QED
    BY <1>7, <1>8, <1>9, <1>10 DEF CommandsInv, Fates

\* A request whose callback has returned leaves the list, and no command stays.
LEMMA DeleteStep ==
    ASSUME TypeOK, TypeOK', CommandsInv, Fates, ReduceDelete
    PROVE  CommandsInv' /\ Fates'
<1>1. PICK r \in Ids : r = cur /\ r \in ToSet(requestList)
    BY ListedAreIds DEF ReduceDelete, TypeOK
<1>2. /\ pc = "callback" /\ Running /\ rstate[r] = "ready"
      /\ rstate' = [rstate EXCEPT ![r] = "deleted"]
      /\ UNCHANGED <<config, redirects, target, answer, made, key, transactions, broken,
                     cluster, servers, queue, delivered>>
    BY <1>1 DEF ReduceDelete, CommandsInv, RequestInv
<1>3. pc' \in {"reduce", "idle"}
    BY AfterRequestPc DEF ReduceDelete
<1>4. ToSet(requestList') = ToSet(requestList) \ {r}
  <2>1. PICK i \in DOMAIN requestList :
            requestList[i] = r /\ requestList' = RemoveAt(requestList, i)
      BY <1>1 DEF ReduceDelete
  <2>2. requestList \in Seq(Ids) /\ IsInjective(requestList)
      BY DEF TypeOK
  <2>3. ToSet(RemoveAt(requestList, i)) = ToSet(requestList) \ {requestList[i]}
      BY <2>1, <2>2, RemovedAt
  <2>. QED
      BY <2>1, <2>3
<1>5. rstate'[r] = "deleted" /\ \A q \in Ids : q # r => rstate'[q] = rstate[q]
    BY <1>2 DEF TypeOK
<1>6. CommandInv'
  <2>. SUFFICES ASSUME NEW m \in Nodes, NEW d \in ToSet(queue[m])
                PROVE  /\ d.kind = "slots" => d.req = -1 /\ state = "pending"
                       /\ d.kind # "slots" =>
                              d.req \in ToSet(requestList') /\ rstate'[d.req] = "pending"
      BY <1>2 DEF CommandInv, config
  <2>1. /\ d.kind = "slots" => d.req = -1 /\ state = "pending"
        /\ d.kind # "slots" => d.req \in ToSet(requestList) /\ rstate[d.req] = "pending"
      BY DEF CommandsInv, CommandInv
  <2>. QED
      BY <1>2, <1>4, <1>5, <2>1, ListedAreIds
<1>7. SingleInv'
    BY <1>2 DEF CommandsInv, SingleInv, Single
<1>8. RequestInv'
  <2>1. r < made /\ made \in Nat /\ Ids \subseteq Nat
      BY <1>1, ClusterAssumption DEF CommandsInv, RequestInv, TypeOK, Ids
  <2>2. \A q \in Ids : q >= made => q # r
      BY <2>1
  <2>. QED
      BY <1>2, <1>3, <1>4, <1>5, <2>2 DEF CommandsInv, RequestInv
<1>9. ConfigInv'
    BY <1>2, <1>3 DEF CommandsInv, ConfigInv, config, Running, Listed
<1>10. TruthInv'
  <2>1. "deleted" \notin {None, "unsent", "ready"}
      BY ClusterAssumption
  <2>2. \A q \in Ids :
            /\ rstate'[q] \in {None, "unsent"} => q \notin ToSet(executed)
            /\ rstate'[q] = "ready" => (answer[q].reply = "ok" <=> q \in ToSet(executed))
      BY <1>5, <2>1 DEF Fates, TruthInv
  <2>. QED
      BY <1>2, <2>2 DEF Fates, TruthInv, servers
<1>11. DeliveredInv'
  <2>1. \A i \in DOMAIN delivered : /\ delivered[i].req \in Ids
                                    /\ rstate[delivered[i].req] = "deleted"
                                       \/ delivered[i].req = r
      BY <1>1, DeliveredAreIds DEF Fates, DeliveredInv
  <2>2. \A i \in DOMAIN delivered : rstate'[delivered[i].req] = "deleted"
      BY <1>5, <2>1
  <2>. QED
      BY <1>2, <2>2 DEF Fates, DeliveredInv, servers
<1>. QED
    BY <1>6, <1>7, <1>8, <1>9, <1>10, <1>11 DEF CommandsInv, Fates
\* The configuration is asked for, with no query under way.
LEMMA DirtyStep ==
    ASSUME TypeOK, TypeOK', CommandsInv, Fates, SwitchDirty
    PROVE  CommandsInv' /\ Fates'
<1>1. /\ pc = "switch" /\ pc' = "idle" /\ state = "dirty" /\ state' = "pending"
      /\ nodes' = IF nodes = <<>> THEN <<Seed>> ELSE nodes
      /\ UNCHANGED <<countdown, ranges, request, program, cur, broken, cluster, servers,
                     delivered>>
    BY DEF SwitchDirty, Switch
<1>2. PICK n \in ToSet(nodes') : queue' = [queue EXCEPT ![n] = Append(@, Ask("slots", -1))]
    BY DEF SwitchDirty, QueuedAt
<1>3. n \in Nodes
  <2>1. nodes' \in Seq(Nodes)
      BY DEF TypeOK
  <2>2. DOMAIN nodes' = 1 .. Len(nodes') /\ \A i \in 1 .. Len(nodes') : nodes'[i] \in Nodes
      BY <2>1, LenProperties, ElementOfSeq
  <2>. QED
      BY <2>2 DEF ToSet
<1>4. PICK c \in Command : c = Ask("slots", -1) /\ c.req = -1 /\ c.kind = "slots"
                           /\ c.reply = "unsent"
  <2>1. /\ Ask("slots", -1) \in Command /\ Ask("slots", -1).req = -1
        /\ Ask("slots", -1).kind = "slots" /\ Ask("slots", -1).reply = "unsent"
      BY AskType DEF Ask
  <2>. QED
      BY <2>1
<1>5. queue \in Queues /\ queue' \in Queues
    BY DEF TypeOK, Queues
<1>6. queue'[n] = Append(queue[n], c) /\ \A m \in Nodes : m # n => queue'[m] = queue[m]
    BY <1>2, <1>3, <1>4, <1>5 DEF Queues
<1>7. \A m \in Nodes : \A d \in ToSet(queue[m]) :
          /\ d.kind # "slots" /\ d.req \in ToSet(requestList) /\ rstate[d.req] = "pending"
          /\ d.req # -1
  <2>1. -1 \notin Ids
      BY ClusterAssumption DEF Ids
  <2>. QED
      BY <1>1, <2>1, ListedAreIds DEF CommandsInv, CommandInv
<1>8. SingleInv'
  <2>1. PICK P \in Queues : P = queue'
      BY <1>5
  <2>2. PICK Q \in Queues : Q = queue
      BY <1>5
  <2>3. /\ Single(Q) /\ P[n] = Append(Q[n], c) /\ \A m \in Nodes : m # n => P[m] = Q[m]
        /\ \A m \in Nodes : \A d \in ToSet(Q[m]) : d.req # c.req
      BY <1>4, <1>6, <1>7, <2>1, <2>2 DEF CommandsInv, SingleInv
  <2>4. Single(P)
      BY <1>3, <2>3, CommandQueued
  <2>. QED
      BY <2>1, <2>4 DEF SingleInv, Single
<1>9. \A m \in Nodes : \A d \in ToSet(queue'[m]) : d = c \/ d \in ToSet(queue[m])
  <2>1. queue[n] \in Seq(Command)
      BY <1>3, <1>5 DEF Queues
  <2>2. ToSet(Append(queue[n], c)) = ToSet(queue[n]) \union {c}
      BY <2>1, AppendedOnce
  <2>. QED
      BY <1>6, <2>2
<1>10. CommandInv'
    BY <1>1, <1>4, <1>7, <1>9 DEF CommandInv, program, request
<1>11. RequestInv'
    BY <1>1 DEF CommandsInv, RequestInv, program, request
<1>12. ConfigInv'
  <2>1. nodes = <<>> => \A m \in Nodes : ~Listed(m)
    <3>1. ToSet(<<>>) = {}
        BY DEF ToSet
    <3>. QED
        BY <3>1 DEF Listed
  <2>2. \A m \in Nodes : Listed(m) => m \in ToSet(nodes')
      BY <1>1, <2>1 DEF Listed
  <2>3. \A m \in Nodes : queue'[m] # <<>> \/ ranges'[m] # {} => m \in ToSet(nodes')
      BY <1>1, <1>6, <2>2 DEF CommandsInv, ConfigInv
  <2>. QED
      BY <1>1, <2>3 DEF ConfigInv, Listed
<1>13. TruthInv'
  <2>1. \A m \in Nodes : \A d \in ToSet(queue'[m]) :
            d \in ToSet(queue[m]) \/ d.kind = "slots"
      BY <1>4, <1>9
  <2>. QED
      BY <1>1, <2>1 DEF Fates, TruthInv, request, servers
<1>14. DeliveredInv'
    BY <1>1 DEF Fates, DeliveredInv, request, servers
<1>. QED
    BY <1>8, <1>10, <1>11, <1>12, <1>13, <1>14 DEF CommandsInv, Fates

\* The configuration is asked for again.
LEMMA IncompleteStep ==
    ASSUME TypeOK, TypeOK', CommandsInv, Fates, SwitchIncomplete
    PROVE  CommandsInv' /\ Fates'
<1>1. /\ pc = "switch" /\ pc' = "idle" /\ state = "incomplete" /\ state' \in {state, "dirty"}
      /\ UNCHANGED <<nodes, ranges, request, program, cur, broken, cluster, servers, queue,
                     delivered>>
    BY DEF SwitchIncomplete, Switch
<1>2. CommandInv' /\ SingleInv' /\ RequestInv'
    BY <1>1 DEF CommandsInv, CommandInv, SingleInv, Single, RequestInv, request, program
<1>3. ConfigInv'
    BY <1>1 DEF CommandsInv, ConfigInv, Listed
<1>4. Fates'
    BY <1>1 DEF Fates, TruthInv, DeliveredInv, request, servers
<1>. QED
    BY <1>2, <1>3, <1>4 DEF CommandsInv

\* What a lost connection leaves is what was there.
LEMMA LoseStep ==
    ASSUME TypeOK, TypeOK', CommandsInv, Fates, NEW n \in Nodes, Lose(n)
    PROVE  CommandsInv' /\ Fates'
<1>1. UNCHANGED <<config, request, program, thread, executed, delivered>>
    BY DEF Lose
<1>2. queue \in Queues /\ queue[n] \in Seq(Command)
    BY DEF TypeOK, Queues
<1>3. PICK l \in Nat : l = Len(queue[n]) /\ DOMAIN queue[n] = 1 .. l
    BY <1>2, LenProperties
<1>4. PICK i \in 1 .. l, k \in 1 .. l :
          /\ i <= k
          /\ queue' = [queue EXCEPT ![n] =
                           SubSeq(@, 1, i - 1) \o SubSeq(@, k + 1, Len(@))]
    BY <1>3, LostQueue
<1>5. PICK t : t = SubSeq(queue[n], 1, i - 1) \o SubSeq(queue[n], k + 1, Len(queue[n]))
    OBVIOUS
<1>6. /\ DOMAIN t = 1 .. l - (k - i + 1)
      /\ \A j \in DOMAIN t : t[j] = IF j < i THEN queue[n][j] ELSE queue[n][j + (k - i + 1)]
  <2>1. PICK s \in Seq(Command) : s = queue[n]
      BY <1>2
  <2>2. Len(s) = l /\ i \in 1 .. Len(s) /\ k \in 1 .. Len(s) /\ i <= k
      BY <1>3, <1>4, <2>1
  <2>. DEFINE e == SubSeq(s, 1, i - 1) \o SubSeq(s, k + 1, Len(s))
  <2>3. /\ DOMAIN e = 1 .. Len(s) - (k - i + 1)
        /\ \A j \in DOMAIN e : e[j] = IF j < i THEN s[j] ELSE s[j + (k - i + 1)]
      BY <2>2, CutOut
  <2>4. t = e
      BY <1>5, <2>1
  <2>. HIDE DEF e
  <2>. QED
      BY <2>1, <2>2, <2>3, <2>4
<1>7. queue'[n] = t /\ \A m \in Nodes : m # n => queue'[m] = queue[m]
    BY <1>2, <1>4, <1>5 DEF Queues
<1>. DEFINE from(j) == IF j < i THEN j ELSE j + (k - i + 1)
<1>8. \A j \in DOMAIN t : from(j) \in DOMAIN queue[n] /\ t[j] = queue[n][from(j)]
    BY <1>3, <1>4, <1>6
<1>9. \A a, b \in DOMAIN t : from(a) = from(b) => a = b
    BY <1>4, <1>6
<1>. HIDE DEF from
<1>10. Kept
    BY <1>7, <1>8 DEF Kept, ToSet
<1>11. SingleInv'
  <2>. SUFFICES ASSUME NEW a \in Nodes, NEW b \in Nodes, NEW x \in DOMAIN queue'[a],
                       NEW y \in DOMAIN queue'[b], queue'[a][x].req = queue'[b][y].req
                PROVE  a = b /\ x = y
      BY DEF SingleInv, Single
  <2>1. CASE a = n /\ b = n
    <3>1. from(x) = from(y)
        BY <1>7, <1>8, <2>1 DEF CommandsInv, SingleInv, Single
    <3>. QED
        BY <1>7, <1>9, <2>1, <3>1
  <2>2. CASE a = n /\ b # n
      BY <1>7, <1>8, <2>2 DEF CommandsInv, SingleInv, Single
  <2>3. CASE a # n /\ b = n
      BY <1>7, <1>8, <2>3 DEF CommandsInv, SingleInv, Single
  <2>4. CASE a # n /\ b # n
      BY <1>7, <2>4 DEF CommandsInv, SingleInv, Single
  <2>. QED
      BY <2>1, <2>2, <2>3, <2>4
<1>. QED
    BY <1>1, <1>10, <1>11, Frame DEF config, request, program, thread

\* The steps that leave the queues, the requests and the configuration alone.
LEMMA QuietStep ==
    ASSUME TypeOK, TypeOK', CommandsInv, Fates,
           \/ UNCHANGED vars
           \/ Update \/ NodeNotConnected \/ NodeServed \/ SwitchPending \/ SwitchStable
           \/ \E r \in Ids : ReducePending(r)
           \/ \E s \in Slots : StartMove(s) \/ EndMove(s)
           \/ \E k \in Keys : MoveKey(k)
           \/ \E n \in Nodes, s \in Slots : Gossip(n, s)
    PROVE  CommandsInv' /\ Fates'
<1>1. /\ UNCHANGED <<config, request, program, broken, queue, executed, delivered>>
      /\ \/ UNCHANGED <<pc, cur>>
         \/ pc \in {"idle", "node", "serve", "switch", "reduce"}
            /\ pc' \in {"idle", "node", "switch", "reduce"}
            /\ (pc' = "reduce" => pc = "reduce" \/ state = "stable")
  <2>1. CASE UNCHANGED vars
      BY <2>1 DEF vars, thread, servers
  <2>2. CASE Update
      BY <2>2 DEF Update, servers
  <2>3. CASE NodeNotConnected \/ NodeServed
      BY <2>3 DEF NodeNotConnected, NodeServed, AfterNode, servers
  <2>4. CASE SwitchPending \/ SwitchStable
      BY <2>4 DEF SwitchPending, SwitchStable, Switch, servers
  <2>5. CASE \E r \in Ids : ReducePending(r)
      BY <2>5, AfterRequestPc DEF ReducePending, Reduce, servers
  <2>6. CASE \/ \E s \in Slots : StartMove(s) \/ EndMove(s)
             \/ \E k \in Keys : MoveKey(k)
             \/ \E n \in Nodes, s \in Slots : Gossip(n, s)
      BY <2>6 DEF StartMove, EndMove, MoveKey, Gossip, thread, servers
  <2>. QED
      BY <2>1, <2>2, <2>3, <2>4, <2>5, <2>6
<1>2. Kept /\ SingleInv'
    BY <1>1 DEF Kept, CommandsInv, SingleInv, Single
<1>. QED
    BY <1>1, <1>2, Frame DEF config, request, program

-----------------------------------------------------------------------------
(* The invariants hold                                                     *)

Inv == TypeOK /\ CommandsInv /\ Fates

LEMMA InitInv == Init => Inv
<1>. SUFFICES ASSUME Init PROVE Inv
    OBVIOUS
<1>1. TypeOK
    BY InitType
<1>2. ToSet(<<>>) = {} /\ IsInjective(<<>>) /\ DOMAIN <<>> = {}
    BY DEF ToSet, IsInjective
<1>3. CommandInv /\ SingleInv /\ RequestInv
    BY <1>2 DEF Init, CommandInv, SingleInv, Single, RequestInv
<1>4. ConfigInv
    BY <1>2 DEF Init, ConfigInv
<1>5. TruthInv
    BY <1>2, ClusterAssumption DEF Init, TruthInv
<1>6. DeliveredInv
    BY <1>2 DEF Init, DeliveredInv
<1>. QED
    BY <1>1, <1>3, <1>4, <1>5, <1>6 DEF Inv, CommandsInv, Fates

LEMMA InvStep ==
    ASSUME Inv, [Next]_vars
    PROVE  Inv'
<1>1. TypeOK /\ CommandsInv /\ Fates /\ TypeOK'
    BY TypeStep DEF Inv, CommandsInv
<1>2. CASE UNCHANGED vars \/ Update
    BY <1>1, <1>2, QuietStep DEF Inv
<1>3. CASE Call
    BY <1>1, <1>3, MakeStep DEF Inv
<1>4. CASE Updating
  <2>1. CASE \E n \in Nodes : NodeSends(n)
      BY <1>1, <2>1, SendsStep DEF Inv
  <2>2. CASE \E n \in Nodes : Serve(n)
      BY <1>1, <2>2, ServeRunStep, ServeAskingStep, ServeSlotsStep DEF Inv, Serve
  <2>3. CASE NodeNotConnected \/ NodeServed \/ SwitchPending \/ SwitchStable
             \/ \E r \in Ids : ReducePending(r)
      BY <1>1, <2>3, QuietStep DEF Inv
  <2>4. CASE SwitchDirty \/ SwitchIncomplete
      BY <1>1, <2>4, DirtyStep, IncompleteStep DEF Inv
  <2>5. CASE \E r \in Ids : ReduceUnsent(r) \/ ReduceAsk(r) \/ ReduceMoved(r)
      BY <1>1, <2>5, UnsentStep, RedirectStep DEF Inv
  <2>6. CASE \E r \in Ids : ReduceReady(r)
      BY <1>1, <2>6, ReadyStep DEF Inv
  <2>7. CASE ReduceDelete
      BY <1>1, <2>7, DeleteStep DEF Inv
  <2>. QED
      BY <1>4, <2>1, <2>2, <2>3, <2>4, <2>5, <2>6, <2>7 DEF Updating
<1>5. CASE External
  <2>1. CASE \E n \in Nodes : ServerRuns(n)
      BY <1>1, <2>1, ServerStep DEF Inv
  <2>2. CASE \E n \in Nodes : Lose(n)
      BY <1>1, <2>2, LoseStep DEF Inv
  <2>3. CASE \/ \E s \in Slots : StartMove(s) \/ EndMove(s)
             \/ \E k \in Keys : MoveKey(k)
             \/ \E n \in Nodes, s \in Slots : Gossip(n, s)
      BY <1>1, <2>3, QuietStep DEF Inv
  <2>. QED
      BY <1>5, <2>1, <2>2, <2>3 DEF External
<1>. QED
    BY <1>2, <1>3, <1>4, <1>5 DEF Next

LEMMA Invariance == Spec => []Inv
<1>1. Init => Inv
    BY InitInv
<1>2. Inv /\ [Next]_vars => Inv'
    BY InvStep
<1>. QED
    BY <1>1, <1>2, PTL DEF Spec

-----------------------------------------------------------------------------
(* The theorems                                                            *)

\* Every variable of the cluster's client keeps to its type, no node and no
\* request is on its list twice, and the node being updated or the request being
\* reduced is on its list: Update never goes on from an element that is gone.
THEOREM TypeCorrect == Spec => []TypeOK
<1>1. Inv => TypeOK
    BY DEF Inv
<1>. QED
    BY <1>1, Invariance, PTL

\* The commands of a request, when no two commands in the clients of the nodes
\* are of the same request.
LEMMA OneCommand ==
    ASSUME TypeOK, SingleInv, NEW r, CommandsOf(r) # {}
    PROVE  Cardinality(CommandsOf(r)) = 1
<1>1. PICK p : p \in CommandsOf(r)
    OBVIOUS
<1>2. \A q \in CommandsOf(r) : \E n \in Nodes : \E i \in DOMAIN queue[n] :
          q = <<n, i>> /\ queue[n][i].req = r
    BY DEF CommandsOf
<1>3. \A q \in CommandsOf(r) : q = p
    BY <1>1, <1>2 DEF SingleInv, Single
<1>4. CommandsOf(r) = {p}
    BY <1>1, <1>3
<1>. QED
    BY <1>4, FS_Singleton

\* The callback of a node's client finds the request it was made for, on the list
\* and waiting: the pointer its lambda has captured is good.
THEOREM CallbackCorrect == Spec => []CallbackFindsRequest
<1>1. Inv => CallbackFindsRequest
  <2>. SUFFICES ASSUME Inv, NEW r \in Ids, CommandsOf(r) # {}
                PROVE  /\ r \in ToSet(requestList) /\ rstate[r] = "pending"
                       /\ Cardinality(CommandsOf(r)) = 1
      BY DEF CallbackFindsRequest
  <2>0. PICK n \in Nodes : \E i \in DOMAIN queue[n] : queue[n][i].req = r
      BY DEF CommandsOf
  <2>1. PICK i \in DOMAIN queue[n] : queue[n][i].req = r
      BY <2>0
  <2>2. queue[n][i] \in ToSet(queue[n])
      BY DEF ToSet
  <2>3. r # -1
      BY ClusterAssumption DEF Ids
  <2>4. r \in ToSet(requestList) /\ rstate[r] = "pending"
      BY <2>1, <2>2, <2>3 DEF Inv, CommandsInv, CommandInv
  <2>. QED
      BY <2>4, OneCommand DEF Inv, CommandsInv
<1>. QED
    BY <1>1, Invariance, PTL

\* Commands wait only in the clients of the nodes on the list, which Update gets
\* to: none is queued at a node whose client ProcessClusterConfig has deleted.
THEOREM NodesCorrect == Spec => []CommandsAtListedNodes
<1>1. Inv => CommandsAtListedNodes
    BY DEF Inv, CommandsInv, ConfigInv, CommandsAtListedNodes
<1>. QED
    BY <1>1, Invariance, PTL

\* There is one CLUSTER SLOTS under way at most, and only in STATE_PENDING.
THEOREM QueryCorrect == Spec => []OneQuery
<1>1. Inv => OneQuery
  <2>. SUFFICES ASSUME Inv, CommandsOf(-1) # {}
                PROVE  state = "pending" /\ Cardinality(CommandsOf(-1)) = 1
      BY DEF OneQuery
  <2>0. PICK n \in Nodes : \E i \in DOMAIN queue[n] : queue[n][i].req = -1
      BY DEF CommandsOf
  <2>1. PICK i \in DOMAIN queue[n] : queue[n][i].req = -1
      BY <2>0
  <2>2. queue[n][i] \in ToSet(queue[n])
      BY DEF ToSet
  <2>3. \A r \in ToSet(requestList) : r # -1
      BY ListedAreIds, ClusterAssumption DEF Ids, Inv
  <2>4. state = "pending"
      BY <2>1, <2>2, <2>3 DEF Inv, CommandsInv, CommandInv
  <2>. QED
      BY <2>4, OneCommand DEF Inv, CommandsInv
<1>. QED
    BY <1>1, Invariance, PTL

\* Requests are reduced only in STATE_STABLE, where a node on the list handles
\* every slot, however many answers, redirections and migrations came before.
THEOREM ReduceCorrect == Spec => []ReducesConfigured
<1>1. Inv => ReducesConfigured
    BY DEF Inv, CommandsInv, ConfigInv, ReducesConfigured, Listed
<1>. QED
    BY <1>1, Invariance, PTL

\* No node runs the command of a request twice, and the callback of a request is
\* called once at most, with the success of a command that a node has run or the
\* error of one that none has.
THEOREM AnswerCorrect == Spec => []AnswersTrue
<1>1. Inv => AnswersTrue
    BY DEF Inv, Fates, TruthInv, DeliveredInv, AnswersTrue
<1>. QED
    BY <1>1, Invariance, PTL
=============================================================================
