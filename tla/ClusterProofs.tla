---------------------------- MODULE ClusterProofs ---------------------------
(***************************************************************************)
(* Theorems about Cluster, for any number of masters, slaves, slots, keys, *)
(* migrations and faults.                                                  *)
(***************************************************************************)
EXTENDS Cluster, FiniteSetTheorems, WellFoundedInduction, TLAPS

-----------------------------------------------------------------------------
(* The inductive invariants                                                *)

MigrationStates == {"MARK_IMPORTING", "MARK_MIGRATING", "MIGRATING_KEYS", "UNMARK",
                    "WAIT_FOR_GOSSIP", "BAIL", "WAITING"}

Migrations == [state : MigrationStates, source : Masters, destination : Masters,
               slot : Slots, countdown : 0 .. GossipCountdown]

AsyncRequests == [state : {"unsent", "sent", "ok", "error"}, at : Masters,
                  command : {"IMPORTING", "MIGRATING"}, then : MigrationStates]

SyncRequests == [state : {"sync"}, key : Keys]

\* What TypeOK leaves open.
ShapesOK ==
    /\ migration = NoMigration \/ migration \in Migrations
    /\ request = NoRequest \/ request \in AsyncRequests \/ request \in SyncRequests
    /\ faults \in Nat /\ migrations \in Nat

\* A migration that waits is all that has an asynchronous request, and one that
\* moves keys a synchronous one.
RequestInv ==
    /\ request \in AsyncRequests => migration \in Migrations /\ migration.state = "WAITING"
    /\ request \in SyncRequests => pc = "migrate"
    /\ pc = "migrate" => /\ request \in SyncRequests
                         /\ migration \in Migrations /\ migration.state = "MIGRATING_KEYS"
    /\ pc = "unmark" => migration \in Migrations /\ migration.state = "UNMARK"

Types == TypeOK /\ ShapesOK /\ RequestInv

\* Where Setup is in the slots when it has come to node i.
Position ==
    /\ i <= NumNodes
    /\ i = NumNodes => slot >= SlotsPerMaster * NumMasters
    /\ i \in Masters => slot \in SlotBase(i) .. SlotBase(i) + SlotsPerMaster
    /\ i \in Nodes \ Masters => slot = SlotBase(i) + SlotsPerMaster

\* From the one that Setup has come to the slots are free.
FreeInv ==
    /\ pc = "spawn" => \A n \in Masters, s \in Slots : view[n][s] = None
    /\ pc = "slots" => Position /\ \A n \in Masters, s \in Slots : s >= slot => view[n][s] = None

Unslaved(from) ==
    \A n \in Nodes : slaveOf[n] = IF n >= from \/ n \in Masters THEN None ELSE MasterOf(n)

\* As long as nothing has gone wrong, those before it are assigned, and so are the
\* slaves before the one it has come to.
SetupInv ==
    faults = 0 =>
        /\ pc # "failed"
        /\ pc = "spawn" => Unslaved(0)
        /\ pc = "slots" => /\ ids = Nodes /\ Unslaved(0)
                           /\ \A s \in Slots : s < slot => claim[s] # None
        /\ pc = "replicate" => /\ ids = Nodes /\ Unslaved(i)
                               /\ \A s \in Slots : claim[s] # None
        /\ SetupComplete

Clean(s) == s \notin unheard \union remarked

\* The destination of the slot has been told that it is the owner, and the source not.
Told(s) == pc = "unmark" /\ migration.slot = s

\* The masters in a line.
Lines == {rank \in [Masters -> 0 .. NumMasters - 1] :
              \A x, y \in Masters : rank[x] = rank[y] => x = y}

\* The masters can be lined up behind the owner of the slot so that each believes it
\* belongs to one that is further ahead.
Ahead(s, rank) ==
    /\ \A x \in Masters : view[x][s] \notin {None, x} => rank[view[x][s]] < rank[x]
    /\ \A x \in Masters : claim[s] \notin {None, x} => rank[claim[s]] < rank[x]

\* The owner knows that it is one, and no other believes that it is, but for a source
\* that has not been told.
Owned(s) ==
    /\ \A x \in Masters : view[x][s] # None => claim[s] # None
    /\ claim[s] # None => view[claim[s]][s] = claim[s]
    /\ \A x \in Masters : view[x][s] = x =>
           x = claim[s] \/ (Told(s) /\ x = migration.source /\ migrating[x][s] = claim[s])

\* Where a slot is marked as migrating it is the owner's, and marked as importing at
\* the other end.
Marked(s) ==
    \A x \in Masters : migrating[x][s] # None =>
        \/ ~Told(s) /\ x = claim[s] /\ importing[migrating[x][s]][s] # None
        \/ Told(s) /\ x = migration.source /\ x # claim[s] /\ migrating[x][s] = claim[s]

\* The keys are at the owner, or where it sends for them.
Kept(s) ==
    \A k \in Keys : KeySlot[k] = s /\ keyAt[k] \notin {None, claim[s]} =>
        claim[s] # None /\ keyAt[k] = migrating[claim[s]][s]

SlotInv(s) ==
    /\ \E rank \in Lines : Ahead(s, rank)
    /\ Owned(s) /\ Marked(s) /\ Kept(s)

SlotsInv == \A s \in Slots : Clean(s) => SlotInv(s)

ImportInv == \A n \in Masters, s \in Slots : importing[n][s] # None => view[n][s] # n

\* The destination lets the keys in; the source owns the slot and sends for them; it has
\* none left.
Imported == importing[migration.destination][migration.slot] # None
Leaves   == /\ claim[migration.slot] = migration.source
            /\ migrating[migration.source][migration.slot] = migration.destination
Emptied  == \A k \in Keys : KeySlot[k] = migration.slot => keyAt[k] # migration.source

\* What the request of a migration is, and has done by now.
RequestSays ==
    /\ request \in AsyncRequests /\ request.command = "IMPORTING" =>
          /\ request.at = migration.destination /\ request.then = "MARK_MIGRATING"
          /\ request.state = "ok" /\ Clean(migration.slot) => Imported
    /\ request \in AsyncRequests /\ request.command = "MIGRATING" =>
          /\ request.at = migration.source /\ request.then = "MIGRATING_KEYS"
          /\ Clean(migration.slot) => Imported
          /\ request.state = "ok" /\ Clean(migration.slot) => Leaves
    /\ request \in SyncRequests => KeySlot[request.key] = migration.slot

\* What the migration has done.
MigrationSays ==
    migration # NoMigration /\ Clean(migration.slot) =>
        /\ migration.state \in {"MARK_IMPORTING", "MARK_MIGRATING", "WAITING"} =>
              migrating[migration.source][migration.slot] \in {None, migration.destination}
        /\ migration.state = "MARK_MIGRATING" => Imported
        /\ migration.state \in {"MIGRATING_KEYS", "UNMARK"} /\ pc # "unmark" => Leaves
        /\ migration.state = "UNMARK" => Emptied
        /\ pc = "unmark" => /\ claim[migration.slot] = migration.destination
                            /\ migration.source # migration.destination

\* Nothing is imported, and no request is out, before Setup has returned.
NoneYet ==
    pc \in {"spawn", "slots", "replicate", "failed"} =>
        request = NoRequest /\ \A n \in Masters, s \in Slots : importing[n][s] = None

KeysInv == /\ Types /\ FreeInv /\ NoneYet
           /\ SlotsInv /\ ImportInv /\ RequestSays /\ MigrationSays

-----------------------------------------------------------------------------
(* Numbers                                                                 *)

LEMMA OneQuotient ==
    \A k, p, q \in Nat : \A s \in 0 .. k : (1 + k) * q = (1 + k) * p + s => s = 0 /\ p = q
<1>. SUFFICES ASSUME NEW k \in Nat, NEW p \in Nat, NEW q \in Nat, NEW s \in 0 .. k,
                     (1 + k) * q = (1 + k) * p + s
              PROVE  s = 0 /\ p = q
    OBVIOUS
<1>1. CASE q <= p
  <2>1. PICK d \in Nat : p = q + d
      BY <1>1
  <2>2. (1 + k) * p = (1 + k) * q + (1 + k) * d /\ (1 + k) * d \in Nat
      BY <2>1
  <2>3. (1 + k) * d = 0 /\ s = 0
      BY <2>2
  <2>4. d = 0
      BY <2>3
  <2>. QED
      BY <2>1, <2>3, <2>4
<1>2. CASE q > p
  <2>1. PICK d \in Nat : q = p + 1 + d
      BY <1>2
  <2>2. (1 + k) * q = (1 + k) * p + (1 + k) + (1 + k) * d /\ (1 + k) * d \in Nat
      BY <2>1
  <2>. QED
      BY <2>2
<1>. QED
    BY <1>1, <1>2

\* Masters are every (1 + NumSlavesPerMaster)th node.
Group(n) == n \div (1 + NumSlavesPerMaster)

LEMMA Sizes ==
    /\ NumNodes = (1 + NumSlavesPerMaster) * NumMasters /\ NumNodes \in Nat \ {0}
    /\ SlotsPerMaster \in Nat /\ SlotsPerMaster * NumMasters \in 0 .. TotalSlots
    /\ TotalSlots \in Nat \ {0}
<1>1. NumNodes = (1 + NumSlavesPerMaster) * NumMasters /\ NumNodes \in Nat \ {0}
    BY SizesAssumption DEF NumNodes
<1>2. TotalSlots \in Nat \ {0} /\ NumMasters \in Nat \ {0}
    BY SizesAssumption
<1>3. PICK r \in 0 .. NumMasters - 1 : TotalSlots = NumMasters * (TotalSlots \div NumMasters) + r
    BY <1>2
<1>4. TotalSlots \div NumMasters \in Nat
    BY <1>2
<1>. QED
    BY <1>1, <1>2, <1>3, <1>4 DEF SlotsPerMaster

LEMMA Divide ==
    ASSUME NEW k \in Nat, NEW n \in Nat
    PROVE  \E q \in Nat, r \in 0 .. k :
               n \div (1 + k) = q /\ n % (1 + k) = r /\ n = (1 + k) * q + r
<1>1. n \div (1 + k) \in Nat
    OBVIOUS
<1>2. n % (1 + k) \in 0 .. k
    OBVIOUS
<1>3. n = (1 + k) * (n \div (1 + k)) + (n % (1 + k))
    OBVIOUS
<1>. QED
    BY <1>1, <1>2, <1>3, Zenon

\* A node has its place in the group of its master.
LEMMA Grouped ==
    ASSUME NEW n \in Nat
    PROVE  \E r \in 0 .. NumSlavesPerMaster :
               /\ Group(n) \in Nat /\ n = (1 + NumSlavesPerMaster) * Group(n) + r
               /\ MasterOf(n) = n - r /\ MasterOf(n) \in 0 .. n
               /\ n % (1 + NumSlavesPerMaster) = r
<1>1. NumSlavesPerMaster \in Nat
    BY SizesAssumption
<1>2. PICK q \in Nat, r \in 0 .. NumSlavesPerMaster :
          /\ n \div (1 + NumSlavesPerMaster) = q /\ n % (1 + NumSlavesPerMaster) = r
          /\ n = (1 + NumSlavesPerMaster) * q + r
    BY <1>1, Divide
<1>3. MasterOf(n) = n - r /\ n - r \in Nat /\ n - r <= n
  <2>1. PICK p \in Nat : p = (1 + NumSlavesPerMaster) * q
      BY <1>1
  <2>2. n = p + r /\ n - r = p
      BY <1>2, <2>1
  <2>3. MasterOf(n) = n - r
      BY <1>2 DEF MasterOf
  <2>. QED
      BY <2>2, <2>3
<1>4. Group(n) = q
    BY <1>2 DEF Group
<1>5. MasterOf(n) \in 0 .. n
    BY <1>3
<1>. QED
    BY <1>2, <1>3, <1>4, <1>5, Zenon

LEMMA MasterNodes ==
    /\ 0 \in Masters /\ Masters \subseteq Nodes /\ Nodes \subseteq Nat
    /\ None \notin Masters /\ None \notin Nat
    /\ \A n \in Nodes : MasterOf(n) \in Masters
<1>1. 0 % (1 + NumSlavesPerMaster) = 0
    BY SizesAssumption
<1>2. 0 \in Nodes /\ Nodes \subseteq Nat /\ Masters \subseteq Nodes /\ None \notin Nat
    BY Sizes, SizesAssumption DEF Nodes, Masters
<1>3. 0 \in Masters
    BY <1>1, <1>2 DEF Masters, MasterOf
<1>4. ASSUME NEW n \in Nodes PROVE MasterOf(n) \in Masters
  <2>1. n \in Nat /\ NumSlavesPerMaster \in Nat
      BY <1>2, SizesAssumption
  <2>2. PICK r \in 0 .. NumSlavesPerMaster :
            /\ Group(n) \in Nat /\ n = (1 + NumSlavesPerMaster) * Group(n) + r
            /\ MasterOf(n) = n - r /\ MasterOf(n) \in 0 .. n
      BY <2>1, Grouped
  <2>3. PICK q \in Nat : q = Group(n)
      BY <2>2
  <2>4. PICK m \in Nat : m = MasterOf(n) /\ m = (1 + NumSlavesPerMaster) * q /\ m <= n
      BY <2>1, <2>2, <2>3
  <2>5. PICK s \in 0 .. NumSlavesPerMaster :
            m = (1 + NumSlavesPerMaster) * Group(m) + s /\ MasterOf(m) = m - s /\ Group(m) \in Nat
      BY <2>4, Grouped
  <2>6. PICK p \in Nat : p = Group(m)
      BY <2>5
  <2>7. (1 + NumSlavesPerMaster) * q = (1 + NumSlavesPerMaster) * p + s
      BY <2>4, <2>5, <2>6
  <2>8. s = 0
      BY <2>1, <2>7, OneQuotient
  <2>9. MasterOf(m) = m
      BY <2>4, <2>5, <2>8
  <2>10. m \in Nodes
      BY <2>1, <2>4, Sizes DEF Nodes
  <2>. QED
      BY <2>4, <2>9, <2>10 DEF Masters
<1>. QED
    BY <1>2, <1>3, <1>4 DEF Masters

-----------------------------------------------------------------------------
(* Following redirections                                                  *)

Owners == Masters \union {None}
Views == [Masters -> [Slots -> Owners]]
Steps == [at : Masters, asking : BOOLEAN, runs : BOOLEAN]

Start(n) == [at |-> n, asking |-> FALSE, runs |-> FALSE]
Goes(k, h) == IF h.runs THEN h ELSE Hop(k, h)

LEMMA LeastNat ==
    ASSUME NEW T \in SUBSET Nat, T # {}
    PROVE  \E m \in T : \A k \in T : m <= k
<1>1. IsWellFoundedOn(OpToRel(<, Nat), Nat)
    BY NatLessThanWellFounded
<1>2. PICK m \in T : \A k \in T : ~ (<<k, m>> \in OpToRel(<, Nat))
    BY <1>1, WFMin
<1>3. \A k \in T : ~(k < m)
    BY <1>2 DEF OpToRel
<1>. QED
    BY <1>3

\* What is true of the first and handed on from each to the next is true of all.
LEMMA HandedOn ==
    ASSUME NEW n \in Nat, NEW T \in SUBSET (0 .. n), 0 \in T,
           \A k \in 1 .. n : k - 1 \in T => k \in T
    PROVE  T = 0 .. n
<1>. DEFINE U == (0 .. n) \ T
<1>1. SUFFICES ASSUME U # {} PROVE FALSE
    OBVIOUS
<1>2. U \in SUBSET Nat
    OBVIOUS
<1>3. PICK m \in U : \A k \in U : m <= k
    BY <1>2, <1>1, LeastNat
<1>4. m \in 1 .. n /\ m - 1 \in 0 .. n /\ m - 1 \notin U
    BY <1>3
<1>. QED
    BY <1>4

\* n rounds of a function.
Rounds(f, n, a, G) == f[0] = a /\ \A k \in 1 .. n : f[k] = G[f[k - 1]]

LEMMA RoundsExist ==
    ASSUME NEW S, NEW G \in [S -> S], NEW a \in S, NEW c \in Nat
    PROVE  \E f \in [0 .. c -> S] : Rounds(f, c, a, G)
<1>. DEFINE T == {n \in 0 .. c : \E f \in [0 .. n -> S] : Rounds(f, n, a, G)}
<1>1. 0 \in T
  <2>. DEFINE f == [k \in 0 .. 0 |-> a]
  <2>1. f \in [0 .. 0 -> S] /\ Rounds(f, 0, a, G)
      BY DEF Rounds
  <2>. QED
      BY <2>1
<1>2. ASSUME NEW n \in 1 .. c, n - 1 \in T PROVE n \in T
  <2>1. PICK f \in [0 .. n - 1 -> S] : Rounds(f, n - 1, a, G)
      BY <1>2
  <2>2. PICK m \in S : m = f[n - 1]
      BY <1>2
  <2>3. PICK u \in S : u = G[m]
      OBVIOUS
  <2>. DEFINE g == [k \in 0 .. n |-> IF k = n THEN u ELSE f[k]]
  <2>4. g \in [0 .. n -> S]
      OBVIOUS
  <2>5. g[n] = u /\ \A k \in 0 .. n - 1 : k \in 0 .. n /\ g[k] = f[k]
      OBVIOUS
  <2>. HIDE DEF g
  <2>6. g[0] = a
      BY <2>1, <2>5 DEF Rounds
  <2>7. ASSUME NEW k \in 1 .. n PROVE g[k] = G[g[k - 1]]
    <3>1. CASE k = n
        BY <2>2, <2>3, <2>5, <3>1
    <3>2. CASE k \in 1 .. n - 1
      <4>1. f[k] = G[f[k - 1]] /\ k \in 0 .. n - 1 /\ k - 1 \in 0 .. n - 1
          BY <2>1, <3>2 DEF Rounds
      <4>2. g[k] = f[k] /\ g[k - 1] = f[k - 1]
          BY <2>5, <4>1
      <4>. QED
          BY <4>1, <4>2
    <3>. QED
        BY <3>1, <3>2
  <2>8. Rounds(g, n, a, G)
      BY <2>6, <2>7 DEF Rounds
  <2>. QED
      BY <2>4, <2>8
<1>. HIDE DEF T
<1>3. T \in SUBSET (0 .. c)
    BY DEF T
<1>4. T = 0 .. c
    BY <1>1, <1>2, <1>3, HandedOn
<1>5. c \in T
    BY <1>4
<1>. QED
    BY <1>5 DEF T

LEMMA HopType ==
    ASSUME view \in Views, migrating \in Views, NEW k \in Keys, NEW h \in Steps
    PROVE  Goes(k, h) \in Steps
<1>1. KeySlot[k] \in Slots /\ h.at \in Masters /\ h.asking \in BOOLEAN /\ h.runs \in BOOLEAN
    BY SizesAssumption DEF Slots, Steps
<1>2. PICK v \in Owners, m \in Owners : v = view[h.at][KeySlot[k]] /\ m = migrating[h.at][KeySlot[k]]
    BY <1>1 DEF Views
<1>3. [h EXCEPT !.runs = TRUE] \in Steps
    BY DEF Steps
<1>. QED
    BY <1>1, <1>2, <1>3 DEF Goes, Hop, Steps, Owners

\* Follow goes from node to node, MaxHops times.
LEMMA FollowIs ==
    ASSUME view \in Views, migrating \in Views, NEW k \in Keys, NEW n \in Masters
    PROVE  /\ MaxHops \in Nat
           /\ \E f \in [0 .. MaxHops -> Steps] :
                 /\ f[0] = Start(n) /\ \A j \in 1 .. MaxHops : f[j] = Goes(k, f[j - 1])
                 /\ Follow(k, n) = f[MaxHops]
<1>. DEFINE G == [h \in Steps |-> Goes(k, h)]
<1>1. G \in [Steps -> Steps]
    BY HopType
<1>2. PICK c \in Nat : c = MaxHops
    BY SizesAssumption DEF MaxHops
<1>3. Start(n) \in Steps
    BY DEF Start, Steps
<1>4. \A h \in Steps : G[h] = Goes(k, h)
    OBVIOUS
<1>. HIDE DEF G
<1>5. PICK f \in [0 .. c -> Steps] : Rounds(f, c, Start(n), G)
    BY <1>1, <1>3, RoundsExist
<1>6. f[0] = Start(n) /\ \A j \in 1 .. c : j - 1 \in 0 .. c /\ f[j] = Goes(k, f[j - 1])
    BY <1>4, <1>5 DEF Rounds
<1>7. PICK w : /\ Follow(k, n) = w[MaxHops]
               /\ w = CHOOSE v : v = [hops \in 0 .. MaxHops |->
                          IF hops = 0 THEN Start(n) ELSE Goes(k, v[hops - 1])]
    BY DEF Follow, Start, Goes
<1>8. f = [hops \in 0 .. c |-> IF hops = 0 THEN Start(n) ELSE Goes(k, f[hops - 1])]
  <2>1. \A j \in 0 .. c : f[j] = IF j = 0 THEN Start(n) ELSE Goes(k, f[j - 1])
      BY <1>6
  <2>. QED
      BY <2>1
<1>9. w = [hops \in 0 .. c |-> IF hops = 0 THEN Start(n) ELSE Goes(k, w[hops - 1])]
    BY <1>2, <1>7, <1>8
<1>10. \A j \in 0 .. c : w[j] = IF j = 0 THEN Start(n) ELSE Goes(k, w[j - 1])
    BY <1>9
<1>. DEFINE T == {j \in 0 .. c : w[j] = f[j]}
<1>11. 0 \in T
    BY <1>6, <1>10
<1>12. ASSUME NEW j \in 1 .. c, j - 1 \in T PROVE j \in T
  <2>1. w[j] = Goes(k, w[j - 1])
      BY <1>10
  <2>2. f[j] = Goes(k, f[j - 1])
      BY <1>6
  <2>. QED
      BY <1>12, <2>1, <2>2
<1>. HIDE DEF T
<1>13. T \in SUBSET (0 .. c)
    BY DEF T
<1>14. T = 0 .. c
    BY <1>11, <1>12, <1>13, HandedOn
<1>15. w[c] = f[c]
    BY <1>14 DEF T
<1>. QED
    BY <1>2, <1>6, <1>7, <1>15

LEMMA FollowType ==
    ASSUME view \in Views, migrating \in Views, NEW k \in Keys, NEW n \in Masters
    PROVE  Follow(k, n) \in Steps
<1>1. PICK c \in Nat : c = MaxHops
    BY FollowIs
<1>2. PICK f \in [0 .. c -> Steps] : Follow(k, n) = f[c]
    BY <1>1, FollowIs
<1>. QED
    BY <1>2

-----------------------------------------------------------------------------
(* Slots of the masters                                                    *)

LEMMA Times ==
    /\ \A a, b, c \in Nat : b <= c => a * b <= a * c
    /\ \A a, b \in Nat : a * b \in Nat /\ a * (b + 1) = a * b + a
    OBVIOUS

LEMMA Smaller ==
    \A a, b, c \in Nat : \A r \in Nat : a * b + r < a * c => b < c
<1>. SUFFICES ASSUME NEW a \in Nat, NEW b \in Nat, NEW c \in Nat, NEW r \in Nat,
                     a * b + r < a * c, c <= b
              PROVE  FALSE
    OBVIOUS
<1>1. a * c <= a * b
    BY Times
<1>. QED
    BY <1>1, Times

\* The slots of a node's group are below those that are left over.
LEMMA Bases ==
    ASSUME NEW n \in Nodes
    PROVE  /\ SlotBase(n) = SlotsPerMaster * Group(n) /\ Group(n) \in Nat
           /\ SlotBase(n) \in Nat
           /\ SlotBase(n) + SlotsPerMaster <= SlotsPerMaster * NumMasters
<1>1. n \in Nat /\ n < NumNodes /\ NumSlavesPerMaster \in Nat /\ NumMasters \in Nat
    BY MasterNodes, Sizes, SizesAssumption DEF Nodes
<1>2. PICK r \in 0 .. NumSlavesPerMaster, q \in Nat :
          q = Group(n) /\ n = (1 + NumSlavesPerMaster) * q + r
    BY <1>1, Grouped
<1>3. q < NumMasters
    BY <1>1, <1>2, Sizes, Smaller
<1>4. SlotBase(n) = SlotsPerMaster * q
    BY <1>2 DEF SlotBase, Group
<1>5. SlotsPerMaster * (q + 1) = SlotsPerMaster * q + SlotsPerMaster /\ SlotsPerMaster * q \in Nat
    BY Sizes, Times
<1>6. SlotsPerMaster * (q + 1) <= SlotsPerMaster * NumMasters
    BY <1>1, <1>3, Sizes, Times
<1>. QED
    BY <1>2, <1>4, <1>5, <1>6

\* The last slot for AddSlots.
LEMMA LastSlots ==
    /\ MaxSlot(NumNodes) = TotalSlots - 1
    /\ \A n \in Nodes : /\ MaxSlot(n) = SlotBase(n) + SlotsPerMaster - 1
                        /\ MaxSlot(n) \in -1 .. TotalSlots - 1
<1>1. NumNodes \notin Nodes
    BY Sizes DEF Nodes
<1>2. ASSUME NEW n \in Nodes
      PROVE  MaxSlot(n) = SlotBase(n) + SlotsPerMaster - 1 /\ MaxSlot(n) \in -1 .. TotalSlots - 1
  <2>1. MaxSlot(n) = SlotBase(n) + SlotsPerMaster - 1
      BY <1>1 DEF MaxSlot
  <2>. QED
      BY <2>1, Bases, Sizes
<1>. QED
    BY <1>2 DEF MaxSlot

\* One CLUSTER ADDSLOTS has some slots in a row.
Row(a, m) == {s \in Slots : a <= s /\ s < a + SlotsPerCommand /\ s <= m}

LEMMA NewSlots ==
    ASSUME NEW a \in Nat, NEW m \in Int, m < TotalSlots, a <= m
    PROVE  \E h \in a .. m : Row(a, m) = a .. h /\ Cardinality(Row(a, m)) = h - a + 1
<1>1. SlotsPerCommand \in Nat \ {0} /\ TotalSlots \in Nat \ {0}
    BY SizesAssumption
<1>2. PICK h \in a .. m : (h = a + SlotsPerCommand - 1 \/ h = m) /\ h <= a + SlotsPerCommand - 1
  <2>1. PICK b \in Int : b = a + SlotsPerCommand - 1 /\ a <= b
      BY <1>1
  <2>2. CASE b <= m
      BY <2>1, <2>2
  <2>3. CASE m < b
      BY <2>1, <2>3
  <2>. QED
      BY <2>1, <2>2, <2>3
<1>3. Row(a, m) = a .. h
  <2>1. \A s \in a .. h : s \in Row(a, m)
      BY <1>1, <1>2 DEF Slots, Row
  <2>2. \A s \in Row(a, m) : s \in a .. h
      BY <1>1, <1>2 DEF Slots, Row
  <2>3. \A s : s \in Row(a, m) <=> s \in a .. h
      BY <2>1, <2>2, Zenon
  <2>. QED
      BY <2>3, Zenon
<1>4. Cardinality(a .. h) = h - a + 1
    BY FS_Interval
<1>. QED
    BY <1>3, <1>4

-----------------------------------------------------------------------------
(* Types                                                                   *)

ClusterTypes ==
    /\ view \in Views /\ migrating \in Views /\ importing \in Views
    /\ claim \in [Slots -> Owners] /\ keyAt \in [Keys -> Owners] /\ slaveOf \in [Nodes -> Owners]

LEMMA TypesOfCluster == TypeOK => ClusterTypes
    BY DEF TypeOK, ClusterTypes, Views, Owners

LEMMA SetAt ==
    ASSUME NEW f \in Views, NEW n \in Masters, NEW s \in Slots, NEW v \in Owners,
           NEW g, g = [f EXCEPT ![n][s] = v]
    PROVE  /\ g \in Views
           /\ \A x \in Masters, t \in Slots : g[x][t] = IF x = n /\ t = s THEN v ELSE f[x][t]
    BY DEF Views

\* What CLUSTER SETSLOT s NODE d changes at node n.
LEMMA SetNodeIs ==
    ASSUME ClusterTypes, NEW n \in Masters, NEW s \in Slots, NEW d \in Masters, SetNode(n, s, d)
    PROVE  /\ view' \in Views /\ migrating' \in Views /\ importing' \in Views
           /\ claim' \in [Slots -> Owners]
           /\ \/ ~CanSetNode(n, s, d) /\ UNCHANGED <<view, claim, importing, migrating>>
              \/ /\ CanSetNode(n, s, d)
                 /\ \A x \in Masters, t \in Slots :
                       /\ view'[x][t] = IF x = n /\ t = s THEN d ELSE view[x][t]
                       /\ importing'[x][t] = IF x = n /\ t = s /\ n = d THEN None
                                             ELSE importing[x][t]
                       /\ migrating'[x][t] = IF x = n /\ t = s /\ ~Holds(n, s) THEN None
                                             ELSE migrating[x][t]
                 /\ \A t \in Slots : claim'[t] = IF t = s /\ n = d /\ importing[n][s] # None
                                                 THEN d ELSE claim[t]
<1>1. CASE ~CanSetNode(n, s, d)
    BY <1>1 DEF SetNode, ClusterTypes
<1>2. CASE CanSetNode(n, s, d)
  <2>. DEFINE imp == IF n = d THEN None ELSE importing[n][s]
              mig == IF Holds(n, s) THEN migrating[n][s] ELSE None
              own == IF n = d /\ importing[n][s] # None THEN d ELSE claim[s]
  <2>1. d \in Owners /\ imp \in Owners /\ mig \in Owners /\ own \in Owners
      BY DEF Owners, ClusterTypes, Views
  <2>2. /\ view' = [view EXCEPT ![n][s] = d] /\ claim' = [claim EXCEPT ![s] = own]
        /\ importing' = [importing EXCEPT ![n][s] = imp]
        /\ migrating' = [migrating EXCEPT ![n][s] = mig]
      BY <1>2 DEF SetNode
  <2>. HIDE DEF imp, mig, own
  <2>3. view \in Views /\ migrating \in Views /\ importing \in Views /\ claim \in [Slots -> Owners]
      BY DEF ClusterTypes
  <2>4. /\ view' \in Views
        /\ \A x \in Masters, t \in Slots :
              view'[x][t] = IF x = n /\ t = s THEN d ELSE view[x][t]
      BY <2>1, <2>2, <2>3 DEF Views
  <2>5. /\ importing' \in Views
        /\ \A x \in Masters, t \in Slots :
              importing'[x][t] = IF x = n /\ t = s THEN imp ELSE importing[x][t]
      BY <2>1, <2>2, <2>3 DEF Views
  <2>6. /\ migrating' \in Views
        /\ \A x \in Masters, t \in Slots :
              migrating'[x][t] = IF x = n /\ t = s THEN mig ELSE migrating[x][t]
      BY <2>1, <2>2, <2>3 DEF Views
  <2>7. /\ claim' \in [Slots -> Owners]
        /\ \A t \in Slots : claim'[t] = IF t = s THEN own ELSE claim[t]
      BY <2>1, <2>2, <2>3
  <2>8. \A x \in Masters, t \in Slots :
              importing'[x][t] = IF x = n /\ t = s /\ n = d THEN None ELSE importing[x][t]
      BY <2>5 DEF imp
  <2>9. \A x \in Masters, t \in Slots :
              migrating'[x][t] = IF x = n /\ t = s /\ ~Holds(n, s) THEN None ELSE migrating[x][t]
      BY <2>6 DEF mig
  <2>10. \A t \in Slots : claim'[t] = IF t = s /\ n = d /\ importing[n][s] # None
                                      THEN d ELSE claim[t]
      BY <2>7 DEF own
  <2>. QED
      BY <1>2, <2>4, <2>5, <2>6, <2>7, <2>8, <2>9, <2>10
<1>. QED
    BY <1>1, <1>2

-----------------------------------------------------------------------------
(* Types of all variables                                                  *)

ControlTypes ==
    /\ pc \in {"spawn", "failed", "slots", "replicate", "idle", "reduce", "migrate", "unmark",
              "null", "loops", "down"}
    /\ i \in 0 .. NumNodes + 1 /\ slot \in 0 .. TotalSlots /\ ids \subseteq Nodes
    /\ up \subseteq Masters
    /\ faults \in Nat /\ faults <= MaxFaults /\ migrations \in Nat /\ migrations <= MaxMigrations
    /\ unheard \subseteq Slots /\ remarked \subseteq Slots

RequestTypes ==
    /\ migration = NoMigration \/ migration \in Migrations
    /\ request = NoRequest \/ request \in AsyncRequests \/ request \in SyncRequests
    /\ RequestInv

LEMMA TypesAre == Types <=> ControlTypes /\ ClusterTypes /\ RequestTypes
<1>1. Types => ControlTypes
    BY DEF Types, TypeOK, ShapesOK, ControlTypes
<1>2. Types => ClusterTypes
    BY DEF Types, TypeOK, ClusterTypes, Views, Owners
<1>3. Types => RequestTypes
    BY DEF Types, ShapesOK, RequestTypes
<1>4. ControlTypes /\ ClusterTypes /\ RequestTypes => TypeOK
    BY DEF TypeOK, ControlTypes, ClusterTypes, RequestTypes, Views, Owners, Migrations
<1>5. ControlTypes /\ RequestTypes => ShapesOK /\ RequestInv
    BY DEF ControlTypes, ShapesOK, RequestTypes
<1>. QED
    BY <1>1, <1>2, <1>3, <1>4, <1>5 DEF Types

\* A migration as either Create begins it.
Begins ==
    \E m \in Migrations : m.state = "MARK_IMPORTING" /\ Begin(m)

LEMMA Begun ==
    ASSUME ClusterTypes, NEW s \in MigratedSlots,
           CreateRandomMigration(s) \/ CreateRandomMigrationForHashSlot(s)
    PROVE  Begins
<1>1. PICK e \in Entries, f \in Entries : Begin(Migration(OwnerOf(e), OwnerOf(f), s))
    BY DEF CreateRandomMigration, CreateRandomMigrationForHashSlot
<1>2. s \in Slots
    BY SizesAssumption DEF MigratedSlots, Slots
<1>3. \A x \in Entries : OwnerOf(x) \in Masters
    BY MasterNodes DEF Entries, OwnerOf, ClusterTypes, Views, Owners
<1>4. Migration(OwnerOf(e), OwnerOf(f), s) \in Migrations
    BY <1>2, <1>3, SizesAssumption DEF Migration, Migrations, MigrationStates
<1>5. Migration(OwnerOf(e), OwnerOf(f), s).state = "MARK_IMPORTING"
    BY DEF Migration
<1>. QED
    BY <1>1, <1>4, <1>5 DEF Begins

\* The parts of a migration and of its request have their types.
LEMMA Migrating ==
    ASSUME RequestTypes, migration.state # "none"
    PROVE  /\ migration \in Migrations /\ migration # NoMigration
           /\ migration.state \in MigrationStates /\ migration.slot \in Slots
           /\ migration.source \in Masters /\ migration.destination \in Masters
           /\ migration.countdown \in 0 .. GossipCountdown
<1>1. migration # NoMigration
    BY DEF NoMigration
<1>2. migration \in Migrations
    BY <1>1 DEF RequestTypes
<1>. QED
    BY <1>1, <1>2 DEF Migrations

LEMMA InRequest ==
    ASSUME RequestTypes
    PROVE  /\ request.state = "none" => request = NoRequest
           /\ request.state = "sync" => request \in SyncRequests /\ request.key \in Keys
           /\ request.state \notin {"none", "sync"} =>
                 /\ request \in AsyncRequests /\ request.at \in Masters
                 /\ request.state \in {"unsent", "sent", "ok", "error"}
                 /\ request.then \in MigrationStates /\ request.command \in {"IMPORTING", "MIGRATING"}
                 /\ migration \in Migrations /\ migration.state = "WAITING"
                 /\ migration.slot \in Slots /\ migration.source \in Masters
                 /\ migration.destination \in Masters
<1>1. request = NoRequest => request.state = "none"
    BY DEF NoRequest
<1>2. request \in SyncRequests => request.state = "sync" /\ request.key \in Keys
    BY DEF SyncRequests
<1>3. request \in AsyncRequests =>
                 /\ request.at \in Masters
                 /\ request.state \in {"unsent", "sent", "ok", "error"}
                 /\ request.then \in MigrationStates /\ request.command \in {"IMPORTING", "MIGRATING"}
    BY DEF AsyncRequests
<1>4. request \in AsyncRequests => /\ migration \in Migrations /\ migration.state = "WAITING"
                 /\ migration.slot \in Slots /\ migration.source \in Masters
                 /\ migration.destination \in Masters
    BY DEF RequestTypes, RequestInv, Migrations
<1>. QED
    BY <1>1, <1>2, <1>3, <1>4 DEF RequestTypes

\* Every step is one of these.
LEMMA Steppings ==
    ASSUME ClusterTypes, [Next]_vars
    PROVE  \/ SpawnNode \/ SetupFails \/ MeetAndIdentify \/ AddSlots
           \/ NextNode \/ Replicate \/ SetupReturns \/ Shutdown \/ Begins
           \/ (\E s \in MigratedSlots : DrawsForEver(s))
           \/ (\E connected \in {up, Masters} : Update(connected))
           \/ ReduceMarkImporting \/ ReduceMarkMigrating \/ ReduceGetKeys \/ MigrateKey
           \/ ReduceUnmark \/ UnmarkSource \/ ReduceWaiting \/ ReduceWaitForGossip
           \/ ReduceBail \/ ServerRuns \/ (\E n \in Masters : Lose(n))
           \/ (\E n \in Masters : Gossip(n))
           \/ (\E k \in Keys, n \in Masters : CreateKey(k, n)) \/ UNCHANGED vars
    BY Begun DEF Next, Setup, Reduce

LEMMA ControlStep ==
    ASSUME Types, [Next]_vars
    PROVE  ControlTypes'
<1>1. /\ ControlTypes /\ ClusterTypes /\ RequestTypes
      /\ NumNodes \in Nat /\ MaxFaults \in Nat /\ MaxMigrations \in Nat
    BY TypesAre, Sizes, SizesAssumption
<1>. USE <1>1
<1>2. CASE SpawnNode
    BY <1>2 DEF ControlTypes, SpawnNode, clusterVars, history, setupVars
<1>3. CASE SetupFails
    BY <1>3 DEF ControlTypes, SetupFails, clusterVars, history, setupVars, Fault
<1>4. CASE MeetAndIdentify
  <2>1. \A n \in Nodes : 0 .. n - 1 \subseteq Nodes
      BY Sizes DEF Nodes
  <2>2. ids' \subseteq Nodes
      BY <1>4, <2>1 DEF MeetAndIdentify
  <2>3. faults' \in Nat /\ faults' <= MaxFaults
      BY <1>4 DEF MeetAndIdentify, ControlTypes, Fault
  <2>. QED
      BY <1>4, <2>2, <2>3, Sizes DEF MeetAndIdentify, ControlTypes, history
<1>5. CASE AddSlots
  <2>1. slot \in Nat /\ i \in 0 .. NumNodes /\ slot <= MaxSlot(i)
      BY <1>5, Sizes DEF AddSlots, ControlTypes
  <2>2. MaxSlot(i) \in -1 .. TotalSlots - 1
      BY <2>1, LastSlots, Sizes DEF Nodes
  <2>3. slot' = slot + Cardinality(Row(slot, MaxSlot(i)))
      BY <1>5 DEF AddSlots, Row
  <2>4. PICK a \in Nat, m \in Int : a = slot /\ m = MaxSlot(i) /\ m < TotalSlots /\ a <= m
      BY <2>1, <2>2, Sizes
  <2>5. slot' = a + Cardinality(Row(a, m))
      BY <2>3, <2>4
  <2>6. PICK h \in a .. m : Row(a, m) = a .. h /\ Cardinality(Row(a, m)) = h - a + 1
      BY <2>4, NewSlots
  <2>7. slot' \in 0 .. TotalSlots
      BY <2>6, <2>4, <2>5, Sizes
  <2>. QED
      BY <1>5, <2>7, SizesAssumption DEF AddSlots, Fault, ControlTypes, history
<1>6. CASE NextNode
  <2>1. i \in 0 .. NumNodes /\ NumNodes \in Nat /\ NumMasters \in Nat
      BY <1>6, Sizes, SizesAssumption DEF NextNode, ControlTypes
  <2>2. \A n \in Masters : SlotBase(n) \in 0 .. TotalSlots
      BY MasterNodes, Bases, Sizes
  <2>3. slot' \in 0 .. TotalSlots
      BY <1>6, <2>2, Sizes DEF NextNode, ControlTypes
  <2>4. i' \in 0 .. NumNodes + 1
      BY <1>6, <2>1 DEF NextNode
  <2>5. pc' \in {"slots", "replicate"}
      BY <1>6 DEF NextNode
  <2>. QED
      BY <1>6, <2>3, <2>4, <2>5 DEF NextNode, ControlTypes, history
<1>7. CASE Replicate
    BY <1>7 DEF ControlTypes, Replicate, clusterVars, history, setupVars, Fault
<1>8. CASE SetupReturns
    BY <1>8 DEF ControlTypes, SetupReturns, clusterVars, history, setupVars
<1>9. CASE Shutdown
    BY <1>9 DEF ControlTypes, Shutdown, clusterVars, history, setupVars
<1>10. CASE Begins
    BY <1>10, SizesAssumption DEF ControlTypes, Begins, clusterVars, history, setupVars,
       Begin, Migrations
<1>11. CASE \E s \in MigratedSlots : DrawsForEver(s)
    BY <1>11 DEF ControlTypes, DrawsForEver, clusterVars, history, setupVars
<1>12. CASE \E connected \in {up, Masters} : Update(connected)
    BY <1>12 DEF ControlTypes, Update, clusterVars, history, setupVars
<1>13. CASE ReduceMarkImporting
    BY <1>13 DEF ControlTypes, ReduceMarkImporting, clusterVars, history, setupVars, Ask, Reducing
<1>14. CASE ReduceMarkMigrating
    BY <1>14 DEF ControlTypes, ReduceMarkMigrating, clusterVars, history, setupVars, Ask, Reducing
<1>15. CASE ReduceGetKeys
    BY <1>15 DEF ControlTypes, ReduceGetKeys, clusterVars, history, setupVars, Becomes,
       Reducing, Fault
<1>16. CASE MigrateKey
    BY <1>16 DEF ControlTypes, MigrateKey, clusterVars, history, setupVars, Becomes, Fault
<1>17. CASE ReduceUnmark
  <2>1. migration.state # "none"
      BY <1>17 DEF ReduceUnmark, Reducing
  <2>2. migration.slot \in Slots
      BY <2>1, Migrating
  <2>. QED
      BY <1>17, <2>2 DEF ReduceUnmark, ControlTypes, history, setupVars, Fault
<1>18. CASE UnmarkSource
  <2>1. migration.state # "none"
      BY <1>18 DEF UnmarkSource, RequestTypes, RequestInv
  <2>2. migration.slot \in Slots
      BY <2>1, Migrating
  <2>. QED
      BY <1>18, <2>2 DEF UnmarkSource, Becomes, ControlTypes, history, setupVars, Fault
<1>19. CASE ReduceWaiting
    BY <1>19 DEF ControlTypes, ReduceWaiting, clusterVars, history, setupVars, Reducing
<1>20. CASE ReduceWaitForGossip
    BY <1>20 DEF ControlTypes, ReduceWaitForGossip, clusterVars, history, setupVars, Reducing,
       Becomes
<1>21. CASE ReduceBail
    BY <1>21 DEF ControlTypes, ReduceBail, clusterVars, history, setupVars, Reducing
<1>22. CASE ServerRuns
    BY <1>22 DEF ControlTypes, ServerRuns, clusterVars, history, setupVars, Fault
<1>23. CASE \E n \in Masters : Lose(n)
    BY <1>23 DEF ControlTypes, Lose, clusterVars, history, setupVars, Fault
<1>24. CASE \E n \in Masters : Gossip(n)
    BY <1>24 DEF ControlTypes, Gossip, clusterVars, history, setupVars
<1>25. CASE \E k \in Keys, n \in Masters : CreateKey(k, n)
    BY <1>25 DEF ControlTypes, CreateKey, clusterVars, history, setupVars
<1>26. CASE UNCHANGED vars
    BY <1>26 DEF ControlTypes, vars, clusterVars, history, setupVars
<1>. QED
    BY <1>2, <1>3, <1>4, <1>5, <1>6, <1>7, <1>8, <1>9, <1>10, <1>11, <1>12, <1>13, <1>14,
       <1>15, <1>16, <1>17, <1>18, <1>19, <1>20, <1>21, <1>22, <1>23, <1>24, <1>25, <1>26,
       Steppings, TypesAre

\* The node that AddSlots is called for.
Client == IF i = NumNodes THEN 0 ELSE i

LEMMA AddSlotsAtType ==
    ASSUME ClusterTypes, NEW n \in Masters, NEW new, AddSlotsAt(n, new)
    PROVE  view' \in Views /\ claim' \in [Slots -> Owners]
<1>1. view \in Views /\ claim \in [Slots -> Owners] /\ n \in Owners
    BY DEF ClusterTypes, Owners
<1>2. [view EXCEPT ![n] = [s \in Slots |-> IF s \in new THEN n ELSE view[n][s]]] \in Views
    BY <1>1 DEF Views
<1>3. [s \in Slots |-> IF s \in new THEN n ELSE claim[s]] \in [Slots -> Owners]
    BY <1>1
<1>. QED
    BY <1>1, <1>2, <1>3 DEF AddSlotsAt

\* What a node hears does not come from nowhere.
LEMMA GossipIs ==
    ASSUME ClusterTypes, NEW n \in Masters, Gossip(n)
    PROVE  /\ view' \in Views /\ keyAt' \in [Keys -> Owners]
           /\ \A x \in Masters, s \in Slots :
                 view'[x][s] = IF x = n /\ importing[n][s] = None /\ claim[s] # None
                               THEN claim[s] ELSE view[x][s]
           /\ \A k \in Keys :
                 keyAt'[k] = IF keyAt[k] = n /\ view[n][KeySlot[k]] = n /\ view'[n][KeySlot[k]] # n
                             THEN None ELSE keyAt[k]
<1>1. PICK heard \in [Slots -> Owners] :
          /\ \A s \in Slots : heard[s] = IF importing[n][s] = None /\ claim[s] # None
                                         THEN claim[s] ELSE view[n][s]
          /\ view' = [view EXCEPT ![n] = heard]
          /\ keyAt' = [k \in Keys |->
                         IF keyAt[k] = n /\ view[n][KeySlot[k]] = n /\ heard[KeySlot[k]] # n
                         THEN None ELSE keyAt[k]]
  <2>. DEFINE heard == [s \in Slots |-> IF importing[n][s] = None /\ claim[s] # None
                                        THEN claim[s] ELSE view[n][s]]
  <2>1. heard \in [Slots -> Owners]
      BY DEF ClusterTypes, Views
  <2>2. view' = [view EXCEPT ![n] = heard]
      BY DEF Gossip
  <2>3. keyAt' = [k \in Keys |->
                    IF keyAt[k] = n /\ view[n][KeySlot[k]] = n /\ heard[KeySlot[k]] # n
                    THEN None ELSE keyAt[k]]
      BY DEF Gossip
  <2>4. \A s \in Slots : heard[s] = IF importing[n][s] = None /\ claim[s] # None
                                         THEN claim[s] ELSE view[n][s]
      OBVIOUS
  <2>. HIDE DEF heard
  <2>. QED
      BY <2>1, <2>2, <2>3, <2>4, Zenon
<1>2. view \in [Masters -> [Slots -> Owners]] /\ keyAt \in [Keys -> Owners]
    BY DEF ClusterTypes, Views
<1>3. view' \in Views
    BY <1>1, <1>2 DEF Views
<1>4. \A x \in Masters : view'[x] = IF x = n THEN heard ELSE view[x]
    BY <1>1, <1>2
<1>5. \A x \in Masters, s \in Slots :
                 view'[x][s] = IF x = n /\ importing[n][s] = None /\ claim[s] # None
                               THEN claim[s] ELSE view[x][s]
    BY <1>1, <1>4
<1>6. keyAt' \in [Keys -> Owners]
    BY <1>1, <1>2 DEF Owners
<1>7. \A k \in Keys :
         keyAt'[k] = IF keyAt[k] = n /\ view[n][KeySlot[k]] = n /\ view'[n][KeySlot[k]] # n
                     THEN None ELSE keyAt[k]
    BY <1>1, <1>4
<1>. QED
    BY <1>3, <1>5, <1>6, <1>7, Zenon

LEMMA InMigrate ==
    ASSUME RequestTypes, pc = "migrate"
    PROVE  request.state = "sync" /\ request.key \in Keys /\ migration.state = "MIGRATING_KEYS"
    BY DEF RequestTypes, RequestInv, SyncRequests

LEMMA ClusterStep ==
    ASSUME Types, [Next]_vars
    PROVE  ClusterTypes'
<1>. USE TypesAre
<1>1. CASE SpawnNode
    BY <1>1 DEF ClusterTypes, SpawnNode, clusterVars, history, setupVars
<1>2. CASE SetupFails
    BY <1>2 DEF ClusterTypes, SetupFails, clusterVars, history, setupVars, Fault
<1>3. CASE MeetAndIdentify
    BY <1>3 DEF ClusterTypes, MeetAndIdentify, clusterVars, history, setupVars, Fault
<1>4. CASE AddSlots
  <2>1. Client \in Masters
      BY <1>4, MasterNodes DEF AddSlots, Client
  <2>2. PICK c \in Masters : c = Client
      BY <2>1
  <2>3. AddSlotsAt(c, Row(slot, MaxSlot(i))) \/ UNCHANGED <<view, claim>>
      BY <1>4, <2>2 DEF AddSlots, Client, Row
  <2>4. view' \in Views /\ claim' \in [Slots -> Owners]
      BY <2>3, AddSlotsAtType DEF ClusterTypes
  <2>5. UNCHANGED <<migrating, importing, keyAt, slaveOf>>
      BY <1>4 DEF AddSlots
  <2>. QED
      BY <2>4, <2>5 DEF ClusterTypes
<1>5. CASE NextNode
    BY <1>5 DEF ClusterTypes, NextNode, clusterVars, history, setupVars
<1>6. CASE Replicate
  <2>1. i \in Nodes
      BY <1>6, Sizes DEF Replicate, ControlTypes, Nodes
  <2>2. MasterOf(i) \in Owners
      BY <2>1, MasterNodes DEF Owners
  <2>3. slaveOf' \in [Nodes -> Owners]
      BY <1>6, <2>1, <2>2 DEF Replicate, ClusterTypes
  <2>. QED
      BY <1>6, <2>3 DEF Replicate, ClusterTypes
<1>7. CASE SetupReturns
    BY <1>7 DEF ClusterTypes, SetupReturns, clusterVars, history, setupVars
<1>8. CASE Shutdown
    BY <1>8 DEF ClusterTypes, Shutdown, clusterVars, history, setupVars
<1>9. CASE Begins
    BY <1>9 DEF ClusterTypes, Begins, clusterVars, history, setupVars, Begin, Migrations
<1>10. CASE \E s \in MigratedSlots : DrawsForEver(s)
    BY <1>10 DEF ClusterTypes, DrawsForEver, clusterVars, history, setupVars
<1>11. CASE \E connected \in {up, Masters} : Update(connected)
    BY <1>11 DEF ClusterTypes, Update, clusterVars, history, setupVars
<1>12. CASE ReduceMarkImporting
    BY <1>12 DEF ClusterTypes, ReduceMarkImporting, clusterVars, history, setupVars, Ask, Reducing
<1>13. CASE ReduceMarkMigrating
    BY <1>13 DEF ClusterTypes, ReduceMarkMigrating, clusterVars, history, setupVars, Ask, Reducing
<1>14. CASE ReduceGetKeys
    BY <1>14 DEF ClusterTypes, ReduceGetKeys, clusterVars, history, setupVars, Becomes,
       Reducing, Fault
<1>15. CASE MigrateKey
  <2>1. migration.destination \in Owners /\ request.key \in Keys
      BY <1>15, Migrating, InMigrate DEF MigrateKey, Owners
  <2>2. keyAt' \in [Keys -> Owners]
      BY <1>15, <2>1 DEF MigrateKey, ClusterTypes
  <2>. QED
      BY <1>15, <2>2 DEF MigrateKey, ClusterTypes
<1>16. CASE ReduceUnmark
  <2>1. migration.state # "none"
      BY <1>16 DEF ReduceUnmark, Reducing
  <2>2. PICK s \in Slots, n \in Masters, d \in Masters :
            s = migration.slot /\ n = migration.destination /\ d = migration.destination
      BY <2>1, Migrating
  <2>3. SetNode(n, s, d) \/ UNCHANGED <<view, claim, importing, migrating>>
      BY <1>16, <2>2 DEF ReduceUnmark
  <2>4. /\ view' \in Views /\ migrating' \in Views /\ importing' \in Views
        /\ claim' \in [Slots -> Owners]
      BY <2>3, SetNodeIs DEF ClusterTypes
  <2>5. UNCHANGED <<keyAt, slaveOf>>
      BY <1>16 DEF ReduceUnmark
  <2>. QED
      BY <2>4, <2>5 DEF ClusterTypes
<1>17. CASE UnmarkSource
  <2>1. migration.state # "none"
      BY <1>17 DEF UnmarkSource, RequestTypes, RequestInv
  <2>2. PICK s \in Slots, n \in Masters, d \in Masters :
            s = migration.slot /\ n = migration.source /\ d = migration.destination
      BY <2>1, Migrating
  <2>3. SetNode(n, s, d) \/ UNCHANGED <<view, claim, importing, migrating>>
      BY <1>17, <2>2 DEF UnmarkSource
  <2>4. /\ view' \in Views /\ migrating' \in Views /\ importing' \in Views
        /\ claim' \in [Slots -> Owners]
      BY <2>3, SetNodeIs DEF ClusterTypes
  <2>5. UNCHANGED <<keyAt, slaveOf>>
      BY <1>17 DEF UnmarkSource
  <2>. QED
      BY <2>4, <2>5 DEF ClusterTypes
<1>18. CASE ReduceWaiting
    BY <1>18 DEF ClusterTypes, ReduceWaiting, clusterVars, history, setupVars, Reducing
<1>19. CASE ReduceWaitForGossip
    BY <1>19 DEF ClusterTypes, ReduceWaitForGossip, clusterVars, history, setupVars, Reducing,
       Becomes
<1>20. CASE ReduceBail
    BY <1>20 DEF ClusterTypes, ReduceBail, clusterVars, history, setupVars, Reducing
<1>21. CASE ServerRuns
  <2>1. /\ request.at \in Masters /\ migration.slot \in Slots
        /\ migration.source \in Owners /\ migration.destination \in Owners
      BY <1>21, InRequest DEF ServerRuns, Owners
  <2>2. PICK n \in Masters, s \in Slots, v \in Owners, w \in Owners :
            n = request.at /\ s = migration.slot /\ v = migration.source /\ w = migration.destination
      BY <2>1
  <2>3. importing' = importing \/ importing' = [importing EXCEPT ![n][s] = v]
      BY <1>21, <2>2 DEF ServerRuns
  <2>4. migrating' = migrating \/ migrating' = [migrating EXCEPT ![n][s] = w]
      BY <1>21, <2>2 DEF ServerRuns
  <2>5. importing' \in Views
      BY <2>3, SetAt DEF ClusterTypes
  <2>6. migrating' \in Views
      BY <2>4, SetAt DEF ClusterTypes
  <2>. QED
      BY <1>21, <2>5, <2>6 DEF ServerRuns, ClusterTypes
<1>22. CASE \E n \in Masters : Lose(n)
    BY <1>22 DEF ClusterTypes, Lose, clusterVars, history, setupVars, Fault
<1>23. CASE \E n \in Masters : Gossip(n)
  <2>1. PICK n \in Masters : Gossip(n)
      BY <1>23
  <2>2. view' \in Views /\ keyAt' \in [Keys -> Owners]
      BY <2>1, GossipIs
  <2>. QED
      BY <2>1, <2>2 DEF Gossip, ClusterTypes
<1>24. CASE \E k \in Keys, n \in Masters : CreateKey(k, n)
  <2>1. PICK k \in Keys, n \in Masters : CreateKey(k, n)
      BY <1>24
  <2>2. Follow(k, n) \in Steps
      BY FollowType DEF ClusterTypes
  <2>3. Follow(k, n).at \in Owners
      BY <2>2 DEF Steps, Owners
  <2>4. keyAt' \in [Keys -> Owners]
      BY <2>1, <2>3 DEF CreateKey, ClusterTypes
  <2>. QED
      BY <2>1, <2>4 DEF CreateKey, ClusterTypes
<1>25. CASE UNCHANGED vars
    BY <1>25 DEF ClusterTypes, vars, clusterVars, history, setupVars
<1>. QED
    BY <1>1, <1>2, <1>3, <1>4, <1>5, <1>6, <1>7, <1>8, <1>9, <1>10, <1>11, <1>12, <1>13,
       <1>14, <1>15, <1>16, <1>17, <1>18, <1>19, <1>20, <1>21, <1>22, <1>23, <1>24, <1>25,
       Steppings, TypesAre

LEMMA Norequest == NoRequest \notin AsyncRequests /\ NoRequest \notin SyncRequests
    BY DEF NoRequest, AsyncRequests, SyncRequests

LEMMA RequestStep ==
    ASSUME Types, [Next]_vars
    PROVE  RequestTypes'
<1>1. ControlTypes /\ ClusterTypes /\ RequestTypes
    BY TypesAre
<1>2. CASE SpawnNode
    BY <1>2, <1>1 DEF RequestTypes, RequestInv, SpawnNode, clusterVars, history, setupVars
<1>3. CASE SetupFails
    BY <1>3, <1>1 DEF RequestTypes, RequestInv, SetupFails, clusterVars, history, setupVars, Fault
<1>4. CASE MeetAndIdentify
    BY <1>4, <1>1 DEF RequestTypes, RequestInv, MeetAndIdentify, clusterVars, history,
       setupVars, Fault
<1>5. CASE AddSlots
    BY <1>5, <1>1 DEF RequestTypes, RequestInv, AddSlots, clusterVars, history, setupVars, Fault
<1>6. CASE NextNode
    BY <1>6, <1>1 DEF RequestTypes, RequestInv, NextNode, clusterVars, history, setupVars
<1>7. CASE Replicate
    BY <1>7, <1>1 DEF RequestTypes, RequestInv, Replicate, clusterVars, history, setupVars, Fault
<1>8. CASE SetupReturns
    BY <1>8, <1>1 DEF RequestTypes, RequestInv, SetupReturns, clusterVars, history, setupVars
<1>9. CASE Shutdown
  <2>1. request' = NoRequest /\ pc' = "down" /\ UNCHANGED migration
      BY <1>9 DEF Shutdown
  <2>. QED
      BY <2>1, <1>1, Norequest DEF RequestTypes, RequestInv
<1>10. CASE Begins
  <2>1. PICK m \in Migrations : Begin(m)
      BY <1>10 DEF Begins
  <2>2. request \notin AsyncRequests
    <3>1. migration.state = "none"
        BY <2>1 DEF Begin, NoMigration
    <3>. QED
        BY <3>1, <1>1 DEF RequestTypes, RequestInv
  <2>3. UNCHANGED <<request, pc>> /\ migration' = m /\ pc = "idle"
      BY <2>1 DEF Begin
  <2>. QED
      BY <2>2, <2>3, <1>1 DEF RequestTypes, RequestInv
<1>11. CASE \E s \in MigratedSlots : DrawsForEver(s)
    BY <1>11, <1>1 DEF RequestTypes, RequestInv, DrawsForEver, clusterVars, history, setupVars
<1>12. CASE \E connected \in {up, Masters} : Update(connected)
  <2>1. PICK c : Update(c)
      BY <1>12
  <2>2. pc = "idle" /\ pc' = "reduce"
      BY <2>1 DEF Update
  <2>3. request \notin SyncRequests
      BY <2>2, <1>1 DEF RequestTypes, RequestInv
  <2>4. CASE request.state = "unsent" /\ request' = [request EXCEPT !.state = "sent"] /\ UNCHANGED migration
    <3>1. request \in AsyncRequests /\ migration \in Migrations /\ migration.state = "WAITING"
        BY <2>4, InRequest, <1>1
    <3>2. request' \in AsyncRequests
        BY <2>4, <3>1 DEF AsyncRequests
    <3>3. request' \notin SyncRequests
        BY <3>2 DEF SyncRequests, AsyncRequests
    <3>. QED
        BY <2>2, <2>4, <3>1, <3>2, <3>3 DEF RequestTypes, RequestInv
  <2>5. CASE /\ request.state \in {"ok", "error"} /\ request' = NoRequest
             /\ migration' = [migration EXCEPT !.state =
                   IF request.state = "error" THEN "BAIL" ELSE request.then]
    <3>1. migration \in Migrations /\ request.then \in MigrationStates
        BY <2>5, InRequest, <1>1
    <3>2. migration' \in Migrations
        BY <2>5, <3>1 DEF Migrations, MigrationStates
    <3>3. request' \notin AsyncRequests /\ request' \notin SyncRequests
        BY <2>5 DEF AsyncRequests, SyncRequests, NoRequest
    <3>. QED
        BY <2>2, <2>5, <3>2, <3>3 DEF RequestTypes, RequestInv
  <2>6. CASE UNCHANGED <<request, migration>>
      BY <2>2, <2>3, <2>6, <1>1 DEF RequestTypes, RequestInv
  <2>. QED
      BY <2>1, <2>4, <2>5, <2>6 DEF Update
<1>13. CASE ReduceMarkImporting
  <2>1. migration.state # "none"
      BY <1>13 DEF ReduceMarkImporting, Reducing
  <2>2. migration \in Migrations /\ migration.destination \in Masters
      BY <2>1, Migrating, <1>1
  <2>3. request' \in AsyncRequests
      BY <1>13, <2>2 DEF ReduceMarkImporting, Ask, AsyncRequests, MigrationStates
  <2>4. request' \notin SyncRequests
      BY <2>3 DEF SyncRequests, AsyncRequests
  <2>5. migration' \in Migrations /\ migration'.state = "WAITING" /\ pc' = "idle"
      BY <1>13, <2>2 DEF ReduceMarkImporting, Ask, Migrations, MigrationStates
  <2>. QED
      BY <2>3, <2>4, <2>5 DEF RequestTypes, RequestInv
<1>14. CASE ReduceMarkMigrating
  <2>1. migration.state # "none"
      BY <1>14 DEF ReduceMarkMigrating, Reducing
  <2>2. migration \in Migrations /\ migration.source \in Masters
      BY <2>1, Migrating, <1>1
  <2>3. request' \in AsyncRequests
      BY <1>14, <2>2 DEF ReduceMarkMigrating, Ask, AsyncRequests, MigrationStates
  <2>4. request' \notin SyncRequests
      BY <2>3 DEF SyncRequests, AsyncRequests
  <2>5. migration' \in Migrations /\ migration'.state = "WAITING" /\ pc' = "idle"
      BY <1>14, <2>2 DEF ReduceMarkMigrating, Ask, Migrations, MigrationStates
  <2>. QED
      BY <2>3, <2>4, <2>5 DEF RequestTypes, RequestInv
<1>15. CASE ReduceGetKeys
  <2>1. pc = "reduce" /\ migration.state = "MIGRATING_KEYS"
      BY <1>15 DEF ReduceGetKeys, Reducing
  <2>2. migration \in Migrations
      BY <2>1, Migrating, <1>1
  <2>3. request \notin AsyncRequests /\ request \notin SyncRequests
      BY <2>1, <1>1 DEF RequestTypes, RequestInv
  <2>4. \/ migration' = [migration EXCEPT !.state = "UNMARK"] /\ pc' = "idle" /\ UNCHANGED request
        \/ migration' = [migration EXCEPT !.state = "BAIL"] /\ pc' = "idle" /\ UNCHANGED request
        \/ UNCHANGED <<migration, request>> /\ pc' \in {"null", "idle"}
        \/ /\ UNCHANGED migration /\ pc' = "migrate"
           /\ \E k \in Keys : request' = [state |-> "sync", key |-> k]
      BY <1>15 DEF ReduceGetKeys, Becomes
  <2>5. [migration EXCEPT !.state = "UNMARK"] \in Migrations
      BY <2>2 DEF Migrations, MigrationStates
  <2>6. [migration EXCEPT !.state = "BAIL"] \in Migrations
      BY <2>2 DEF Migrations, MigrationStates
  <2>7. \A k \in Keys : /\ [state |-> "sync", key |-> k] \in SyncRequests
                        /\ [state |-> "sync", key |-> k] \notin AsyncRequests
      BY DEF SyncRequests, AsyncRequests
  <2>8. migration' \in Migrations
      BY <2>2, <2>4, <2>5, <2>6
  <2>9. request' \notin AsyncRequests
      BY <2>3, <2>4, <2>7
  <2>10. \/ pc' \in {"null", "idle"} /\ request' = request
         \/ pc' = "migrate" /\ request' \in SyncRequests /\ migration' = migration
      BY <2>4, <2>7
  <2>. QED
      BY <2>1, <2>2, <2>3, <2>8, <2>9, <2>10, <1>1 DEF RequestTypes, RequestInv
<1>16. CASE MigrateKey
  <2>1. request' = NoRequest /\ pc' = "idle"
      BY <1>16 DEF MigrateKey, Becomes
  <2>2. migration \in Migrations
      BY <1>16, <1>1 DEF MigrateKey, RequestTypes, RequestInv
  <2>3. migration' = migration \/ migration' = [migration EXCEPT !.state = "BAIL"]
      BY <1>16 DEF MigrateKey, Becomes
  <2>4. migration' \in Migrations
      BY <2>2, <2>3 DEF Migrations, MigrationStates
  <2>5. request' \notin AsyncRequests /\ request' \notin SyncRequests
      BY <2>1 DEF AsyncRequests, SyncRequests, NoRequest
  <2>. QED
      BY <2>1, <2>4, <2>5 DEF RequestTypes, RequestInv
<1>17. CASE ReduceUnmark
  <2>1. pc = "reduce" /\ pc' = "unmark" /\ migration.state = "UNMARK" /\ UNCHANGED <<migration, request>>
      BY <1>17 DEF ReduceUnmark, Reducing
  <2>2. migration \in Migrations
      BY <2>1, Migrating, <1>1
  <2>3. request \notin AsyncRequests /\ request \notin SyncRequests
      BY <2>1, <1>1 DEF RequestTypes, RequestInv
  <2>. QED
      BY <2>1, <2>2, <2>3, <1>1 DEF RequestTypes, RequestInv
<1>18. CASE UnmarkSource
  <2>1. pc = "unmark" /\ pc' = "idle" /\ UNCHANGED request
      BY <1>18 DEF UnmarkSource, Becomes
  <2>2. migration \in Migrations /\ migration.state = "UNMARK"
      BY <2>1, <1>1 DEF RequestTypes, RequestInv
  <2>3. request \notin AsyncRequests /\ request \notin SyncRequests
      BY <2>1, <2>2, <1>1 DEF RequestTypes, RequestInv
  <2>4. migration' = [migration EXCEPT !.state = "WAIT_FOR_GOSSIP"]
      BY <1>18 DEF UnmarkSource, Becomes
  <2>5. migration' \in Migrations
      BY <2>2, <2>4 DEF Migrations, MigrationStates
  <2>. QED
      BY <2>1, <2>3, <2>5, <1>1 DEF RequestTypes, RequestInv
<1>19. CASE ReduceWaiting
    BY <1>19, <1>1 DEF RequestTypes, RequestInv, ReduceWaiting, clusterVars, history,
       setupVars, Reducing
<1>20. CASE ReduceWaitForGossip
  <2>1. pc = "reduce" /\ pc' = "idle" /\ migration.state = "WAIT_FOR_GOSSIP" /\ UNCHANGED request
      BY <1>20 DEF ReduceWaitForGossip, Reducing, Becomes
  <2>2. migration \in Migrations /\ migration.countdown \in 0 .. GossipCountdown
      BY <2>1, Migrating, <1>1
  <2>3. request \notin AsyncRequests /\ request \notin SyncRequests
      BY <2>1, <1>1 DEF RequestTypes, RequestInv
  <2>4. PICK c \in 0 .. GossipCountdown : c = migration.countdown
      BY <2>2
  <2>5. \/ migration' = [migration EXCEPT !.state = "BAIL"]
        \/ c # 0 /\ migration' = [migration EXCEPT !.countdown = c - 1]
      BY <1>20, <2>4 DEF ReduceWaitForGossip, Becomes
  <2>6. c # 0 => c - 1 \in 0 .. GossipCountdown
      BY SizesAssumption
  <2>7. migration' \in Migrations
      BY <2>2, <2>5, <2>6 DEF Migrations, MigrationStates
  <2>. QED
      BY <2>1, <2>3, <2>7, <1>1 DEF RequestTypes, RequestInv
<1>21. CASE ReduceBail
  <2>1. pc = "reduce" /\ pc' = "idle" /\ migration.state = "BAIL" /\ UNCHANGED request
      BY <1>21 DEF ReduceBail, Reducing
  <2>2. request \notin AsyncRequests /\ request \notin SyncRequests
      BY <2>1, <1>1 DEF RequestTypes, RequestInv
  <2>3. migration' = NoMigration
      BY <1>21 DEF ReduceBail
  <2>. QED
      BY <2>1, <2>2, <2>3, <1>1 DEF RequestTypes, RequestInv
<1>22. CASE ServerRuns
  <2>1. request \in AsyncRequests /\ migration \in Migrations /\ migration.state = "WAITING"
      BY <1>22, InRequest, <1>1 DEF ServerRuns
  <2>2. \/ request' = [request EXCEPT !.state = "ok"]
        \/ request' = [request EXCEPT !.state = "error"]
      BY <1>22 DEF ServerRuns
  <2>3. request' \in AsyncRequests
      BY <2>1, <2>2 DEF AsyncRequests
  <2>4. request' \notin SyncRequests /\ request \notin SyncRequests
      BY <2>1, <2>3 DEF SyncRequests, AsyncRequests
  <2>5. UNCHANGED <<pc, migration>>
      BY <1>22 DEF ServerRuns
  <2>. QED
      BY <2>1, <2>3, <2>4, <2>5, <1>1 DEF RequestTypes, RequestInv
<1>23. CASE \E n \in Masters : Lose(n)
  <2>1. request' \in {request, NoRequest} /\ pc = "idle" /\ UNCHANGED <<pc, migration>>
      BY <1>23 DEF Lose
  <2>. QED
      BY <2>1, <1>1, Norequest DEF RequestTypes, RequestInv
<1>24. CASE \E n \in Masters : Gossip(n)
    BY <1>24, <1>1 DEF RequestTypes, RequestInv, Gossip, clusterVars, history, setupVars
<1>25. CASE \E k \in Keys, n \in Masters : CreateKey(k, n)
    BY <1>25, <1>1 DEF RequestTypes, RequestInv, CreateKey, clusterVars, history, setupVars
<1>26. CASE UNCHANGED vars
    BY <1>26, <1>1 DEF RequestTypes, RequestInv, vars, clusterVars, history, setupVars
<1>. QED
    BY <1>2, <1>3, <1>4, <1>5, <1>6, <1>7, <1>8, <1>9, <1>10, <1>11, <1>12, <1>13, <1>14,
       <1>15, <1>16, <1>17, <1>18, <1>19, <1>20, <1>21, <1>22, <1>23, <1>24, <1>25, <1>26,
       Steppings, TypesAre

LEMMA TypesInit == Init => Types
<1>. SUFFICES ASSUME Init PROVE Types
    OBVIOUS
<1>1. ControlTypes
    BY Sizes, SizesAssumption DEF Init, ControlTypes
<1>2. ClusterTypes
    BY DEF Init, ClusterTypes, Views, Owners
<1>3. RequestTypes
    BY Norequest DEF Init, RequestTypes, RequestInv
<1>. QED
    BY <1>1, <1>2, <1>3, TypesAre

LEMMA TypesStep == Types /\ [Next]_vars => Types'
<1>. SUFFICES ASSUME Types, [Next]_vars PROVE Types'
    OBVIOUS
<1>1. ControlTypes' /\ ClusterTypes' /\ RequestTypes'
    BY ControlStep, ClusterStep, RequestStep
<1>2. (ControlTypes /\ ClusterTypes /\ RequestTypes => Types)'
    BY TypesAre, PTL
<1>. QED
    BY <1>1, <1>2

\* Whatever the sizes of the cluster, the slots, nodes and requests that Setup, Update
\* and Migration::Reduce write down are such: no slot is counted past the last one, and
\* a migration is always between two masters.
THEOREM TypeCorrect == Spec => []TypeOK
<1>1. Init => Types
    BY TypesInit
<1>2. Types /\ [Next]_vars => Types'
    BY TypesStep
<1>3. Types => TypeOK
    BY DEF Types
<1>. QED
    BY <1>1, <1>2, <1>3, PTL DEF Spec

-----------------------------------------------------------------------------
(* Setup                                                                   *)

LEMMA Quotient ==
    ASSUME NEW k \in Nat, NEW p \in Nat, NEW q \in Nat, NEW r \in 0 .. k, NEW s \in 0 .. k,
           (1 + k) * q + r = (1 + k) * p + s
    PROVE  p = q /\ r = s
<1>1. PICK a \in Nat, b \in Nat : a = (1 + k) * q /\ b = (1 + k) * p
    BY Times
<1>2. CASE r <= s
  <2>1. s - r \in 0 .. k /\ (1 + k) * q = (1 + k) * p + (s - r)
      BY <1>1, <1>2
  <2>2. s - r = 0 /\ p = q
      BY <2>1, OneQuotient
  <2>. QED
      BY <2>2
<1>3. CASE s < r
  <2>1. r - s \in 0 .. k /\ (1 + k) * p = (1 + k) * q + (r - s)
      BY <1>1, <1>3
  <2>2. r - s = 0 /\ p = q
      BY <2>1, OneQuotient
  <2>. QED
      BY <2>2
<1>. QED
    BY <1>2, <1>3

\* The next node begins another group, or it is in the same one.
LEMMA NextGroup ==
    ASSUME NEW n \in Nat
    PROVE  /\ MasterOf(n + 1) = n + 1 => Group(n + 1) = Group(n) + 1
           /\ MasterOf(n + 1) # n + 1 => Group(n + 1) = Group(n)
           /\ n + 1 = NumNodes => Group(n) + 1 = NumMasters
<1>1. PICK k \in Nat : k = NumSlavesPerMaster
    BY SizesAssumption
<1>2. PICK r \in 0 .. k, q \in Nat : q = Group(n) /\ n = (1 + k) * q + r
    BY <1>1, Grouped
<1>3. PICK s \in 0 .. k, p \in Nat :
          p = Group(n + 1) /\ n + 1 = (1 + k) * p + s /\ MasterOf(n + 1) = n + 1 - s
    BY <1>1, Grouped
<1>4. PICK a \in Nat, b \in Nat : a = (1 + k) * q /\ b = (1 + k) * p /\ (1 + k) * (q + 1) = a + 1 + k
    BY Times
<1>5. CASE r = k
  <2>1. (1 + k) * (q + 1) + 0 = (1 + k) * p + s
      BY <1>2, <1>3, <1>4, <1>5
  <2>2. p = q + 1 /\ s = 0
      BY <2>1, Quotient
  <2>3. n + 1 = (1 + k) * (q + 1)
      BY <1>2, <1>4, <1>5
  <2>4. NumMasters \in Nat /\ NumNodes = (1 + k) * NumMasters
      BY <1>1, Sizes, SizesAssumption
  <2>5. ASSUME n + 1 = NumNodes PROVE q + 1 = NumMasters
    <3>1. (1 + k) * (q + 1) + 0 = (1 + k) * NumMasters + 0
        BY <2>3, <2>4, <2>5
    <3>. QED
        BY <2>4, <3>1, Quotient
  <2>. QED
      BY <1>2, <1>3, <2>2, <2>5
<1>6. CASE r < k
  <2>1. r + 1 \in 0 .. k /\ (1 + k) * q + (r + 1) = (1 + k) * p + s
      BY <1>2, <1>3, <1>4, <1>6
  <2>2. p = q /\ r + 1 = s
      BY <2>1, Quotient
  <2>3. NumMasters \in Nat /\ NumNodes = (1 + k) * NumMasters
      BY <1>1, Sizes, SizesAssumption
  <2>4. n + 1 # NumNodes
    <3>1. SUFFICES ASSUME n + 1 = NumNodes PROVE FALSE
        OBVIOUS
    <3>2. PICK m \in Nat : m = NumMasters
        BY <2>3
    <3>3. (1 + k) * q + (r + 1) = (1 + k) * m + 0
        BY <1>2, <1>4, <2>3, <3>1, <3>2
    <3>4. r + 1 = 0
        BY <2>1, <3>3, Quotient
    <3>. QED
        BY <3>4
  <2>. QED
      BY <1>2, <1>3, <2>2, <2>4
<1>. QED
    BY <1>5, <1>6

\* The ranges of the masters follow each other.
LEMMA NextSlots ==
    ASSUME ControlTypes, pc = "slots", Position, NextNode, i < NumNodes
    PROVE  slot' = slot /\ Position' /\ i' = i + 1 /\ pc' = pc
<1>1. i \in Nodes /\ i \in Nat /\ NumNodes \in Nat
    BY Sizes DEF ControlTypes, Nodes
<1>2. i' = i + 1 /\ pc' = pc
    BY DEF NextNode
<1>3. slot = SlotBase(i) + SlotsPerMaster
  <2>1. CASE i \in Nodes \ Masters
      BY <2>1 DEF Position
  <2>2. CASE i \in Masters
    <3>1. slot > MaxSlot(i)
        BY <2>2 DEF NextNode
    <3>2. slot \in SlotBase(i) .. SlotBase(i) + SlotsPerMaster
        BY <2>2 DEF Position
    <3>3. MaxSlot(i) = SlotBase(i) + SlotsPerMaster - 1 /\ SlotBase(i) \in Nat
        BY <1>1, LastSlots, Bases
    <3>. QED
        BY <3>1, <3>2, <3>3, Sizes
  <2>. QED
      BY <1>1, <2>1, <2>2
<1>4. PICK q \in Nat, a \in Nat : q = Group(i) /\ a = SlotsPerMaster * q /\ slot = a + SlotsPerMaster
    BY <1>1, <1>3, Bases
<1>5. SlotsPerMaster * (q + 1) = slot
    BY <1>4, Sizes, Times
<1>6. CASE i + 1 = NumNodes
  <2>1. q + 1 = NumMasters
      BY <1>1, <1>4, <1>6, NextGroup
  <2>2. slot' = SlotsPerMaster * NumMasters
      BY <1>6, <1>1 DEF NextNode
  <2>3. i' = NumNodes /\ slot' = slot /\ i' \notin Nodes
      BY <1>2, <1>5, <1>6, <2>1, <2>2, Sizes DEF Nodes
  <2>4. NumNodes' = NumNodes /\ Nodes' = Nodes /\ Masters' = Masters /\ SlotsPerMaster' = SlotsPerMaster
      BY DEF NumNodes, Nodes, Masters, MasterOf, SlotsPerMaster
  <2>5. slot' \in Nat
      BY <2>3 DEF ControlTypes
  <2>6. i' \notin Masters
      BY <2>3, MasterNodes
  <2>. QED
      BY <1>2, <2>2, <2>3, <2>4, <2>5, <2>6, Sizes DEF Position
<1>7. CASE i + 1 < NumNodes /\ i + 1 \in Masters
  <2>1. MasterOf(i + 1) = i + 1 /\ i + 1 \in Nodes
      BY <1>7 DEF Masters
  <2>2. Group(i + 1) = q + 1
      BY <1>1, <1>4, <2>1, NextGroup
  <2>3. SlotBase(i + 1) = SlotsPerMaster * Group(i + 1)
      BY <2>1, Bases
  <2>4. slot' = SlotBase(i + 1)
      BY <1>1, <1>7 DEF NextNode
  <2>5. slot' = slot /\ slot' \in Nat
      BY <1>5, <2>2, <2>3, <2>4 DEF ControlTypes
  <2>6. slot' \in SlotBase(i + 1) .. SlotBase(i + 1) + SlotsPerMaster
      BY <2>4, <2>5, Sizes
  <2>. QED
      BY <1>1, <1>2, <1>7, <2>5, <2>6 DEF Position
<1>8. CASE i + 1 < NumNodes /\ i + 1 \notin Masters
  <2>1. i + 1 \in Nodes
      BY <1>1, <1>8 DEF Nodes
  <2>2. MasterOf(i + 1) # i + 1
      BY <1>8, <2>1 DEF Masters
  <2>3. Group(i + 1) = q
      BY <1>1, <1>4, <2>2, NextGroup
  <2>4. SlotBase(i + 1) = SlotsPerMaster * Group(i + 1)
      BY <2>1, Bases
  <2>5. slot' = slot
      BY <1>1, <1>8 DEF NextNode
  <2>6. slot' = SlotBase(i + 1) + SlotsPerMaster
      BY <1>4, <2>3, <2>4, <2>5
  <2>. QED
      BY <1>1, <1>2, <1>8, <2>1, <2>5, <2>6 DEF Position
<1>. QED
    BY <1>1, <1>6, <1>7, <1>8

\* AddSlots, when the slots from here on are free.
LEMMA Assigns ==
    ASSUME ControlTypes, ClusterTypes, FreeInv, AddSlots
    PROVE  /\ pc = "slots" /\ Client \in Masters
           /\ \E h \in slot .. MaxSlot(i) :
                 /\ slot' = h + 1 /\ h \in Slots /\ slot .. h \subseteq Slots
                 /\ \/ UNCHANGED <<view, claim>> /\ Fault
                    \/ /\ faults' = faults
                       /\ \A x \in Masters, s \in Slots :
                             view'[x][s] = IF x = Client /\ s \in slot .. h THEN Client ELSE view[x][s]
                       /\ \A s \in Slots :
                             claim'[s] = IF s \in slot .. h THEN Client ELSE claim[s]
<1>1. pc = "slots" /\ i <= NumNodes /\ slot <= MaxSlot(i)
    BY DEF AddSlots
<1>2. slot \in Nat /\ i \in 0 .. NumNodes /\ NumNodes \in Nat
    BY <1>1, Sizes DEF ControlTypes
<1>3. MaxSlot(i) \in -1 .. TotalSlots - 1
    BY <1>2, LastSlots, Sizes DEF Nodes
<1>4. Client \in Masters
    BY MasterNodes DEF AddSlots, Client
<1>5. PICK a \in Nat, m \in Int : a = slot /\ m = MaxSlot(i) /\ m < TotalSlots /\ a <= m
    BY <1>1, <1>2, <1>3, Sizes
<1>6. PICK h \in a .. m : Row(a, m) = a .. h /\ Cardinality(Row(a, m)) = h - a + 1
    BY <1>5, NewSlots
<1>7. slot' = h + 1
    BY <1>5, <1>6 DEF AddSlots, Row
<1>8. h \in Slots /\ a .. h \subseteq Slots
    BY <1>5, <1>6, Sizes DEF Slots
<1>9. PICK c \in Masters : c = Client
    BY <1>4
<1>10. (AddSlotsAt(c, a .. h) /\ UNCHANGED faults) \/ (UNCHANGED <<view, claim>> /\ Fault)
  <2>1. (AddSlotsAt(c, Row(a, m)) /\ UNCHANGED faults) \/ (UNCHANGED <<view, claim>> /\ Fault)
      BY <1>5, <1>9 DEF AddSlots, Client, Row
  <2>. QED
      BY <1>6, <2>1
<1>11. ASSUME AddSlotsAt(c, a .. h)
       PROVE  /\ \A x \in Masters, s \in Slots :
                    view'[x][s] = IF x = c /\ s \in a .. h THEN c ELSE view[x][s]
              /\ \A s \in Slots : claim'[s] = IF s \in a .. h THEN c ELSE claim[s]
  <2>1. \A s \in a .. h : view[c][s] = None
      BY <1>1, <1>5, <1>8 DEF FreeInv
  <2>2. PICK row \in [Slots -> Owners] :
            /\ \A s \in Slots : row[s] = IF s \in a .. h THEN c ELSE view[c][s]
            /\ view' = [view EXCEPT ![c] = row]
    <3>. DEFINE row == [s \in Slots |-> IF s \in a .. h THEN c ELSE view[c][s]]
    <3>1. row \in [Slots -> Owners] /\ \A s \in Slots : row[s] = IF s \in a .. h THEN c ELSE view[c][s]
        BY DEF ClusterTypes, Views, Owners
    <3>2. view' = [view EXCEPT ![c] = row]
        BY <1>11, <2>1 DEF AddSlotsAt
    <3>. HIDE DEF row
    <3>. QED
        BY <3>1, <3>2, Zenon
  <2>3. claim' = [s \in Slots |-> IF s \in a .. h THEN c ELSE claim[s]]
      BY <1>11, <2>1 DEF AddSlotsAt
  <2>4. view \in [Masters -> [Slots -> Owners]]
      BY DEF ClusterTypes, Views
  <2>5. \A x \in Masters : view'[x] = IF x = c THEN row ELSE view[x]
      BY <2>2, <2>4
  <2>6. \A x \in Masters, s \in Slots :
                    view'[x][s] = IF x = c /\ s \in a .. h THEN c ELSE view[x][s]
      BY <2>2, <2>5
  <2>. QED
      BY <2>3, <2>6
<1>12. \/ UNCHANGED <<view, claim>> /\ Fault
       \/ /\ faults' = faults
          /\ \A x \in Masters, s \in Slots :
                view'[x][s] = IF x = Client /\ s \in slot .. h THEN Client ELSE view[x][s]
          /\ \A s \in Slots :
                claim'[s] = IF s \in slot .. h THEN Client ELSE claim[s]
    BY <1>5, <1>9, <1>10, <1>11
<1>. QED
    BY <1>1, <1>4, <1>5, <1>7, <1>8, <1>12

\* What is done after Setup, or without it.
AfterSetup ==
    /\ slaveOf' = slaveOf /\ ids' = ids /\ faults' \in Nat /\ faults <= faults'
    /\ pc' \in {"spawn", "slots", "replicate", "failed"} =>
          UNCHANGED <<pc, i, slot, view, claim>>
    /\ pc' \notin {"spawn", "slots", "replicate", "failed"} => pc \notin {"spawn", "slots", "replicate"}
    /\ \A s \in Slots : claim[s] # None => claim'[s] # None

LEMMA LaterSteps ==
    ASSUME Types, [Next]_vars
    PROVE  SpawnNode \/ SetupFails \/ MeetAndIdentify \/ AddSlots \/ NextNode \/ Replicate
           \/ SetupReturns \/ AfterSetup
<1>. USE TypesAre
<1>1. faults \in Nat
    BY DEF ControlTypes
<1>2. CASE Shutdown
    BY <1>2, <1>1 DEF AfterSetup, Shutdown, clusterVars, history, setupVars
<1>3. CASE Begins
    BY <1>3, <1>1 DEF AfterSetup, Begins, clusterVars, history, setupVars, Begin, Migrations
<1>4. CASE \E s \in MigratedSlots : DrawsForEver(s)
    BY <1>4, <1>1 DEF AfterSetup, DrawsForEver, clusterVars, history, setupVars
<1>5. CASE \E connected \in {up, Masters} : Update(connected)
    BY <1>5, <1>1 DEF AfterSetup, Update, clusterVars, history, setupVars
<1>6. CASE ReduceMarkImporting
    BY <1>6, <1>1 DEF AfterSetup, ReduceMarkImporting, clusterVars, history, setupVars, Ask,
       Reducing
<1>7. CASE ReduceMarkMigrating
    BY <1>7, <1>1 DEF AfterSetup, ReduceMarkMigrating, clusterVars, history, setupVars, Ask,
       Reducing
<1>8. CASE ReduceGetKeys
    BY <1>8, <1>1 DEF AfterSetup, ReduceGetKeys, clusterVars, history, setupVars, Becomes,
       Reducing, Fault
<1>9. CASE MigrateKey
    BY <1>9, <1>1 DEF AfterSetup, MigrateKey, clusterVars, history, setupVars, Becomes, Fault
<1>10. CASE ReduceUnmark
  <2>1. migration.state # "none"
      BY <1>10 DEF ReduceUnmark, Reducing
  <2>2. PICK s \in Slots, n \in Masters, d \in Masters :
            s = migration.slot /\ n = migration.destination /\ d = migration.destination
      BY <2>1, Migrating
  <2>3. SetNode(n, s, d) \/ UNCHANGED <<view, claim, importing, migrating>>
      BY <1>10, <2>2 DEF ReduceUnmark
  <2>4. \A t \in Slots : claim'[t] \in {claim[t], d}
      BY <2>3, SetNodeIs
  <2>5. \A t \in Slots : claim[t] # None => claim'[t] # None
      BY <2>4, MasterNodes
  <2>. QED
      BY <1>10, <1>1, <2>5 DEF ReduceUnmark, AfterSetup, Reducing, Fault, setupVars
<1>11. CASE UnmarkSource
  <2>1. migration.state # "none"
      BY <1>11 DEF UnmarkSource, RequestTypes, RequestInv
  <2>2. PICK s \in Slots, n \in Masters, d \in Masters :
            s = migration.slot /\ n = migration.source /\ d = migration.destination
      BY <2>1, Migrating
  <2>3. SetNode(n, s, d) \/ UNCHANGED <<view, claim, importing, migrating>>
      BY <1>11, <2>2 DEF UnmarkSource
  <2>4. \A t \in Slots : claim'[t] \in {claim[t], d}
      BY <2>3, SetNodeIs
  <2>5. \A t \in Slots : claim[t] # None => claim'[t] # None
      BY <2>4, MasterNodes
  <2>. QED
      BY <1>11, <1>1, <2>5 DEF UnmarkSource, AfterSetup, Becomes, Fault, setupVars
<1>12. CASE ReduceWaiting
    BY <1>12, <1>1 DEF AfterSetup, ReduceWaiting, clusterVars, history, setupVars, Reducing
<1>13. CASE ReduceWaitForGossip
    BY <1>13, <1>1 DEF AfterSetup, ReduceWaitForGossip, clusterVars, history, setupVars,
       Reducing, Becomes
<1>14. CASE ReduceBail
    BY <1>14, <1>1 DEF AfterSetup, ReduceBail, clusterVars, history, setupVars, Reducing
<1>15. CASE ServerRuns
    BY <1>15, <1>1 DEF AfterSetup, ServerRuns, clusterVars, history, setupVars, Fault
<1>16. CASE \E n \in Masters : Lose(n)
    BY <1>16, <1>1 DEF AfterSetup, Lose, clusterVars, history, setupVars, Fault
<1>17. CASE \E n \in Masters : Gossip(n)
    BY <1>17, <1>1 DEF AfterSetup, Gossip, clusterVars, history, setupVars
<1>18. CASE \E k \in Keys, n \in Masters : CreateKey(k, n)
    BY <1>18, <1>1 DEF AfterSetup, CreateKey, clusterVars, history, setupVars
<1>19. CASE UNCHANGED vars
    BY <1>19, <1>1 DEF AfterSetup, vars, clusterVars, history, setupVars
<1>. QED
    BY <1>2, <1>3, <1>4, <1>5, <1>6, <1>7, <1>8, <1>9, <1>10, <1>11, <1>12, <1>13, <1>14,
       <1>15, <1>16, <1>17, <1>18, <1>19, Steppings

LEMMA FreeStep ==
    ASSUME Types, FreeInv, [Next]_vars
    PROVE  FreeInv'
<1>. USE TypesAre
<1>1. /\ ControlTypes /\ ClusterTypes /\ 0 \in Masters /\ NumNodes \in Nat \ {0}
      /\ SlotsPerMaster \in Nat /\ Masters \subseteq Nodes
    BY MasterNodes, Sizes
<1>2. CASE SpawnNode
    BY <1>2 DEF SpawnNode, FreeInv, clusterVars
<1>3. CASE SetupFails
    BY <1>3 DEF SetupFails, FreeInv, clusterVars
<1>4. CASE MeetAndIdentify
  <2>1. pc = "spawn" /\ pc' = "slots" /\ i' = 0 /\ slot' = 0 /\ view' = view
      BY <1>4 DEF MeetAndIdentify, clusterVars
  <2>2. SlotBase(0) = 0
    <3>1. 0 \div (1 + NumSlavesPerMaster) = 0
        BY SizesAssumption
    <3>. QED
        BY <1>1, <3>1 DEF SlotBase
  <2>3. Position'
      BY <1>1, <2>1, <2>2 DEF Position
  <2>. QED
      BY <2>1, <2>3 DEF FreeInv
<1>5. CASE AddSlots
  <2>1. /\ pc = "slots" /\ Client \in Masters
        /\ i <= NumNodes /\ (i = NumNodes \/ i \in Masters) /\ UNCHANGED <<pc, i>> /\ i \in Nat
      BY <1>1, <1>5, Assigns DEF AddSlots, ControlTypes
  <2>2. PICK h \in slot .. MaxSlot(i) :
            /\ slot' = h + 1 /\ h \in Slots
            /\ \/ UNCHANGED view
               \/ \A x \in Masters, s \in Slots :
                      view'[x][s] = IF x = Client /\ s \in slot .. h THEN Client ELSE view[x][s]
      BY <1>1, <1>5, Assigns
  <2>3. \A x \in Masters, s \in Slots : s >= slot => view[x][s] = None
      BY <2>1 DEF FreeInv
  <2>4. slot \in Nat /\ h \in Nat /\ h >= slot
      BY <1>1, <2>2 DEF ControlTypes, Slots
  <2>5. ASSUME NEW x \in Masters, NEW s \in Slots, s >= slot' PROVE view'[x][s] = None
    <3>1. s \in Nat /\ s >= slot /\ s \notin slot .. h
        BY <2>2, <2>4, <2>5 DEF Slots
    <3>. QED
        BY <2>2, <2>3, <3>1
  <2>6. Position
      BY <2>1 DEF FreeInv
  <2>7. CASE i = NumNodes
    <3>1. i \notin Nodes
        BY <1>1, <2>7 DEF Nodes
    <3>2. slot' >= SlotsPerMaster * NumMasters
        BY <2>2, <2>4, <2>6, <2>7, Sizes DEF Position
    <3>3. Position'
        BY <1>1, <2>1, <2>7, <3>1, <3>2 DEF Position
    <3>. QED
        BY <2>1, <2>5, <3>3 DEF FreeInv
  <2>8. CASE i \in Masters
    <3>1. MaxSlot(i) = SlotBase(i) + SlotsPerMaster - 1 /\ SlotBase(i) \in Nat
        BY <1>1, <2>8, LastSlots, Bases
    <3>2. slot \in SlotBase(i) .. SlotBase(i) + SlotsPerMaster
        BY <2>6, <2>8 DEF Position
    <3>3. slot' \in SlotBase(i) .. SlotBase(i) + SlotsPerMaster
        BY <1>1, <2>2, <2>4, <3>1, <3>2
    <3>4. i < NumNodes
        BY <1>1, <2>1, <2>8 DEF Nodes
    <3>5. Position'
        BY <1>1, <2>1, <2>8, <3>3, <3>4 DEF Position
    <3>. QED
        BY <2>1, <2>5, <3>5 DEF FreeInv
  <2>. QED
      BY <2>1, <2>7, <2>8
<1>6. CASE NextNode
  <2>1. pc = "slots" /\ view' = view /\ i <= NumNodes /\ i \in Nat
      BY <1>1, <1>6 DEF NextNode, clusterVars, ControlTypes
  <2>2. CASE i < NumNodes
    <3>1. slot' = slot /\ Position' /\ pc' = pc
        BY <1>1, <1>6, <2>1, <2>2, NextSlots DEF FreeInv
    <3>. QED
        BY <2>1, <3>1 DEF FreeInv
  <2>3. CASE i = NumNodes
    <3>1. pc' = "replicate"
        BY <1>6, <2>3, <1>1 DEF NextNode
    <3>. QED
        BY <3>1 DEF FreeInv
  <2>. QED
      BY <1>1, <2>1, <2>2, <2>3
<1>7. CASE Replicate
    BY <1>7 DEF Replicate, FreeInv
<1>8. CASE SetupReturns
    BY <1>8 DEF SetupReturns, FreeInv
<1>9. CASE AfterSetup
  <2>1. pc' \in {"spawn", "slots"} => UNCHANGED <<pc, i, slot, view>>
      BY <1>9 DEF AfterSetup
  <2>. QED
      BY <2>1 DEF FreeInv, Position
<1>. QED
    BY <1>2, <1>3, <1>4, <1>5, <1>6, <1>7, <1>8, <1>9, LaterSteps

LEMMA SetupStep ==
    ASSUME Types, FreeInv, SetupInv, [Next]_vars
    PROVE  SetupInv'
<1>. USE TypesAre
<1>. SUFFICES ASSUME faults' = 0
              PROVE  (/\ pc # "failed"
                      /\ pc = "spawn" => Unslaved(0)
                      /\ pc = "slots" => /\ ids = Nodes /\ Unslaved(0)
                                         /\ \A s \in Slots : s < slot => claim[s] # None
                      /\ pc = "replicate" => /\ ids = Nodes /\ Unslaved(i)
                                             /\ \A s \in Slots : claim[s] # None
                      /\ SetupComplete)'
    BY DEF SetupInv
<1>1. /\ ControlTypes /\ ClusterTypes /\ 0 \in Masters /\ NumNodes \in Nat \ {0}
      /\ SlotsPerMaster \in Nat /\ Masters \subseteq Nodes
      /\ faults \in Nat /\ i \in Nat /\ slot \in Nat
    BY MasterNodes, Sizes DEF ControlTypes
<1>2. CASE SpawnNode
    BY <1>2 DEF SpawnNode, SetupInv, Unslaved, SetupComplete, clusterVars
<1>3. CASE SetupFails
    BY <1>1, <1>3 DEF SetupFails, Fault
<1>4. CASE MeetAndIdentify
  <2>1. pc = "spawn" /\ pc' = "slots" /\ slot' = 0 /\ slaveOf' = slaveOf
      BY <1>4 DEF MeetAndIdentify, clusterVars
  <2>2. faults = 0 /\ ids' = Nodes
      BY <1>1, <1>4 DEF MeetAndIdentify, Fault
  <2>3. Unslaved(0) /\ Unslaved(0)'
      BY <2>1, <2>2 DEF SetupInv, Unslaved
  <2>4. \A s \in Slots : ~(s < slot')
      BY <2>1 DEF Slots
  <2>. QED
      BY <2>1, <2>2, <2>3, <2>4 DEF SetupComplete
<1>5. CASE AddSlots
  <2>1. pc = "slots" /\ pc' = "slots" /\ ids' = ids /\ slaveOf' = slaveOf /\ Client \in Masters
      BY <1>1, <1>5, Assigns DEF AddSlots
  <2>2. PICK h \in slot .. MaxSlot(i) :
            /\ slot' = h + 1 /\ h \in Slots
            /\ \/ UNCHANGED <<view, claim>> /\ Fault
               \/ /\ faults' = faults
                  /\ \A s \in Slots :
                         claim'[s] = IF s \in slot .. h THEN Client ELSE claim[s]
      BY <1>1, <1>5, Assigns
  <2>3. /\ faults = 0
        /\ \A s \in Slots : claim'[s] = IF s \in slot .. h THEN Client ELSE claim[s]
      BY <1>1, <2>2 DEF Fault
  <2>4. ids = Nodes /\ Unslaved(0) /\ \A s \in Slots : s < slot => claim[s] # None
      BY <2>1, <2>3 DEF SetupInv
  <2>5. ASSUME NEW s \in Slots, s < slot' PROVE claim'[s] # None
    <3>1. s \in slot .. h \/ s < slot
        BY <1>1, <2>2, <2>5 DEF Slots
    <3>. QED
        BY <2>1, <2>3, <2>4, <3>1, MasterNodes
  <2>. QED
      BY <2>1, <2>4, <2>5 DEF SetupComplete, Unslaved
<1>6. CASE NextNode
  <2>1. /\ pc = "slots" /\ ids' = ids /\ slaveOf' = slaveOf /\ claim' = claim /\ i <= NumNodes
        /\ faults = 0
      BY <1>6 DEF NextNode, clusterVars
  <2>2. ids = Nodes /\ Unslaved(0) /\ \A s \in Slots : s < slot => claim[s] # None
      BY <2>1 DEF SetupInv
  <2>3. CASE i < NumNodes
    <3>1. slot' = slot /\ pc' = pc
        BY <1>1, <1>6, <2>1, <2>3, NextSlots DEF FreeInv
    <3>. QED
        BY <2>1, <2>2, <3>1 DEF SetupComplete, Unslaved
  <2>4. CASE i = NumNodes
    <3>1. pc' = "replicate" /\ i' = 0
        BY <1>1, <1>6, <2>4 DEF NextNode
    <3>2. slot > MaxSlot(NumNodes)
        BY <1>1, <1>6, <2>4 DEF NextNode, Nodes
    <3>3. \A s \in Slots : s < slot
        BY <1>1, <3>2, LastSlots, Sizes DEF Slots
    <3>. QED
        BY <2>1, <2>2, <3>1, <3>3 DEF SetupComplete, Unslaved
  <2>. QED
      BY <1>1, <2>1, <2>3, <2>4
<1>7. CASE Replicate
  <2>1. /\ pc = "replicate" /\ pc' = "replicate" /\ ids' = ids /\ claim' = claim
        /\ i < NumNodes /\ i' = i + 1 /\ i \in Nodes
      BY <1>1, <1>7 DEF Replicate, Nodes
  <2>2. /\ faults = 0
        /\ \/ (i \in Masters \/ MasterOf(i) \notin ids) /\ slaveOf' = slaveOf
           \/ i \notin Masters /\ slaveOf' = [slaveOf EXCEPT ![i] = MasterOf(i)]
      BY <1>1, <1>7 DEF Replicate, Fault
  <2>3. ids = Nodes /\ Unslaved(i) /\ \A s \in Slots : claim[s] # None
      BY <2>1, <2>2 DEF SetupInv
  <2>4. MasterOf(i) \in ids
      BY <2>1, <2>3, MasterNodes
  <2>5. slaveOf \in [Nodes -> Owners]
      BY <1>1 DEF ClusterTypes
  <2>6. ASSUME NEW n \in Nodes
        PROVE  slaveOf'[n] = IF n >= i + 1 \/ n \in Masters THEN None ELSE MasterOf(n)
    <3>1. slaveOf[n] = IF n >= i \/ n \in Masters THEN None ELSE MasterOf(n)
        BY <2>3 DEF Unslaved
    <3>2. n \in Nat
        BY MasterNodes
    <3>3. CASE n = i
        BY <1>1, <2>2, <2>4, <2>5, <3>1, <3>3
    <3>4. CASE n # i
      <4>1. n >= i + 1 <=> n >= i
          BY <1>1, <3>2, <3>4
      <4>2. slaveOf'[n] = slaveOf[n]
          BY <2>2, <2>5, <3>4
      <4>. QED
          BY <3>1, <4>1, <4>2
    <3>. QED
        BY <3>3, <3>4
  <2>7. Unslaved(i)'
      BY <2>1, <2>6 DEF Unslaved, Nodes, NumNodes, Masters, MasterOf
  <2>. QED
      BY <2>1, <2>3, <2>7 DEF SetupComplete
<1>8. CASE SetupReturns
  <2>1. /\ pc = "replicate" /\ pc' = "idle" /\ slaveOf' = slaveOf /\ claim' = claim
        /\ i = NumNodes /\ faults = 0
      BY <1>8 DEF SetupReturns, clusterVars
  <2>2. Unslaved(i) /\ \A s \in Slots : claim[s] # None
      BY <2>1 DEF SetupInv
  <2>3. \A n \in Nodes : ~(n >= i)
      BY <1>1, <2>1 DEF Nodes
  <2>. QED
      BY <2>1, <2>2, <2>3 DEF SetupComplete, Unslaved
<1>9. CASE AfterSetup
  <2>1. faults = 0 /\ slaveOf' = slaveOf /\ ids' = ids
      BY <1>1, <1>9 DEF AfterSetup
  <2>2. CASE pc' \in {"spawn", "slots", "replicate", "failed"}
    <3>1. UNCHANGED <<pc, i, slot, claim>>
        BY <1>9, <2>2 DEF AfterSetup
    <3>. QED
        BY <2>1, <3>1 DEF SetupInv, Unslaved, SetupComplete
  <2>3. CASE pc' \notin {"spawn", "slots", "replicate", "failed"}
    <3>1. pc \notin {"spawn", "slots", "replicate", "failed"}
        BY <1>9, <2>1, <2>3 DEF AfterSetup, SetupInv
    <3>2. /\ \A s \in Slots : claim[s] # None
          /\ \A n \in Nodes : slaveOf[n] = IF n \in Masters THEN None ELSE MasterOf(n)
        BY <2>1, <3>1 DEF SetupInv, SetupComplete
    <3>3. \A s \in Slots : claim'[s] # None
        BY <1>9, <3>2 DEF AfterSetup
    <3>. QED
        BY <2>1, <2>3, <3>2, <3>3 DEF SetupComplete
  <2>. QED
      BY <2>2, <2>3
<1>. QED
    BY <1>2, <1>3, <1>4, <1>5, <1>6, <1>7, <1>8, <1>9, LaterSteps

\* When Setup returns and no request was refused or lost, every slot has an owner, also
\* those left over when the slots do not divide evenly among the masters or among the
\* commands, and every slave has its master; no migration changes that.
THEOREM SetupCorrect == Spec => []SetupComplete
<1>1. Init => Types /\ FreeInv /\ SetupInv
  <2>1. Init => FreeInv
      BY DEF Init, FreeInv
  <2>2. Init => SetupInv
    <3>. SUFFICES ASSUME Init PROVE SetupInv
        OBVIOUS
    <3>1. \A n \in Nodes : n >= 0
        BY Sizes DEF Nodes
    <3>. QED
        BY <3>1 DEF Init, SetupInv, Unslaved, SetupComplete
  <2>. QED
      BY <2>1, <2>2, TypesInit
<1>2. Types /\ FreeInv /\ SetupInv /\ [Next]_vars => (Types /\ FreeInv /\ SetupInv)'
    BY TypesStep, FreeStep, SetupStep
<1>3. Types /\ SetupInv => SetupComplete
    BY DEF SetupInv, SetupComplete
<1>. QED
    BY <1>1, <1>2, <1>3, PTL DEF Spec

-----------------------------------------------------------------------------
(* One slot                                                                *)

\* A line of masters, and the same with one of them in front.
LEMMA MoveToFront ==
    ASSUME NEW rank \in Lines, NEW d \in Masters
    PROVE  \E to \in Lines :
               /\ to[d] = 0 /\ \A x \in Masters : x # d => 0 < to[x]
               /\ \A x, y \in Masters : x # d /\ rank[y] < rank[x] => to[y] < to[x]
<1>1. PICK c \in Nat : c = NumMasters
    BY SizesAssumption
<1>. DEFINE to == [x \in Masters |-> IF x = d THEN 0
                              ELSE IF rank[x] < rank[d] THEN rank[x] + 1 ELSE rank[x]]
<1>2. \A x \in Masters : /\ rank[x] \in 0 .. c - 1
                   /\ to[x] = IF x = d THEN 0
                              ELSE IF rank[x] < rank[d] THEN rank[x] + 1 ELSE rank[x]
    BY <1>1 DEF Lines
<1>3. \A x \in Masters : to[x] \in 0 .. c - 1
    BY <1>2
<1>4. to \in [Masters -> 0 .. c - 1]
    BY <1>3
<1>. HIDE DEF to
<1>5. to[d] = 0
    BY <1>2
<1>6. \A x, y \in Masters : rank[x] = rank[y] => x = y
    BY DEF Lines
<1>7. ASSUME NEW x \in Masters, x # d PROVE 0 < to[x] /\ rank[x] # rank[d]
    BY <1>2, <1>7, <1>6
<1>8. ASSUME NEW x \in Masters, NEW y \in Masters, to[x] = to[y] PROVE x = y
  <2>1. CASE x = d \/ y = d
      BY <1>5, <1>7, <1>8, <2>1
  <2>2. CASE x # d /\ y # d
    <3>1. rank[x] # rank[d] /\ rank[y] # rank[d]
        BY <1>7, <2>2
    <3>2. rank[x] = rank[y]
        BY <1>2, <1>8, <2>2, <3>1
    <3>. QED
        BY <1>6, <3>2
  <2>. QED
      BY <2>1, <2>2
<1>9. ASSUME NEW x \in Masters, NEW y \in Masters, x # d, rank[y] < rank[x] PROVE to[y] < to[x]
    BY <1>2, <1>5, <1>7, <1>9
<1>10. to \in Lines
    BY <1>1, <1>4, <1>8 DEF Lines
<1>. QED
    BY <1>5, <1>7, <1>9, <1>10

\* The masters can be lined up: as their groups are.
LEMMA LinedUp == Lines # {}
<1>1. PICK k \in Nat : k = NumSlavesPerMaster
    BY SizesAssumption
<1>2. NumMasters \in Nat /\ Masters \subseteq Nat
    BY SizesAssumption, MasterNodes
<1>3. ASSUME NEW x \in Masters
      PROVE  Group(x) \in 0 .. NumMasters - 1 /\ x = (1 + k) * Group(x)
  <2>1. x \in Nat /\ x < NumNodes /\ MasterOf(x) = x
      BY <1>2, Sizes DEF Masters, Nodes
  <2>2. PICK q \in Nat, r \in 0 .. k : q = Group(x) /\ x = (1 + k) * q + r /\ MasterOf(x) = x - r
      BY <1>1, <2>1, Grouped
  <2>3. PICK a \in Nat : a = (1 + k) * q
      BY Times
  <2>4. r = 0 /\ x = (1 + k) * q
      BY <2>1, <2>2, <2>3
  <2>5. (1 + k) * q + 0 < (1 + k) * NumMasters
      BY <1>1, <2>1, <2>3, <2>4, Sizes
  <2>6. q < NumMasters
      BY <1>2, <2>5, Smaller
  <2>. QED
      BY <1>2, <2>2, <2>4, <2>6
<1>. DEFINE rank == [x \in Masters |-> Group(x)]
<1>4. rank \in [Masters -> 0 .. NumMasters - 1] /\ \A x \in Masters : rank[x] = Group(x)
    BY <1>3
<1>5. \A x, y \in Masters : Group(x) = Group(y) => x = y
    BY <1>3
<1>. HIDE DEF rank
<1>6. rank \in Lines
    BY <1>4, <1>5 DEF Lines
<1>. QED
    BY <1>6

\* What is at the other end of a mark.
LEMMA Ends ==
    ASSUME ClusterTypes, NEW s \in Slots, NEW x \in Masters
    PROVE  /\ view[x][s] \in Owners /\ migrating[x][s] \in Owners /\ importing[x][s] \in Owners
           /\ claim[s] \in Owners
    BY DEF ClusterTypes, Views

\* A slot at which nothing changes, but for a mark or a key.
LEMMA SlotFrame ==
    ASSUME ClusterTypes, NEW s \in Slots, SlotInv(s),
           \A x \in Masters : view'[x][s] = view[x][s] /\ migrating'[x][s] = migrating[x][s],
           \A x \in Masters : importing[x][s] # None => importing'[x][s] # None,
           claim'[s] = claim[s],
           \A k \in Keys : KeySlot[k] = s => keyAt'[k] \in {keyAt[k], None},
           Told(s)' <=> Told(s), Told(s) => migration'.source = migration.source
    PROVE  SlotInv(s)'
<1>1. claim[s] \in Owners /\ \A x \in Masters : view[x][s] \in Owners /\ migrating[x][s] \in Owners
    BY Ends, MasterNodes
<1>2. PICK rank \in Lines : Ahead(s, rank)
    BY DEF SlotInv
<1>3. Ahead(s, rank)'
    BY <1>2 DEF Ahead
<1>4. Owned(s)'
  <2>1. \A x \in Masters : view'[x][s] # None => claim'[s] # None
      BY DEF SlotInv, Owned
  <2>2. claim'[s] # None => view'[claim'[s]][s] = claim'[s]
      BY <1>1 DEF SlotInv, Owned, Owners
  <2>3. ASSUME NEW x \in Masters, view'[x][s] = x
        PROVE  x = claim'[s] \/ (Told(s)' /\ x = migration'.source /\ migrating'[x][s] = claim'[s])
    <3>1. view[x][s] = x
        BY <2>3
    <3>2. x = claim[s] \/ (Told(s) /\ x = migration.source /\ migrating[x][s] = claim[s])
        BY <3>1 DEF SlotInv, Owned
    <3>. QED
        BY <3>2
  <2>. QED
      BY <2>1, <2>2, <2>3 DEF Owned
<1>5. Marked(s)'
  <2>1. SUFFICES ASSUME NEW x \in Masters, migrating'[x][s] # None
                 PROVE  (\/ ~Told(s) /\ x = claim[s] /\ importing[migrating[x][s]][s] # None
                         \/ Told(s) /\ x = migration.source /\ x # claim[s] /\ migrating[x][s] = claim[s])'
      BY DEF Marked
  <2>2. PICK d \in Masters : d = migrating[x][s] /\ d = migrating'[x][s]
      BY <1>1, <2>1 DEF Owners
  <2>3. \/ ~Told(s) /\ x = claim[s] /\ importing[d][s] # None
        \/ Told(s) /\ x = migration.source /\ x # claim[s] /\ d = claim[s]
      BY <2>2, MasterNodes DEF SlotInv, Marked
  <2>. QED
      BY <2>2, <2>3
<1>6. Kept(s)'
  <2>1. SUFFICES ASSUME NEW k \in Keys, KeySlot[k] = s, keyAt'[k] \notin {None, claim'[s]}
                 PROVE  claim'[s] # None /\ keyAt'[k] = migrating'[claim'[s]][s]
      BY DEF Kept
  <2>2. keyAt[k] = keyAt'[k]
      BY <2>1
  <2>3. claim[s] # None /\ keyAt[k] = migrating[claim[s]][s]
      BY <2>1, <2>2 DEF SlotInv, Kept
  <2>4. claim[s] \in Masters
      BY <1>1, <2>3 DEF Owners
  <2>. QED
      BY <2>2, <2>3, <2>4
<1>. QED
    BY <1>2, <1>3, <1>4, <1>5, <1>6 DEF SlotInv

\* A slot that is assigned for the first time.
LEMMA SlotAssigned ==
    ASSUME ClusterTypes, NEW s \in Slots, SlotInv(s), pc = "slots", pc' = "slots",
           NEW c \in Masters,
           \A x \in Masters : view[x][s] = None,
           \A x \in Masters : view'[x][s] = IF x = c THEN c ELSE None,
           claim'[s] = c, UNCHANGED <<migrating, importing, keyAt>>
    PROVE  SlotInv(s)' /\ claim[s] = None
<1>1. claim[s] \in Owners /\ \A x \in Masters : migrating[x][s] \in Owners
    BY Ends, MasterNodes
<1>2. None \notin Masters /\ ~Told(s) /\ ~Told(s)'
    BY MasterNodes DEF Told
<1>3. claim[s] = None
    BY <1>1 DEF SlotInv, Owned, Owners
<1>4. \A x \in Masters : migrating[x][s] = None
    BY <1>2, <1>3 DEF SlotInv, Marked
<1>5. \A k \in Keys : KeySlot[k] = s => keyAt[k] = None
    BY <1>3 DEF SlotInv, Kept
<1>6. PICK rank \in Lines : Ahead(s, rank)
    BY DEF SlotInv
<1>7. NumMasters \in Nat
    BY SizesAssumption
<1>8. PICK to \in Lines :
          /\ to[c] = 0 /\ \A x \in Masters : x # c => 0 < to[x]
    BY MoveToFront
<1>9. Ahead(s, to)'
    BY <1>2, <1>8 DEF Ahead
<1>10. Owned(s)'
    BY <1>2 DEF Owned
<1>11. Marked(s)'
    BY <1>4 DEF Marked
<1>12. Kept(s)'
    BY <1>5 DEF Kept
<1>. QED
    BY <1>3, <1>8, <1>9, <1>10, <1>11, <1>12 DEF SlotInv

\* The destination of a slot is told that it is the owner.
LEMMA SlotMoved ==
    ASSUME ClusterTypes, NEW s \in Slots, SlotInv(s), ~Told(s), Told(s)',
           NEW a \in Masters, NEW d \in Masters,
           migration.source = a, migration'.source = a,
           claim[s] = a, migrating[a][s] = d, importing[d][s] # None, view[d][s] # d,
           \A k \in Keys : KeySlot[k] = s => keyAt[k] # a,
           \A x \in Masters : view'[x][s] = IF x = d THEN d ELSE view[x][s],
           \A x \in Masters : migrating'[x][s] = migrating[x][s] \/ (x = d /\ migrating'[x][s] = None),
           claim'[s] = d, keyAt' = keyAt
    PROVE  SlotInv(s)' /\ a # d
<1>1. claim[s] \in Owners /\ \A x \in Masters : view[x][s] \in Owners /\ migrating[x][s] \in Owners
    BY Ends, MasterNodes
<1>2. None \notin Masters /\ NumMasters \in Nat
    BY MasterNodes, SizesAssumption
<1>3. a # d
    BY <1>2 DEF SlotInv, Owned
<1>4. \A x \in Masters : x # a => migrating[x][s] = None
    BY DEF SlotInv, Marked
<1>5. \A x \in Masters : migrating'[x][s] = migrating[x][s]
    BY <1>3, <1>4
<1>6. PICK rank \in Lines : Ahead(s, rank)
    BY DEF SlotInv
<1>7. PICK to \in Lines :
          /\ to[d] = 0 /\ \A x \in Masters : x # d => 0 < to[x]
          /\ \A x, y \in Masters : x # d /\ rank[y] < rank[x] => to[y] < to[x]
    BY MoveToFront
<1>8. \A x \in Masters : view'[x][s] \notin {None, x} => to[view'[x][s]] < to[x]
  <2>1. SUFFICES ASSUME NEW x \in Masters, view'[x][s] \notin {None, x}
                 PROVE  to[view'[x][s]] < to[x]
      OBVIOUS
  <2>2. x # d /\ view'[x][s] = view[x][s] /\ view[x][s] \in Masters
      BY <1>1, <2>1 DEF Owners
  <2>3. rank[view[x][s]] < rank[x]
      BY <1>6, <2>1, <2>2 DEF Ahead
  <2>. QED
      BY <1>7, <2>2, <2>3
<1>9. Ahead(s, to)'
    BY <1>7, <1>8 DEF Ahead
<1>10. Owned(s)'
    BY <1>2, <1>5 DEF SlotInv, Owned
<1>11. Marked(s)'
    BY <1>3, <1>4, <1>5 DEF Marked
<1>12. Kept(s)'
    BY DEF SlotInv, Kept
<1>. QED
    BY <1>3, <1>7, <1>9, <1>10, <1>11, <1>12 DEF SlotInv

\* And then the source.
LEMMA SlotLeft ==
    ASSUME ClusterTypes, NEW s \in Slots, SlotInv(s), Told(s), ~Told(s)',
           NEW a \in Masters, NEW d \in Masters, migration.source = a,
           claim[s] = d, a # d,
           \A x \in Masters : view'[x][s] = IF x = a THEN d ELSE view[x][s],
           \A x \in Masters : migrating'[x][s] = IF x = a THEN None ELSE migrating[x][s],
           claim'[s] = d, keyAt' = keyAt
    PROVE  SlotInv(s)'
<1>1. claim[s] \in Owners /\ \A x \in Masters : view[x][s] \in Owners /\ migrating[x][s] \in Owners
    BY Ends, MasterNodes
<1>2. None \notin Masters
    BY MasterNodes
<1>3. \A x \in Masters : migrating'[x][s] = None
    BY DEF SlotInv, Marked
<1>4. PICK rank \in Lines : Ahead(s, rank)
    BY DEF SlotInv
<1>5. rank[d] < rank[a]
    BY <1>2, <1>4 DEF Ahead
<1>6. Ahead(s, rank)'
    BY <1>4, <1>5 DEF Ahead
<1>7. Owned(s)'
    BY <1>2 DEF SlotInv, Owned
<1>8. Marked(s)'
    BY <1>3 DEF Marked
<1>9. Kept(s)'
  <2>1. migrating[d][s] = None
      BY DEF SlotInv, Marked
  <2>. QED
      BY <2>1 DEF SlotInv, Kept
<1>. QED
    BY <1>4, <1>6, <1>7, <1>8, <1>9 DEF SlotInv

\* A node hears who owns the slot.
LEMMA SlotHeard ==
    ASSUME ClusterTypes, NEW s \in Slots, SlotInv(s), NEW n \in Masters,
           Told(s)' <=> Told(s), migration' = migration,
           \A x \in Masters : view'[x][s] = IF x = n /\ importing[n][s] = None /\ claim[s] # None
                                            THEN claim[s] ELSE view[x][s],
           UNCHANGED <<claim, migrating, importing>>,
           \A k \in Keys : keyAt'[k] \in {keyAt[k], None}
    PROVE  SlotInv(s)'
<1>1. claim[s] \in Owners /\ \A x \in Masters : view[x][s] \in Owners /\ migrating[x][s] \in Owners
    BY Ends, MasterNodes
<1>2. None \notin Masters
    BY MasterNodes
<1>3. PICK rank \in Lines : Ahead(s, rank)
    BY DEF SlotInv
<1>4. Ahead(s, rank)'
    BY <1>3 DEF Ahead
<1>5. Owned(s)'
    BY <1>1, <1>2 DEF SlotInv, Owned, Owners
<1>6. Marked(s)'
    BY DEF SlotInv, Marked
<1>7. Kept(s)'
    BY DEF SlotInv, Kept
<1>. QED
    BY <1>3, <1>4, <1>5, <1>6, <1>7 DEF SlotInv

\* The owner marks the slot as migrating.
LEMMA SlotMarked ==
    ASSUME ClusterTypes, NEW s \in Slots, SlotInv(s), ~Told(s), ~Told(s)',
           NEW a \in Masters, NEW d \in Masters, view[a][s] = a, importing[d][s] # None,
           migrating[a][s] \in {None, d},
           \A x \in Masters : migrating'[x][s] = IF x = a THEN d ELSE migrating[x][s],
           UNCHANGED <<view, claim, importing, keyAt>>
    PROVE  SlotInv(s)' /\ claim[s] = a
<1>1. claim[s] \in Owners /\ \A x \in Masters : view[x][s] \in Owners /\ migrating[x][s] \in Owners
    BY Ends, MasterNodes
<1>2. None \notin Masters
    BY MasterNodes
<1>3. claim[s] = a
    BY DEF SlotInv, Owned
<1>4. PICK rank \in Lines : Ahead(s, rank)
    BY DEF SlotInv
<1>5. Ahead(s, rank)'
    BY <1>4 DEF Ahead
<1>6. Owned(s)'
    BY DEF SlotInv, Owned
<1>7. Marked(s)'
    BY <1>3 DEF SlotInv, Marked
<1>8. Kept(s)'
    BY <1>2, <1>3 DEF SlotInv, Kept
<1>. QED
    BY <1>3, <1>4, <1>5, <1>6, <1>7, <1>8 DEF SlotInv

\* A key is put where the owner sends for it, or to the owner.
LEMMA SlotGetsKey ==
    ASSUME ClusterTypes, NEW s \in Slots, SlotInv(s), Told(s)' <=> Told(s),
           migration'.source = migration.source,
           UNCHANGED <<view, claim, migrating, importing>>,
           \A k \in Keys : KeySlot[k] = s =>
               \/ keyAt'[k] \in {keyAt[k], None, claim[s]}
               \/ claim[s] # None /\ keyAt'[k] = migrating[claim[s]][s]
    PROVE  SlotInv(s)'
<1>1. PICK rank \in Lines : Ahead(s, rank)
    BY DEF SlotInv
<1>2. Ahead(s, rank)'
    BY <1>1 DEF Ahead
<1>3. Owned(s)'
    BY DEF SlotInv, Owned
<1>4. Marked(s)'
    BY DEF SlotInv, Marked
<1>5. Kept(s)'
    BY DEF SlotInv, Kept
<1>. QED
    BY <1>1, <1>2, <1>3, <1>4, <1>5 DEF SlotInv

-----------------------------------------------------------------------------
(* Where a client gets                                                     *)

\* A client that is sent on with ASK, or served, is where the owner of the slot sends it,
\* or at the owner; if the key is not there yet the owner serves it only while it is not
\* about to give the slot away.
Lands(k, x) ==
    LET o == claim[KeySlot[k]]
    IN  /\ o # None
        /\ \/ migrating[o][KeySlot[k]] = None /\ x = o
           \/ migrating[o][KeySlot[k]] # None /\ x = migrating[o][KeySlot[k]]

LEMMA HopLands ==
    ASSUME ClusterTypes, NEW k \in Keys, NEW h \in Steps, SlotInv(KeySlot[k]),
           ~Told(KeySlot[k]), keyAt[k] = None, h.runs \/ h.asking => Lands(k, h.at)
    PROVE  Goes(k, h).runs \/ Goes(k, h).asking => Lands(k, Goes(k, h).at)
<1>1. PICK s \in Slots : s = KeySlot[k]
    BY SizesAssumption DEF Slots
<1>2. PICK x \in Masters : x = h.at
    BY DEF Steps
<1>3. None \notin Masters
    BY MasterNodes
<1>4. h = [at |-> x, asking |-> h.asking, runs |-> h.runs]
    BY <1>2 DEF Steps
<1>5. CASE h.runs
    BY <1>5 DEF Goes
<1>6. CASE ~h.runs /\ view[x][s] = x
  <2>1. x = claim[s]
      BY <1>1, <1>6 DEF SlotInv, Owned
  <2>2. CASE migrating[x][s] # None
    <3>1. Goes(k, h) = [at |-> migrating[x][s], asking |-> TRUE, runs |-> FALSE]
        BY <1>1, <1>2, <1>3, <1>6, <2>2 DEF Goes, Hop
    <3>2. Lands(k, migrating[x][s])
        BY <1>1, <1>3, <2>1, <2>2 DEF Lands
    <3>. QED
        BY <3>1, <3>2
  <2>3. CASE migrating[x][s] = None
    <3>1. Goes(k, h) = [h EXCEPT !.runs = TRUE]
        BY <1>1, <1>2, <1>6, <2>3 DEF Goes, Hop
    <3>2. Goes(k, h).at = x
        BY <1>4, <3>1
    <3>3. Lands(k, x)
        BY <1>1, <1>3, <2>1, <2>3 DEF Lands
    <3>. QED
        BY <3>2, <3>3
  <2>. QED
      BY <2>2, <2>3
<1>7. CASE ~h.runs /\ view[x][s] # x /\ importing[x][s] # None /\ h.asking
  <2>1. Goes(k, h) = [h EXCEPT !.runs = TRUE]
      BY <1>1, <1>2, <1>7 DEF Goes, Hop
  <2>2. Goes(k, h).at = h.at
      BY <1>4, <2>1
  <2>. QED
      BY <1>7, <2>2
<1>8. CASE ~h.runs /\ view[x][s] # x /\ ~(importing[x][s] # None /\ h.asking)
  <2>1. Goes(k, h) \in {h, [at |-> view[x][s], asking |-> FALSE, runs |-> FALSE]}
      BY <1>1, <1>2, <1>8 DEF Goes, Hop
  <2>. QED
      BY <1>8, <2>1
<1>. QED
    BY <1>5, <1>6, <1>7, <1>8

LEMMA FollowLands ==
    ASSUME ClusterTypes, NEW k \in Keys, NEW n \in Masters, SlotInv(KeySlot[k]),
           ~Told(KeySlot[k]), keyAt[k] = None, Follow(k, n).runs
    PROVE  Lands(k, Follow(k, n).at)
<1>1. PICK c \in Nat : c = MaxHops
    BY FollowIs DEF ClusterTypes
<1>2. PICK f \in [0 .. c -> Steps] :
          /\ f[0] = Start(n) /\ \A j \in 1 .. c : f[j] = Goes(k, f[j - 1])
          /\ Follow(k, n) = f[c]
    BY <1>1, FollowIs DEF ClusterTypes
<1>. DEFINE T == {j \in 0 .. c : f[j].runs \/ f[j].asking => Lands(k, f[j].at)}
<1>3. 0 \in T
    BY <1>2 DEF Start
<1>4. ASSUME NEW j \in 1 .. c, j - 1 \in T PROVE j \in T
  <2>1. PICK h \in Steps : h = f[j - 1] /\ f[j] = Goes(k, h)
      BY <1>2
  <2>2. h.runs \/ h.asking => Lands(k, h.at)
      BY <1>4, <2>1
  <2>3. Goes(k, h).runs \/ Goes(k, h).asking => Lands(k, Goes(k, h).at)
      BY <2>2, HopLands
  <2>. QED
      BY <2>1, <2>3
<1>. HIDE DEF T
<1>5. T \in SUBSET (0 .. c)
    BY DEF T
<1>6. T = 0 .. c
    BY <1>3, <1>4, <1>5, HandedOn
<1>7. c \in T
    BY <1>6
<1>. QED
    BY <1>2, <1>7 DEF T

\* Each hop brings a client nearer to one and the same node: it is served there, it is
\* sent there with ASK, or it is sent to a node that is further ahead in the line.
Nearer(k, to, rank) ==
    \A h \in Steps : ~h.runs /\ (h.asking => h.at = to) =>
        \/ Hop(k, h).runs /\ Hop(k, h).at = to
        \/ ~h.asking /\ ~Hop(k, h).runs /\ Hop(k, h).asking /\ Hop(k, h).at = to
        \/ /\ ~h.asking /\ ~Hop(k, h).runs /\ ~Hop(k, h).asking
           /\ rank[Hop(k, h).at] < rank[h.at]

LEMMA OneWay ==
    ASSUME ClusterTypes, ImportInv, NEW k \in Keys, SlotInv(KeySlot[k]),
           Told(KeySlot[k]) => keyAt[k] # migration.source,
           \A x \in Masters : view[x][KeySlot[k]] # None
    PROVE  \E to \in Masters, rank \in Lines : Nearer(k, to, rank) /\ keyAt[k] \in {None, to}
<1>1. PICK s \in Slots : s = KeySlot[k]
    BY SizesAssumption DEF Slots
<1>2. None \notin Masters /\ 0 \in Masters
    BY MasterNodes
<1>3. /\ claim[s] \in Owners
      /\ \A x \in Masters : view[x][s] \in Masters /\ migrating[x][s] \in Owners
    BY <1>1, <1>2, Ends DEF Owners
<1>4. PICK o \in Masters : o = claim[s]
    BY <1>1, <1>2, <1>3 DEF SlotInv, Owned, Owners
<1>5. view[o][s] = o
    BY <1>1, <1>2, <1>4 DEF SlotInv, Owned
<1>6. PICK rank \in Lines : Ahead(s, rank)
    BY <1>1 DEF SlotInv
<1>7. \A x \in Masters : view[x][s] # x => rank[view[x][s]] < rank[x]
    BY <1>2, <1>3, <1>6 DEF Ahead
<1>8. ASSUME NEW h \in Steps, NEW x \in Masters, h.at = x, ~h.runs, view[x][s] # x,
             ~(importing[x][s] # None /\ h.asking)
      PROVE  /\ Hop(k, h).at = view[x][s] /\ ~Hop(k, h).asking /\ ~Hop(k, h).runs
             /\ rank[Hop(k, h).at] < rank[x]
  <2>1. view[x][s] # None
      BY <1>2, <1>3
  <2>2. Hop(k, h) = [at |-> view[x][s], asking |-> FALSE, runs |-> FALSE]
      BY <1>1, <1>8, <2>1 DEF Hop
  <2>. QED
      BY <1>7, <1>8, <2>2
<1>9. ASSUME NEW h \in Steps PROVE [h EXCEPT !.runs = TRUE].runs /\ [h EXCEPT !.runs = TRUE].at = h.at
    BY DEF Steps
<1>10. CASE Told(s) \/ keyAt[k] = o \/ migrating[o][s] = None
  <2>1. \/ migrating[o][s] = None
        \/ keyAt[k] = o
      BY <1>1, <1>2, <1>4, <1>10 DEF SlotInv, Marked
  <2>2. keyAt[k] \in {None, o}
    <3>1. keyAt[k] \notin {None, o} => keyAt[k] = migrating[o][s]
        BY <1>1, <1>4 DEF SlotInv, Kept
    <3>. QED
        BY <2>1, <3>1
  <2>3. \A h \in Steps : h.at = o => Hop(k, h) = [h EXCEPT !.runs = TRUE]
      BY <1>1, <1>5, <2>1 DEF Hop
  <2>4. \A x \in Masters : view[x][s] = x /\ x # o =>
            keyAt[k] # x /\ migrating[x][s] = o
      BY <1>1, <1>4 DEF SlotInv, Owned
  <2>5. Nearer(k, o, rank)
    <3>1. SUFFICES ASSUME NEW h \in Steps, ~h.runs, h.asking => h.at = o
                   PROVE  \/ Hop(k, h).runs /\ Hop(k, h).at = o
                          \/ ~h.asking /\ ~Hop(k, h).runs /\ Hop(k, h).asking /\ Hop(k, h).at = o
                          \/ /\ ~h.asking /\ ~Hop(k, h).runs /\ ~Hop(k, h).asking
                             /\ rank[Hop(k, h).at] < rank[h.at]
        BY DEF Nearer
    <3>2. PICK x \in Masters : x = h.at
        BY DEF Steps
    <3>3. CASE x = o
        BY <1>9, <2>3, <3>2, <3>3
    <3>4. CASE x # o /\ view[x][s] = x
      <4>1. keyAt[k] # x /\ migrating[x][s] = o
          BY <2>4, <3>4
      <4>2. Hop(k, h) = [at |-> o, asking |-> TRUE, runs |-> FALSE]
          BY <1>1, <1>2, <3>2, <3>4, <4>1 DEF Hop
      <4>. QED
          BY <3>1, <3>2, <3>4, <4>2
    <3>5. CASE x # o /\ view[x][s] # x
      <4>1. ~h.asking
          BY <3>1, <3>2, <3>5
      <4>. QED
          BY <1>8, <3>1, <3>2, <3>5, <4>1
    <3>. QED
        BY <3>3, <3>4, <3>5
  <2>. QED
      BY <2>2, <2>5
<1>11. CASE ~Told(s) /\ keyAt[k] # o /\ migrating[o][s] # None
  <2>1. PICK d \in Masters : d = migrating[o][s]
      BY <1>3, <1>11 DEF Owners
  <2>2. importing[d][s] # None /\ view[d][s] # d
      BY <1>1, <1>2, <1>11, <2>1 DEF SlotInv, Marked, ImportInv
  <2>3. keyAt[k] \in {None, d}
      BY <1>1, <1>4, <1>11, <2>1 DEF SlotInv, Kept
  <2>4. \A x \in Masters : view[x][s] = x => x = o
      BY <1>1, <1>4, <1>11 DEF SlotInv, Owned
  <2>5. Nearer(k, d, rank)
    <3>1. SUFFICES ASSUME NEW h \in Steps, ~h.runs, h.asking => h.at = d
                   PROVE  \/ Hop(k, h).runs /\ Hop(k, h).at = d
                          \/ ~h.asking /\ ~Hop(k, h).runs /\ Hop(k, h).asking /\ Hop(k, h).at = d
                          \/ /\ ~h.asking /\ ~Hop(k, h).runs /\ ~Hop(k, h).asking
                             /\ rank[Hop(k, h).at] < rank[h.at]
        BY DEF Nearer
    <3>2. PICK x \in Masters : x = h.at
        BY DEF Steps
    <3>3. CASE x = o
      <4>1. Hop(k, h) = [at |-> d, asking |-> TRUE, runs |-> FALSE]
          BY <1>1, <1>2, <1>5, <1>11, <2>1, <3>2, <3>3 DEF Hop
      <4>2. ~h.asking
          BY <1>5, <2>2, <3>1, <3>2, <3>3
      <4>. QED
          BY <4>1, <4>2
    <3>4. CASE x # o /\ h.asking
      <4>1. x = d
          BY <3>1, <3>2, <3>4
      <4>2. Hop(k, h) = [h EXCEPT !.runs = TRUE]
          BY <1>1, <2>2, <3>2, <3>4, <4>1 DEF Hop
      <4>. QED
          BY <1>9, <3>2, <4>1, <4>2
    <3>5. CASE x # o /\ ~h.asking
      <4>1. view[x][s] # x
          BY <2>4, <3>5
      <4>. QED
          BY <1>8, <3>1, <3>2, <3>5, <4>1
    <3>. QED
        BY <3>3, <3>4, <3>5
  <2>. QED
      BY <2>3, <2>5
<1>. QED
    BY <1>10, <1>11

\* And after at most NumMasters + 1 of them it is served.
LEMMA Arrives ==
    ASSUME ClusterTypes, NEW k \in Keys, NEW to \in Masters, NEW rank \in Lines,
           Nearer(k, to, rank), NEW n \in Masters
    PROVE  Follow(k, n).runs /\ Follow(k, n).at = to
<1>1. PICK N \in Nat \ {0} : N = NumMasters
    BY SizesAssumption
<1>2. PICK c \in Nat : c = MaxHops /\ N + 1 <= c
    BY <1>1 DEF MaxHops
<1>3. PICK f \in [0 .. c -> Steps] :
          /\ f[0] = Start(n) /\ \A j \in 1 .. c : f[j] = Goes(k, f[j - 1])
          /\ Follow(k, n) = f[c]
    BY <1>2, FollowIs DEF ClusterTypes
<1>4. \A x \in Masters : rank[x] \in 0 .. N - 1
    BY <1>1 DEF Lines
<1>. DEFINE Near(j, h) == \/ h.runs /\ h.at = to
                          \/ ~h.runs /\ h.asking /\ h.at = to /\ j <= N
                          \/ ~h.runs /\ ~h.asking /\ rank[h.at] + 1 + j <= N
            T == {j \in 0 .. c : Near(j, f[j])}
<1>5. 0 \in T
  <2>1. Near(0, Start(n))
      BY <1>4 DEF Start
  <2>. QED
      BY <1>3, <2>1
<1>6. ASSUME NEW j \in 1 .. c, j - 1 \in T PROVE j \in T
  <2>1. PICK h \in Steps : h = f[j - 1] /\ f[j] = Goes(k, h)
      BY <1>3
  <2>2. PICK g \in Steps : g = Goes(k, h)
      BY <1>3, <2>1
  <2>3. Near(j - 1, h)
      BY <1>6, <2>1
  <2>4. rank[h.at] \in 0 .. N - 1 /\ rank[g.at] \in 0 .. N - 1
      BY <1>4 DEF Steps
  <2>5. CASE h.runs
      BY <2>1, <2>3, <2>5 DEF Goes
  <2>6. CASE ~h.runs
    <3>1. g = Hop(k, h)
        BY <2>2, <2>6 DEF Goes
    <3>2. h.asking => h.at = to
        BY <2>3, <2>6
    <3>3. \/ g.runs /\ g.at = to
          \/ ~h.asking /\ ~g.runs /\ g.asking /\ g.at = to
          \/ ~h.asking /\ ~g.runs /\ ~g.asking /\ rank[g.at] < rank[h.at]
        BY <2>6, <3>1, <3>2 DEF Nearer
    <3>4. Near(j, g)
      <4>1. PICK p \in Int, q \in Int : p = rank[h.at] /\ q = rank[g.at]
          BY <2>4
      <4>2. ~h.asking => p + 1 + (j - 1) <= N
          BY <2>3, <2>6, <4>1
      <4>3. CASE g.runs /\ g.at = to
          BY <4>3
      <4>4. CASE ~h.asking /\ ~g.runs /\ g.asking /\ g.at = to
        <5>1. j <= N
            BY <2>4, <4>1, <4>2, <4>4
        <5>. QED
            BY <4>4, <5>1
      <4>5. CASE ~h.asking /\ ~g.runs /\ ~g.asking /\ rank[g.at] < rank[h.at]
        <5>1. q < p
            BY <4>1, <4>5
        <5>2. q + 1 + j <= N
            BY <4>2, <4>5, <5>1
        <5>3. rank[g.at] + 1 + j <= N
            BY <4>1, <5>2
        <5>. QED
            BY <4>5, <5>3
      <4>. QED
          BY <3>3, <4>3, <4>4, <4>5
    <3>. QED
        BY <2>1, <2>2, <3>4
  <2>. QED
      BY <2>5, <2>6
<1>7. T \in SUBSET (0 .. c)
    OBVIOUS
<1>. HIDE DEF T
<1>8. T = 0 .. c
    BY <1>5, <1>6, <1>7, HandedOn
<1>9. c \in T
    BY <1>8
<1>10. Near(c, f[c])
    BY <1>9 DEF T
<1>11. f[c] \in Steps
    OBVIOUS
<1>12. rank[f[c].at] \in 0 .. N - 1
    BY <1>4, <1>11 DEF Steps
<1>13. f[c].runs /\ f[c].at = to
    BY <1>2, <1>10, <1>12
<1>. QED
    BY <1>3, <1>13

-----------------------------------------------------------------------------
(* The keys                                                                *)

\* What is forgotten about a slot is not remembered again.
LEMMA CleanBefore ==
    ASSUME Types, [Next]_vars
    PROVE  \A s \in Slots : Clean(s)' => Clean(s)
<1>. USE TypesAre
<1>. SUFFICES unheard \subseteq unheard' /\ remarked \subseteq remarked'
    BY DEF Clean
<1>1. CASE SpawnNode
    BY <1>1 DEF SpawnNode, clusterVars, history, setupVars
<1>2. CASE SetupFails
    BY <1>2 DEF SetupFails, clusterVars, history, setupVars, Fault
<1>3. CASE MeetAndIdentify
    BY <1>3 DEF MeetAndIdentify, clusterVars, history, setupVars, Fault
<1>4. CASE AddSlots
    BY <1>4 DEF AddSlots, clusterVars, history, setupVars, Fault
<1>5. CASE NextNode
    BY <1>5 DEF NextNode, clusterVars, history, setupVars
<1>6. CASE Replicate
    BY <1>6 DEF Replicate, clusterVars, history, setupVars, Fault
<1>7. CASE SetupReturns
    BY <1>7 DEF SetupReturns, clusterVars, history, setupVars
<1>8. CASE Shutdown
    BY <1>8 DEF Shutdown, clusterVars, history, setupVars
<1>9. CASE Begins
    BY <1>9 DEF Begins, clusterVars, history, setupVars, Begin, Migrations
<1>10. CASE \E s \in MigratedSlots : DrawsForEver(s)
    BY <1>10 DEF DrawsForEver, clusterVars, history, setupVars
<1>11. CASE \E connected \in {up, Masters} : Update(connected)
    BY <1>11 DEF Update, clusterVars, history, setupVars
<1>12. CASE ReduceMarkImporting
    BY <1>12 DEF ReduceMarkImporting, clusterVars, history, setupVars, Ask, Reducing
<1>13. CASE ReduceMarkMigrating
    BY <1>13 DEF ReduceMarkMigrating, clusterVars, history, setupVars, Ask, Reducing
<1>14. CASE ReduceGetKeys
    BY <1>14 DEF ReduceGetKeys, clusterVars, history, setupVars, Becomes, Reducing, Fault
<1>15. CASE MigrateKey
    BY <1>15 DEF MigrateKey, clusterVars, history, setupVars, Becomes, Fault
<1>16. CASE ReduceUnmark
    BY <1>16 DEF ReduceUnmark, clusterVars, history, setupVars, Reducing, Fault
<1>17. CASE UnmarkSource
    BY <1>17 DEF UnmarkSource, clusterVars, history, setupVars, Becomes, Fault
<1>18. CASE ReduceWaiting
    BY <1>18 DEF ReduceWaiting, clusterVars, history, setupVars, Reducing
<1>19. CASE ReduceWaitForGossip
    BY <1>19 DEF ReduceWaitForGossip, clusterVars, history, setupVars, Reducing, Becomes
<1>20. CASE ReduceBail
    BY <1>20 DEF ReduceBail, clusterVars, history, setupVars, Reducing
<1>21. CASE ServerRuns
    BY <1>21 DEF ServerRuns, clusterVars, history, setupVars, Fault
<1>22. CASE \E n \in Masters : Lose(n)
    BY <1>22 DEF Lose, clusterVars, history, setupVars, Fault
<1>23. CASE \E n \in Masters : Gossip(n)
    BY <1>23 DEF Gossip, clusterVars, history, setupVars
<1>24. CASE \E k \in Keys, n \in Masters : CreateKey(k, n)
    BY <1>24 DEF CreateKey, clusterVars, history, setupVars
<1>25. CASE UNCHANGED vars
    BY <1>25 DEF vars, clusterVars, history, setupVars
<1>. QED
    BY <1>1, <1>2, <1>3, <1>4, <1>5, <1>6, <1>7, <1>8, <1>9, <1>10, <1>11, <1>12, <1>13,
       <1>14, <1>15, <1>16, <1>17, <1>18, <1>19, <1>20, <1>21, <1>22, <1>23, <1>24, <1>25,
       Steppings

LEMMA NoneYetStep ==
    ASSUME Types, NoneYet, [Next]_vars
    PROVE  NoneYet'
<1>. USE TypesAre
<1>1. CASE SpawnNode
    BY <1>1 DEF NoneYet, SpawnNode, clusterVars, history, setupVars
<1>2. CASE SetupFails
    BY <1>2 DEF NoneYet, SetupFails, clusterVars, history, setupVars, Fault
<1>3. CASE MeetAndIdentify
    BY <1>3 DEF NoneYet, MeetAndIdentify, clusterVars, history, setupVars, Fault
<1>4. CASE AddSlots
    BY <1>4 DEF NoneYet, AddSlots, clusterVars, history, setupVars, Fault
<1>5. CASE NextNode
    BY <1>5 DEF NoneYet, NextNode, clusterVars, history, setupVars
<1>6. CASE Replicate
    BY <1>6 DEF NoneYet, Replicate, clusterVars, history, setupVars, Fault
<1>7. CASE SetupReturns
    BY <1>7 DEF NoneYet, SetupReturns, clusterVars, history, setupVars
<1>8. CASE Shutdown
    BY <1>8 DEF NoneYet, Shutdown
<1>9. CASE Begins
    BY <1>9 DEF NoneYet, Begins, clusterVars, history, setupVars, Begin, Migrations
<1>10. CASE \E s \in MigratedSlots : DrawsForEver(s)
    BY <1>10 DEF NoneYet, DrawsForEver, clusterVars, history, setupVars
<1>11. CASE \E connected \in {up, Masters} : Update(connected)
    BY <1>11 DEF NoneYet, Update, clusterVars, history, setupVars
<1>12. CASE ReduceMarkImporting
    BY <1>12 DEF NoneYet, ReduceMarkImporting, clusterVars, history, setupVars, Ask, Reducing
<1>13. CASE ReduceMarkMigrating
    BY <1>13 DEF NoneYet, ReduceMarkMigrating, clusterVars, history, setupVars, Ask, Reducing
<1>14. CASE ReduceGetKeys
    BY <1>14 DEF NoneYet, ReduceGetKeys, clusterVars, history, setupVars, Becomes, Reducing, Fault
<1>15. CASE MigrateKey
    BY <1>15 DEF NoneYet, MigrateKey, clusterVars, history, setupVars, Becomes, Fault
<1>16. CASE ReduceUnmark
    BY <1>16 DEF NoneYet, ReduceUnmark, Becomes
<1>17. CASE UnmarkSource
    BY <1>17 DEF NoneYet, UnmarkSource, Becomes
<1>18. CASE ReduceWaiting
    BY <1>18 DEF NoneYet, ReduceWaiting, clusterVars, history, setupVars, Reducing
<1>19. CASE ReduceWaitForGossip
    BY <1>19 DEF NoneYet, ReduceWaitForGossip, clusterVars, history, setupVars, Reducing, Becomes
<1>20. CASE ReduceBail
    BY <1>20 DEF NoneYet, ReduceBail, clusterVars, history, setupVars, Reducing
<1>21. CASE ServerRuns
  <2>1. request # NoRequest /\ pc' = pc
      BY <1>21 DEF ServerRuns, NoRequest
  <2>. QED
      BY <2>1 DEF NoneYet
<1>22. CASE \E n \in Masters : Lose(n)
    BY <1>22 DEF NoneYet, Lose, clusterVars, history, setupVars, Fault
<1>23. CASE \E n \in Masters : Gossip(n)
    BY <1>23 DEF NoneYet, Gossip, clusterVars, history, setupVars
<1>24. CASE \E k \in Keys, n \in Masters : CreateKey(k, n)
    BY <1>24 DEF NoneYet, CreateKey, clusterVars, history, setupVars
<1>25. CASE UNCHANGED vars
    BY <1>25 DEF NoneYet, vars, clusterVars, history, setupVars
<1>. QED
    BY <1>1, <1>2, <1>3, <1>4, <1>5, <1>6, <1>7, <1>8, <1>9, <1>10, <1>11, <1>12, <1>13,
       <1>14, <1>15, <1>16, <1>17, <1>18, <1>19, <1>20, <1>21, <1>22, <1>23, <1>24, <1>25,
       Steppings

\* A step that touches neither slots nor keys.
Quiet ==
    /\ UNCHANGED <<view, claim, migrating, importing, keyAt>>
    /\ (pc # "unmark" /\ pc' # "unmark") \/ UNCHANGED <<pc, migration>>

LEMMA QuietSlots ==
    ASSUME Types, SlotsInv, ImportInv, [Next]_vars, Quiet
    PROVE  SlotsInv' /\ ImportInv'
<1>. USE TypesAre
<1>1. ImportInv'
    BY DEF Quiet, ImportInv
<1>2. ASSUME NEW s \in Slots, Clean(s)' PROVE SlotInv(s)'
  <2>1. SlotInv(s)
      BY <1>2, CleanBefore DEF SlotsInv
  <2>2. (Told(s)' <=> Told(s)) /\ (Told(s) => migration'.source = migration.source)
      BY DEF Quiet, Told
  <2>. QED
      BY <2>1, <2>2, SlotFrame DEF Quiet
<1>. QED
    BY <1>1, <1>2 DEF SlotsInv

LEMMA AddSlotsKeeps ==
    ASSUME KeysInv, [Next]_vars, AddSlots
    PROVE  /\ SlotsInv' /\ ImportInv'
           /\ \A s \in Slots : Clean(s)' => claim[s] = None \/ claim'[s] = claim[s]
<1>. USE TypesAre
<1>1. Types /\ ControlTypes /\ ClusterTypes /\ FreeInv /\ SlotsInv /\ ImportInv
    BY DEF KeysInv
<1>2. /\ UNCHANGED <<pc, migrating, importing, keyAt, migration>> /\ pc = "slots"
      /\ \A n \in Masters, s \in Slots : importing[n][s] = None
    BY DEF AddSlots, KeysInv, NoneYet
<1>3. CASE UNCHANGED <<view, claim>>
  <2>1. Quiet
      BY <1>2, <1>3 DEF Quiet
  <2>. QED
      BY <1>1, <1>3, <2>1, QuietSlots
<1>4. CASE ~(UNCHANGED <<view, claim>>)
  <2>1. PICK c \in Masters : c = Client
      BY <1>1, Assigns
  <2>2. PICK h \in slot .. MaxSlot(i) :
            /\ \A x \in Masters, s \in Slots :
                   view'[x][s] = IF x = Client /\ s \in slot .. h THEN Client ELSE view[x][s]
            /\ \A s \in Slots : claim'[s] = IF s \in slot .. h THEN Client ELSE claim[s]
      BY <1>1, <1>4, Assigns
  <2>3. \A x \in Masters, s \in Slots : s >= slot => view[x][s] = None
      BY <1>1, <1>2 DEF FreeInv
  <2>4. ASSUME NEW s \in Slots, Clean(s)'
        PROVE  SlotInv(s)' /\ (claim[s] = None \/ claim'[s] = claim[s])
    <3>1. SlotInv(s)
        BY <1>1, <2>4, CleanBefore DEF SlotsInv
    <3>2. CASE s \in slot .. h
      <4>1. s >= slot
          BY <1>1, <3>2 DEF ControlTypes
      <4>2. \A x \in Masters : view[x][s] = None
          BY <2>3, <4>1
      <4>3. (\A x \in Masters : view'[x][s] = IF x = c THEN c ELSE None) /\ claim'[s] = c
          BY <2>1, <2>2, <3>2, <4>2
      <4>. QED
          BY <1>1, <1>2, <3>1, <4>2, <4>3, SlotAssigned
    <3>3. CASE s \notin slot .. h
      <4>1. claim'[s] = claim[s] /\ \A x \in Masters : view'[x][s] = view[x][s]
          BY <2>2, <3>3
      <4>2. ~Told(s) /\ ~Told(s)'
          BY <1>2 DEF Told
      <4>. QED
          BY <1>1, <1>2, <3>1, <4>1, <4>2, SlotFrame
    <3>. QED
        BY <3>2, <3>3
  <2>5. ImportInv'
      BY <1>2 DEF ImportInv
  <2>. QED
      BY <2>4, <2>5 DEF SlotsInv
<1>. QED
    BY <1>3, <1>4

\* What a migration is about does not change until it is over.
LEMMA SameMigration ==
    ASSUME migration \in Migrations, NEW st, migration' = [migration EXCEPT !.state = st]
    PROVE  /\ migration'.state = st /\ migration'.slot = migration.slot
           /\ migration'.source = migration.source
           /\ migration'.destination = migration.destination
    BY DEF Migrations

LEMMA MigrateKeyKeeps ==
    ASSUME KeysInv, [Next]_vars, MigrateKey
    PROVE  /\ SlotsInv' /\ ImportInv'
           /\ migration \in Migrations
           /\ migration'.slot = migration.slot /\ migration'.source = migration.source
           /\ migration'.destination = migration.destination
           /\ migration'.state \in {"MIGRATING_KEYS", "BAIL"} /\ migration.state = "MIGRATING_KEYS"
<1>. USE TypesAre
<1>1. Types /\ ControlTypes /\ ClusterTypes /\ RequestTypes /\ SlotsInv /\ ImportInv
    BY DEF KeysInv
<1>2. /\ pc = "migrate" /\ UNCHANGED <<view, claim, migrating, importing>> /\ pc' = "idle"
    BY DEF MigrateKey, Becomes
<1>3. /\ request \in SyncRequests /\ request.key \in Keys
      /\ migration.state = "MIGRATING_KEYS"
    BY <1>1, <1>2, InMigrate, InRequest
<1>4. PICK s \in Slots, a \in Masters, d \in Masters :
          s = migration.slot /\ a = migration.source /\ d = migration.destination
    BY <1>1, <1>3, Migrating
<1>5. migration \in Migrations /\ migration # NoMigration
    BY <1>1, <1>3, Migrating
<1>6. /\ migration'.slot = migration.slot /\ migration'.source = migration.source
      /\ migration'.destination = migration.destination
      /\ migration'.state \in {"MIGRATING_KEYS", "BAIL"}
  <2>1. migration' = migration \/ migration' = [migration EXCEPT !.state = "BAIL"]
      BY DEF MigrateKey, Becomes
  <2>. QED
      BY <1>3, <1>5, <2>1, SameMigration
<1>7. KeySlot[request.key] = s
    BY <1>3, <1>4 DEF KeysInv, RequestSays
<1>8. \A k \in Keys : keyAt'[k] = keyAt[k] \/ (KeySlot[k] = s /\ keyAt'[k] = d)
  <2>1. keyAt' = keyAt \/ keyAt' = [keyAt EXCEPT ![request.key] = d]
      BY <1>4 DEF MigrateKey
  <2>2. keyAt \in [Keys -> Owners]
      BY <1>1 DEF ClusterTypes
  <2>. QED
      BY <1>7, <2>1, <2>2
<1>9. ImportInv'
    BY <1>1, <1>2 DEF ImportInv
<1>10. ASSUME NEW t \in Slots, Clean(t)' PROVE SlotInv(t)'
  <2>1. SlotInv(t) /\ Clean(t)
      BY <1>1, <1>10, CleanBefore DEF SlotsInv
  <2>2. ~Told(t) /\ ~Told(t)'
      BY <1>2 DEF Told
  <2>3. t = s => claim[s] = a /\ migrating[a][s] = d
      BY <1>2, <1>3, <1>4, <1>5, <2>1 DEF KeysInv, MigrationSays, Leaves
  <2>4. \A k \in Keys : KeySlot[k] = t =>
            \/ keyAt'[k] \in {keyAt[k], None, claim[t]}
            \/ claim[t] # None /\ keyAt'[k] = migrating[claim[t]][t]
      BY <1>8, <2>3, MasterNodes
  <2>. QED
      BY <1>1, <1>2, <1>6, <2>1, <2>2, <2>4, SlotGetsKey
<1>. QED
    BY <1>3, <1>5, <1>6, <1>9, <1>10 DEF SlotsInv

LEMMA ReduceUnmarkKeeps ==
    ASSUME KeysInv, [Next]_vars, ReduceUnmark
    PROVE  /\ SlotsInv' /\ ImportInv'
           /\ Clean(migration.slot)' =>
                 /\ claim'[migration.slot] = migration.destination
                 /\ migration.source # migration.destination
<1>. USE TypesAre
<1>1. Types /\ ControlTypes /\ ClusterTypes /\ RequestTypes /\ SlotsInv /\ ImportInv
    BY DEF KeysInv
<1>2. /\ pc = "reduce" /\ pc' = "unmark" /\ migration.state = "UNMARK"
      /\ UNCHANGED <<migration, request, keyAt>>
    BY DEF ReduceUnmark, Reducing
<1>3. PICK s \in Slots, a \in Masters, d \in Masters :
          /\ s = migration.slot /\ a = migration.source /\ d = migration.destination
          /\ migration # NoMigration
    BY <1>1, <1>2, Migrating
<1>4. \/ SetNode(d, s, d)
      \/ ~Clean(s)' /\ UNCHANGED <<view, claim, migrating, importing>>
    BY <1>3 DEF ReduceUnmark, Clean
<1>5. CanSetNode(d, s, d)
    BY DEF CanSetNode
<1>6. None \notin Masters
    BY MasterNodes
<1>7. ASSUME SetNode(d, s, d)
      PROVE  /\ \A x \in Masters, t \in Slots :
                   /\ view'[x][t] = IF x = d /\ t = s THEN d ELSE view[x][t]
                   /\ importing'[x][t] = IF x = d /\ t = s THEN None ELSE importing[x][t]
                   /\ migrating'[x][t] = IF x = d /\ t = s /\ ~Holds(d, s) THEN None
                                         ELSE migrating[x][t]
             /\ \A t \in Slots : claim'[t] = IF t = s /\ importing[d][s] # None
                                             THEN d ELSE claim[t]
    BY <1>1, <1>5, <1>7, SetNodeIs
<1>8. ImportInv'
  <2>1. CASE SetNode(d, s, d)
      BY <1>1, <1>7, <2>1 DEF ImportInv
  <2>2. CASE UNCHANGED <<view, importing>>
      BY <1>1, <2>2 DEF ImportInv
  <2>. QED
      BY <1>4, <2>1, <2>2
<1>9. ASSUME NEW t \in Slots, Clean(t)', t # s PROVE SlotInv(t)'
  <2>1. SlotInv(t)
      BY <1>1, <1>9, CleanBefore DEF SlotsInv
  <2>2. ~Told(t) /\ ~Told(t)'
      BY <1>2, <1>3, <1>9 DEF Told
  <2>3. /\ claim'[t] = claim[t]
        /\ \A x \in Masters : view'[x][t] = view[x][t] /\ migrating'[x][t] = migrating[x][t]
        /\ \A x \in Masters : importing'[x][t] = importing[x][t]
      BY <1>4, <1>7, <1>9
  <2>. QED
      BY <1>1, <1>2, <2>1, <2>2, <2>3, SlotFrame
<1>10. ASSUME Clean(s)' PROVE SlotInv(s)' /\ claim'[s] = d /\ a # d
  <2>1. SlotInv(s) /\ Clean(s) /\ SetNode(d, s, d)
      BY <1>1, <1>4, <1>10, CleanBefore DEF SlotsInv
  <2>2. ~Told(s) /\ Told(s)'
      BY <1>2, <1>3 DEF Told
  <2>3. claim[s] = a /\ migrating[a][s] = d /\ \A k \in Keys : KeySlot[k] = s => keyAt[k] # a
      BY <1>2, <1>3, <2>1 DEF KeysInv, MigrationSays, Leaves, Emptied
  <2>4. importing[d][s] # None
      BY <1>6, <2>1, <2>2, <2>3 DEF SlotInv, Marked
  <2>5. view[d][s] # d
      BY <1>1, <2>4 DEF ImportInv
  <2>6. /\ claim'[s] = d
        /\ \A x \in Masters : view'[x][s] = IF x = d THEN d ELSE view[x][s]
        /\ \A x \in Masters : migrating'[x][s] = migrating[x][s]
                              \/ (x = d /\ migrating'[x][s] = None)
      BY <1>7, <2>1, <2>4
  <2>7. migration.source = a /\ migration'.source = a
      BY <1>2, <1>3
  <2>. QED
      BY <1>1, <1>2, <2>1, <2>2, <2>3, <2>4, <2>5, <2>6, <2>7, SlotMoved
<1>11. SlotsInv'
    BY <1>9, <1>10 DEF SlotsInv
<1>12. Clean(migration.slot)' => claim'[s] = d /\ a # d
    BY <1>2, <1>3, <1>10 DEF Clean
<1>. QED
    BY <1>3, <1>8, <1>11, <1>12

LEMMA UnmarkSourceKeeps ==
    ASSUME KeysInv, [Next]_vars, UnmarkSource
    PROVE  /\ SlotsInv' /\ ImportInv'
           /\ migration'.state = "WAIT_FOR_GOSSIP" /\ migration' # NoMigration
           /\ request \notin AsyncRequests /\ request \notin SyncRequests
<1>. USE TypesAre
<1>1. Types /\ ControlTypes /\ ClusterTypes /\ RequestTypes /\ SlotsInv /\ ImportInv
    BY DEF KeysInv
<1>2. /\ pc = "unmark" /\ pc' = "idle" /\ UNCHANGED <<request, keyAt>>
      /\ migration' = [migration EXCEPT !.state = "WAIT_FOR_GOSSIP"]
    BY DEF UnmarkSource, Becomes
<1>3. migration \in Migrations /\ migration.state = "UNMARK"
    BY <1>1, <1>2 DEF RequestTypes, RequestInv
<1>4. /\ migration'.state = "WAIT_FOR_GOSSIP" /\ migration'.slot = migration.slot
      /\ migration'.source = migration.source
    BY <1>2, <1>3, SameMigration
<1>5. PICK s \in Slots, a \in Masters, d \in Masters :
          /\ s = migration.slot /\ a = migration.source /\ d = migration.destination
          /\ migration # NoMigration
    BY <1>1, <1>3, Migrating
<1>6. \/ SetNode(a, s, d)
      \/ ~Clean(s)' /\ UNCHANGED <<view, claim, migrating, importing>>
    BY <1>5 DEF UnmarkSource, Clean
<1>7. \/ UNCHANGED <<view, claim, migrating, importing>>
      \/ /\ \A x \in Masters, t \in Slots :
                   /\ view'[x][t] = IF x = a /\ t = s THEN d ELSE view[x][t]
                   /\ importing'[x][t] = IF x = a /\ t = s /\ a = d THEN None ELSE importing[x][t]
                   /\ migrating'[x][t] = IF x = a /\ t = s /\ ~Holds(a, s) THEN None
                                         ELSE migrating[x][t]
         /\ \A t \in Slots : claim'[t] = IF t = s /\ a = d /\ importing[a][s] # None
                                         THEN d ELSE claim[t]
    BY <1>1, <1>6, SetNodeIs
<1>8. ImportInv'
    BY <1>1, <1>7 DEF ImportInv
<1>9. ASSUME NEW t \in Slots, Clean(t)', t # s PROVE SlotInv(t)'
  <2>1. SlotInv(t)
      BY <1>1, <1>9, CleanBefore DEF SlotsInv
  <2>2. ~Told(t) /\ ~Told(t)'
      BY <1>2, <1>5, <1>9 DEF Told
  <2>3. /\ claim'[t] = claim[t]
        /\ \A x \in Masters : view'[x][t] = view[x][t] /\ migrating'[x][t] = migrating[x][t]
        /\ \A x \in Masters : importing'[x][t] = importing[x][t]
      BY <1>7, <1>9
  <2>. QED
      BY <1>1, <1>2, <2>1, <2>2, <2>3, SlotFrame
<1>10. ASSUME Clean(s)' PROVE SlotInv(s)'
  <2>1. SlotInv(s) /\ Clean(s) /\ SetNode(a, s, d)
      BY <1>1, <1>6, <1>10, CleanBefore DEF SlotsInv
  <2>2. Told(s) /\ ~Told(s)'
      BY <1>2, <1>5 DEF Told
  <2>3. claim[s] = d /\ a # d /\ \A k \in Keys : KeySlot[k] = s => keyAt[k] # a
      BY <1>2, <1>3, <1>5, <2>1 DEF KeysInv, MigrationSays, Emptied
  <2>4. ~Holds(a, s) /\ CanSetNode(a, s, d)
      BY <2>3 DEF Holds, CanSetNode
  <2>5. /\ claim'[s] = d
        /\ \A x \in Masters : view'[x][s] = IF x = a THEN d ELSE view[x][s]
        /\ \A x \in Masters : migrating'[x][s] = IF x = a THEN None ELSE migrating[x][s]
      BY <1>1, <2>1, <2>3, <2>4, SetNodeIs
  <2>6. migration.source = a
      BY <1>5
  <2>. QED
      BY <1>1, <1>2, <2>1, <2>2, <2>3, <2>5, <2>6, SlotLeft
<1>11. migration' # NoMigration
    BY <1>4 DEF NoMigration
<1>12. request \notin AsyncRequests /\ request \notin SyncRequests
    BY <1>1, <1>2, <1>3 DEF RequestTypes, RequestInv
<1>. QED
    BY <1>4, <1>8, <1>9, <1>10, <1>11, <1>12 DEF SlotsInv

LEMMA ServerRunsKeeps ==
    ASSUME KeysInv, [Next]_vars, ServerRuns
    PROVE  /\ SlotsInv' /\ ImportInv' /\ RequestSays' /\ MigrationSays'
<1>. USE TypesAre
<1>1. Types /\ ControlTypes /\ ClusterTypes /\ RequestTypes /\ SlotsInv /\ ImportInv
    BY DEF KeysInv
<1>2. /\ UNCHANGED <<pc, migration, view, claim, keyAt, unheard, remarked>>
      /\ request.state = "sent"
    BY DEF ServerRuns, history
<1>3. /\ request \in AsyncRequests /\ migration \in Migrations /\ migration.state = "WAITING"
      /\ migration # NoMigration /\ pc # "unmark"
  <2>1. request \in AsyncRequests /\ migration \in Migrations /\ migration.state = "WAITING"
      BY <1>1, <1>2, InRequest
  <2>2. migration # NoMigration
      BY <2>1 DEF NoMigration
  <2>. QED
      BY <1>1, <2>1, <2>2 DEF RequestTypes, RequestInv
<1>4. PICK s \in Slots, a \in Masters, d \in Masters :
          s = migration.slot /\ a = migration.source /\ d = migration.destination
    BY <1>1, <1>3, Migrating
<1>5. \A t \in Slots : ~Told(t) /\ ~Told(t)' /\ (Clean(t)' <=> Clean(t))
    BY <1>2, <1>3 DEF Told, Clean
<1>6. None \notin Masters /\ a \in Owners /\ d \in Owners
    BY MasterNodes DEF Owners
<1>7. /\ request'.at = request.at /\ request'.command = request.command
      /\ request'.then = request.then /\ request' \notin SyncRequests
  <2>1. \/ request' = [request EXCEPT !.state = "ok"]
        \/ request' = [request EXCEPT !.state = "error"]
      BY DEF ServerRuns
  <2>. QED
      BY <1>3, <2>1 DEF AsyncRequests, SyncRequests
<1>8. RequestSays /\ MigrationSays
    BY DEF KeysInv
<1>9. CASE request.command = "IMPORTING" /\ importing' = [importing EXCEPT ![request.at][s] = a]
           /\ CanImport(request.at, s) /\ UNCHANGED migrating
  <2>1. request.at = d
      BY <1>3, <1>4, <1>8, <1>9 DEF RequestSays
  <2>2. \A x \in Masters, t \in Slots :
            importing'[x][t] = IF x = d /\ t = s THEN a ELSE importing[x][t]
    <3>1. importing' = [importing EXCEPT ![d][s] = a] /\ importing \in Views
        BY <1>1, <1>9, <2>1 DEF ClusterTypes
    <3>. QED
        BY <1>6, <3>1 DEF Views
  <2>3. view[d][s] # d
      BY <1>9, <2>1 DEF CanImport
  <2>4. ImportInv'
      BY <1>1, <1>2, <2>2, <2>3 DEF ImportInv
  <2>5. \A x \in Masters, t \in Slots : importing[x][t] # None => importing'[x][t] # None
      BY <1>6, <2>2
  <2>6. SlotsInv'
    <3>1. SUFFICES ASSUME NEW t \in Slots, Clean(t)' PROVE SlotInv(t)'
        BY DEF SlotsInv
    <3>2. SlotInv(t)
        BY <1>1, <1>5, <3>1 DEF SlotsInv
    <3>. QED
        BY <1>1, <1>2, <1>5, <1>9, <2>5, <3>2, SlotFrame
  <2>7. Imported'
      BY <1>2, <1>4, <1>6, <2>2 DEF Imported
  <2>8. RequestSays'
      BY <1>2, <1>3, <1>7, <1>8, <1>9, <2>7 DEF RequestSays
  <2>9. MigrationSays'
      BY <1>2, <1>3, <1>8, <1>9, <2>7 DEF MigrationSays, Clean
  <2>. QED
      BY <2>4, <2>6, <2>8, <2>9
<1>10. CASE request.command = "MIGRATING" /\ migrating' = [migrating EXCEPT ![request.at][s] = d]
           /\ CanMigrate(request.at, s) /\ UNCHANGED importing
  <2>1. request.at = a /\ (Clean(s) => importing[d][s] # None)
      BY <1>3, <1>4, <1>8, <1>10 DEF RequestSays, Imported
  <2>2. \A x \in Masters, t \in Slots :
            migrating'[x][t] = IF x = a /\ t = s THEN d ELSE migrating[x][t]
    <3>1. migrating' = [migrating EXCEPT ![a][s] = d] /\ migrating \in Views
        BY <1>1, <1>10, <2>1 DEF ClusterTypes
    <3>. QED
        BY <1>6, <3>1 DEF Views
  <2>3. view[a][s] = a
      BY <1>10, <2>1 DEF CanMigrate
  <2>4. ImportInv'
      BY <1>1, <1>2, <1>10 DEF ImportInv
  <2>5. Clean(s) => migrating[a][s] \in {None, d}
      BY <1>3, <1>4, <1>8 DEF MigrationSays
  <2>6. ASSUME NEW t \in Slots, Clean(t), t # s PROVE SlotInv(t)'
    <3>1. SlotInv(t)
        BY <1>1, <2>6 DEF SlotsInv
    <3>2. \A x \in Masters : migrating'[x][t] = migrating[x][t]
        BY <2>2, <2>6
    <3>. QED
        BY <1>1, <1>2, <1>5, <1>10, <3>1, <3>2, SlotFrame
  <2>7. ASSUME Clean(s) PROVE SlotInv(s)' /\ claim[s] = a
    <3>1. SlotInv(s)
        BY <1>1, <2>7 DEF SlotsInv
    <3>2. \A x \in Masters : migrating'[x][s] = IF x = a THEN d ELSE migrating[x][s]
        BY <2>2
    <3>. QED
        BY <1>1, <1>2, <1>5, <1>10, <2>1, <2>3, <2>5, <2>7, <3>1, <3>2, SlotMarked
  <2>8. SlotsInv'
      BY <1>5, <2>6, <2>7 DEF SlotsInv
  <2>9. Clean(s) => Leaves'
      BY <1>2, <1>4, <2>2, <2>7 DEF Leaves
  <2>10. Imported' <=> Imported
      BY <1>2, <1>10 DEF Imported
  <2>11. RequestSays'
      BY <1>2, <1>3, <1>4, <1>7, <1>8, <1>10, <2>9, <2>10 DEF RequestSays, Clean
  <2>12. migrating'[a][s] = d
      BY <2>2
  <2>13. MigrationSays'
      BY <1>2, <1>3, <1>4, <2>12 DEF MigrationSays
  <2>. QED
      BY <2>4, <2>8, <2>11, <2>13
<1>11. CASE UNCHANGED <<importing, migrating>> /\ request'.state = "error"
  <2>1. Quiet
      BY <1>2, <1>11 DEF Quiet
  <2>2. SlotsInv' /\ ImportInv'
      BY <1>1, <2>1, QuietSlots
  <2>3. (Imported' <=> Imported) /\ (Leaves' <=> Leaves)
      BY <1>2, <1>11 DEF Imported, Leaves
  <2>4. RequestSays'
      BY <1>2, <1>3, <1>7, <1>8, <1>11, <2>3 DEF RequestSays, Clean
  <2>5. MigrationSays'
      BY <1>2, <1>3, <1>8, <1>11, <2>3 DEF MigrationSays, Clean
  <2>. QED
      BY <2>2, <2>4, <2>5
<1>12. request' = [request EXCEPT !.state = "error"] => request'.state = "error"
    BY <1>3 DEF AsyncRequests
<1>. QED
    BY <1>4, <1>9, <1>10, <1>11, <1>12 DEF ServerRuns

\* A step that changes neither the migration nor what it has done.
LEMMA SaysFrame ==
    ASSUME RequestSays, MigrationSays, migration' = migration, request' \in {request, NoRequest},
           pc' = pc \/ (pc # "unmark" /\ pc' # "unmark"),
           Clean(migration.slot)' /\ migration # NoMigration =>
               /\ Clean(migration.slot)
               /\ Imported => Imported'
               /\ Leaves => Leaves'
               /\ migrating[migration.source][migration.slot] \in {None, migration.destination} =>
                      migrating'[migration.source][migration.slot] \in {None, migration.destination}
               /\ migration.state = "UNMARK" /\ Emptied => Emptied'
               /\ pc = "unmark" => claim'[migration.slot] = claim[migration.slot],
           request \in AsyncRequests => migration # NoMigration
    PROVE  RequestSays' /\ MigrationSays'
<1>1. request' \in AsyncRequests \/ request' \in SyncRequests => request' = request
    BY Norequest
<1>2. RequestSays'
    BY <1>1 DEF RequestSays, Clean
<1>3. MigrationSays'
    BY DEF MigrationSays, Clean
<1>. QED
    BY <1>2, <1>3

\* Of a request there is a migration.
LEMMA RequestOfMigration ==
    ASSUME RequestTypes, request \in AsyncRequests
    PROVE  migration # NoMigration /\ migration.state = "WAITING"
    BY DEF RequestTypes, RequestInv, Migrations, MigrationStates, NoMigration

LEMMA GossipKeeps ==
    ASSUME KeysInv, [Next]_vars, NEW n \in Masters, Gossip(n)
    PROVE  SlotsInv' /\ ImportInv' /\ RequestSays' /\ MigrationSays'
<1>. USE TypesAre
<1>1. Types /\ ControlTypes /\ ClusterTypes /\ RequestTypes /\ SlotsInv /\ ImportInv
    BY DEF KeysInv
<1>2. /\ UNCHANGED <<pc, migration, request, claim, migrating, importing, unheard, remarked>>
    BY DEF Gossip, history
<1>3. \A x \in Masters, s \in Slots :
          view'[x][s] = IF x = n /\ importing[n][s] = None /\ claim[s] # None
                        THEN claim[s] ELSE view[x][s]
    BY <1>1, GossipIs
<1>4. \A k \in Keys : keyAt'[k] \in {keyAt[k], None}
    BY <1>1, GossipIs
<1>5. ImportInv'
    BY <1>1, <1>2, <1>3 DEF ImportInv
<1>6. ASSUME NEW s \in Slots, Clean(s)' PROVE SlotInv(s)'
  <2>1. SlotInv(s)
      BY <1>1, <1>6, CleanBefore DEF SlotsInv
  <2>2. Told(s)' <=> Told(s)
      BY <1>2 DEF Told
  <2>. QED
      BY <1>1, <1>2, <1>3, <1>4, <2>1, <2>2, SlotHeard
<1>7. RequestSays' /\ MigrationSays'
  <2>1. RequestSays /\ MigrationSays
      BY DEF KeysInv
  <2>2. (Imported' <=> Imported) /\ (Leaves' <=> Leaves)
        /\ (Clean(migration.slot)' <=> Clean(migration.slot))
      BY <1>2 DEF Imported, Leaves, Clean
  <2>3. ASSUME migration # NoMigration, Emptied PROVE Emptied'
    <3>1. migration.source \in Masters
        BY <1>1, <2>3 DEF RequestTypes, Migrations
    <3>. QED
        BY <1>2, <1>4, <2>3, <3>1, MasterNodes DEF Emptied
  <2>4. request \in AsyncRequests => migration # NoMigration
      BY <1>1, RequestOfMigration
  <2>. QED
      BY <1>2, <2>1, <2>2, <2>3, <2>4, SaysFrame
<1>. QED
    BY <1>5, <1>6, <1>7 DEF SlotsInv

LEMMA CreateKeyKeeps ==
    ASSUME KeysInv, [Next]_vars, NEW k \in Keys, NEW n \in Masters, CreateKey(k, n)
    PROVE  SlotsInv' /\ ImportInv' /\ RequestSays' /\ MigrationSays'
<1>. USE TypesAre
<1>1. Types /\ ControlTypes /\ ClusterTypes /\ RequestTypes /\ SlotsInv /\ ImportInv
    BY DEF KeysInv
<1>2. /\ UNCHANGED <<pc, migration, request, view, claim, migrating, importing, unheard, remarked>>
      /\ pc = "idle" /\ keyAt[k] = None /\ Follow(k, n).runs
    BY DEF CreateKey, history
<1>3. PICK x : x = Follow(k, n).at /\ keyAt' = [keyAt EXCEPT ![k] = x]
    BY DEF CreateKey
<1>4. keyAt \in [Keys -> Owners]
    BY <1>1 DEF ClusterTypes
<1>5. \A j \in Keys : keyAt'[j] = IF j = k THEN x ELSE keyAt[j]
    BY <1>3, <1>4
<1>6. PICK s \in Slots : s = KeySlot[k]
    BY SizesAssumption DEF Slots
<1>7. \A t \in Slots : ~Told(t) /\ ~Told(t)' /\ (Clean(t)' <=> Clean(t))
    BY <1>2 DEF Told, Clean
<1>8. ASSUME Clean(s) PROVE Lands(k, x)
  <2>1. SlotInv(KeySlot[k]) /\ ~Told(KeySlot[k])
      BY <1>1, <1>6, <1>7, <1>8 DEF SlotsInv
  <2>. QED
      BY <1>1, <1>2, <1>3, <2>1, FollowLands
<1>9. ImportInv'
    BY <1>1, <1>2 DEF ImportInv
<1>10. ASSUME NEW t \in Slots, Clean(t)' PROVE SlotInv(t)'
  <2>1. SlotInv(t) /\ Clean(t)
      BY <1>1, <1>7, <1>10 DEF SlotsInv
  <2>2. \A j \in Keys : KeySlot[j] = t =>
            \/ keyAt'[j] \in {keyAt[j], None, claim[t]}
            \/ claim[t] # None /\ keyAt'[j] = migrating[claim[t]][t]
      BY <1>5, <1>6, <1>8, <2>1 DEF Lands
  <2>. QED
      BY <1>1, <1>2, <1>7, <2>1, <2>2, SlotGetsKey
<1>11. RequestSays' /\ MigrationSays'
  <2>1. RequestSays /\ MigrationSays
      BY DEF KeysInv
  <2>2. (Imported' <=> Imported) /\ (Leaves' <=> Leaves)
        /\ (Clean(migration.slot)' <=> Clean(migration.slot))
      BY <1>2 DEF Imported, Leaves, Clean
  <2>3. ASSUME migration # NoMigration, migration.state = "UNMARK", Clean(migration.slot), Emptied
        PROVE  Emptied'
    <3>1. PICK a \in Masters, d \in Masters, t \in Slots :
              a = migration.source /\ d = migration.destination /\ t = migration.slot
        BY <1>1, <2>3 DEF RequestTypes, Migrations
    <3>2. Leaves
        BY <1>2, <2>1, <2>3 DEF MigrationSays
    <3>3. claim[t] = a /\ migrating[a][t] = d
        BY <3>1, <3>2 DEF Leaves
    <3>4. SlotInv(t) /\ ~Told(t)
        BY <1>1, <1>7, <2>3, <3>1 DEF SlotsInv
    <3>5. importing[d][t] # None /\ view[a][t] = a
        BY <3>3, <3>4, MasterNodes DEF SlotInv, Marked, Owned
    <3>6. a # d
        BY <1>1, <3>5 DEF ImportInv
    <3>7. s = t => x = d
        BY <1>6, <1>8, <2>3, <3>1, <3>3, MasterNodes DEF Lands
    <3>8. \A j \in Keys : KeySlot[j] = t => keyAt[j] # a
        BY <2>3, <3>1 DEF Emptied
    <3>9. \A j \in Keys : KeySlot[j] = t => keyAt'[j] # a
        BY <1>5, <1>6, <3>6, <3>7, <3>8
    <3>. QED
        BY <1>2, <3>1, <3>9 DEF Emptied
  <2>4. request \in AsyncRequests => migration # NoMigration
      BY <1>1, RequestOfMigration
  <2>. QED
      BY <1>2, <2>1, <2>2, <2>3, <2>4, SaysFrame
<1>. QED
    BY <1>9, <1>10, <1>11 DEF SlotsInv

\* A quiet step that leaves the migration alone.
LEMMA QuietKeeps ==
    ASSUME KeysInv, [Next]_vars, Quiet, migration' = migration, request' \in {request, NoRequest}
    PROVE  SlotsInv' /\ ImportInv' /\ RequestSays' /\ MigrationSays'
<1>. USE TypesAre
<1>1. Types /\ RequestTypes /\ SlotsInv /\ ImportInv /\ RequestSays /\ MigrationSays
    BY DEF KeysInv
<1>2. SlotsInv' /\ ImportInv'
    BY <1>1, QuietSlots
<1>3. (Imported' <=> Imported) /\ (Leaves' <=> Leaves) /\ (Emptied' <=> Emptied)
    BY DEF Quiet, Imported, Leaves, Emptied
<1>4. ASSUME migration # NoMigration, Clean(migration.slot)' PROVE Clean(migration.slot)
  <2>1. PICK s \in Slots : s = migration.slot
      BY <1>1, <1>4 DEF RequestTypes, Migrations
  <2>. QED
      BY <1>1, <1>4, <2>1, CleanBefore DEF Clean
<1>5. request \in AsyncRequests => migration # NoMigration
    BY <1>1, RequestOfMigration
<1>6. UNCHANGED <<migrating, claim>> /\ (pc' = pc \/ (pc # "unmark" /\ pc' # "unmark"))
    BY DEF Quiet
<1>7. RequestSays' /\ MigrationSays'
    BY <1>1, <1>3, <1>4, <1>5, <1>6, SaysFrame
<1>. QED
    BY <1>2, <1>7

\* A quiet step of the migration.
LEMMA QuietMigration ==
    ASSUME Types, Quiet, migration'.slot = migration.slot, migration'.source = migration.source,
           migration'.destination = migration.destination
    PROVE  (Imported' <=> Imported) /\ (Leaves' <=> Leaves) /\ (Emptied' <=> Emptied)
    BY DEF Quiet, Imported, Leaves, Emptied

LEMMA AddSlotsSays ==
    ASSUME KeysInv, [Next]_vars, AddSlots
    PROVE  RequestSays' /\ MigrationSays'
<1>. USE TypesAre
<1>1. Types /\ RequestTypes /\ RequestSays /\ MigrationSays
    BY DEF KeysInv
<1>2. UNCHANGED <<pc, migration, request, migrating, importing, keyAt>> /\ pc = "slots"
    BY DEF AddSlots
<1>3. (Imported' <=> Imported) /\ (Emptied' <=> Emptied)
    BY <1>2 DEF Imported, Emptied
<1>4. ASSUME migration # NoMigration, Clean(migration.slot)'
      PROVE  Clean(migration.slot) /\ (Leaves => Leaves')
  <2>1. PICK s \in Slots, a \in Masters : s = migration.slot /\ a = migration.source
      BY <1>1, <1>4 DEF RequestTypes, Migrations
  <2>2. Clean(s)' /\ Clean(s)
      BY <1>1, <1>2, <1>4, <2>1, CleanBefore DEF Clean
  <2>3. claim[s] = None \/ claim'[s] = claim[s]
      BY <2>2, AddSlotsKeeps
  <2>. QED
      BY <1>2, <2>1, <2>2, <2>3, MasterNodes DEF Leaves
<1>5. request \in AsyncRequests => migration # NoMigration
    BY <1>1, RequestOfMigration
<1>. QED
    BY <1>1, <1>2, <1>3, <1>4, <1>5, SaysFrame

LEMMA MigrateKeySays ==
    ASSUME KeysInv, [Next]_vars, MigrateKey
    PROVE  RequestSays' /\ MigrationSays'
<1>. USE TypesAre
<1>1. Types /\ RequestTypes /\ RequestSays /\ MigrationSays
    BY DEF KeysInv
<1>2. /\ request' = NoRequest /\ pc' = "idle" /\ pc = "migrate"
      /\ UNCHANGED <<claim, migrating, importing, unheard, remarked>>
    BY DEF MigrateKey, Becomes, history
<1>3. /\ migration'.slot = migration.slot /\ migration'.source = migration.source
      /\ migration'.destination = migration.destination
      /\ migration'.state \in {"MIGRATING_KEYS", "BAIL"} /\ migration.state = "MIGRATING_KEYS"
      /\ migration \in Migrations
    BY MigrateKeyKeeps
<1>4. migration # NoMigration
    BY <1>3 DEF NoMigration
<1>5. (Clean(migration.slot)' <=> Clean(migration.slot)) /\ (Leaves' <=> Leaves)
    BY <1>2, <1>3 DEF Clean, Leaves
<1>6. RequestSays'
    BY <1>2, Norequest DEF RequestSays
<1>7. MigrationSays'
    BY <1>1, <1>2, <1>3, <1>4, <1>5 DEF MigrationSays
<1>. QED
    BY <1>6, <1>7

LEMMA ReduceUnmarkSays ==
    ASSUME KeysInv, [Next]_vars, ReduceUnmark
    PROVE  RequestSays' /\ MigrationSays'
<1>. USE TypesAre
<1>1. Types /\ RequestTypes /\ RequestSays /\ MigrationSays
    BY DEF KeysInv
<1>2. /\ pc = "reduce" /\ pc' = "unmark" /\ migration.state = "UNMARK"
      /\ UNCHANGED <<migration, request, keyAt>>
    BY DEF ReduceUnmark, Reducing
<1>3. request \notin AsyncRequests /\ request \notin SyncRequests
    BY <1>1, <1>2 DEF RequestTypes, RequestInv
<1>4. RequestSays'
    BY <1>2, <1>3 DEF RequestSays
<1>5. ASSUME migration # NoMigration, Clean(migration.slot)'
      PROVE  /\ Emptied' /\ claim'[migration.slot] = migration.destination
             /\ migration.source # migration.destination
  <2>1. PICK s \in Slots : s = migration.slot
      BY <1>1, <1>5 DEF RequestTypes, Migrations
  <2>2. Clean(s)
      BY <1>1, <1>2, <1>5, <2>1, CleanBefore DEF Clean
  <2>3. Emptied
      BY <1>1, <1>2, <1>5, <2>1, <2>2 DEF MigrationSays
  <2>4. Emptied'
      BY <1>2, <2>3 DEF Emptied
  <2>. QED
      BY <1>5, <2>4, ReduceUnmarkKeeps
<1>6. MigrationSays'
    BY <1>2, <1>5 DEF MigrationSays, Clean
<1>. QED
    BY <1>4, <1>6

LEMMA BeginSays ==
    ASSUME KeysInv, [Next]_vars, NEW m \in Migrations, m.state = "MARK_IMPORTING", Begin(m)
    PROVE  RequestSays' /\ MigrationSays'
<1>. USE TypesAre
<1>1. Types /\ RequestTypes /\ RequestSays /\ MigrationSays
    BY DEF KeysInv
<1>2. /\ pc = "idle" /\ migration = NoMigration /\ migration' = m
      /\ UNCHANGED <<pc, request, migrating>>
      /\ remarked' = IF migrating[m.source][m.slot] \notin {None, m.destination}
                     THEN remarked \union {m.slot} ELSE remarked
    BY DEF Begin, clusterVars
<1>3. request \notin AsyncRequests /\ request \notin SyncRequests
    BY <1>1, <1>2, RequestOfMigration DEF RequestTypes, RequestInv
<1>4. RequestSays'
    BY <1>2, <1>3 DEF RequestSays
<1>5. Clean(m.slot)' => migrating[m.source][m.slot] \in {None, m.destination}
    BY <1>2 DEF Clean
<1>6. MigrationSays'
    BY <1>2, <1>5 DEF MigrationSays, Clean
<1>. QED
    BY <1>4, <1>6

LEMMA UpdateSays ==
    ASSUME KeysInv, [Next]_vars, NEW c, Update(c)
    PROVE  RequestSays' /\ MigrationSays'
<1>. USE TypesAre
<1>1. Types /\ RequestTypes /\ RequestSays /\ MigrationSays
    BY DEF KeysInv
<1>2. /\ pc = "idle" /\ pc' = "reduce" /\ Quiet
      /\ UNCHANGED <<claim, migrating, importing, keyAt, unheard, remarked>>
    BY DEF Update, clusterVars, history, Quiet
<1>3. CASE UNCHANGED <<request, migration>>
    BY <1>2, <1>3, QuietKeeps
<1>4. CASE request.state = "unsent" /\ request' = [request EXCEPT !.state = "sent"] /\ UNCHANGED migration
  <2>1. request \in AsyncRequests /\ migration \in Migrations
      BY <1>1, <1>4, InRequest
  <2>2. /\ request'.at = request.at /\ request'.command = request.command
        /\ request'.then = request.then /\ request'.state = "sent" /\ request' \notin SyncRequests
      BY <1>4, <2>1 DEF AsyncRequests, SyncRequests
  <2>3. (Imported' <=> Imported) /\ (Leaves' <=> Leaves) /\ (Emptied' <=> Emptied)
      BY <1>1, <1>2, <1>4, QuietMigration
  <2>4. RequestSays'
      BY <1>1, <1>2, <1>4, <2>1, <2>2, <2>3 DEF RequestSays, Clean
  <2>5. MigrationSays'
      BY <1>1, <1>2, <1>4, <2>3 DEF MigrationSays, Clean
  <2>. QED
      BY <2>4, <2>5
<1>5. CASE /\ request.state \in {"ok", "error"} /\ request' = NoRequest
           /\ migration' = [migration EXCEPT !.state =
                 IF request.state = "error" THEN "BAIL" ELSE request.then]
  <2>1. request \in AsyncRequests /\ migration \in Migrations /\ migration.state = "WAITING"
        /\ request.command \in {"IMPORTING", "MIGRATING"} /\ migration # NoMigration
      BY <1>1, <1>5, InRequest, RequestOfMigration
  <2>2. PICK st : /\ st = IF request.state = "error" THEN "BAIL" ELSE request.then
                  /\ migration' = [migration EXCEPT !.state = st]
      BY <1>5
  <2>3. /\ migration'.state = st /\ migration'.slot = migration.slot
        /\ migration'.source = migration.source /\ migration'.destination = migration.destination
      BY <2>1, <2>2, SameMigration
  <2>4. (Imported' <=> Imported) /\ (Leaves' <=> Leaves) /\ (Emptied' <=> Emptied)
      BY <1>1, <1>2, <2>3, QuietMigration
  <2>5. RequestSays'
      BY <1>5, Norequest DEF RequestSays
  <2>6. Clean(migration.slot) =>
            /\ st \in {"BAIL", "MARK_MIGRATING", "MIGRATING_KEYS"}
            /\ st = "MARK_MIGRATING" => Imported
            /\ st = "MIGRATING_KEYS" => Leaves
            /\ migrating[migration.source][migration.slot] \in {None, migration.destination}
      BY <1>1, <1>5, <2>1, <2>2 DEF RequestSays, MigrationSays
  <2>7. MigrationSays'
      BY <1>2, <2>3, <2>4, <2>6 DEF MigrationSays, Clean
  <2>. QED
      BY <2>5, <2>7
<1>. QED
    BY <1>3, <1>4, <1>5 DEF Update

LEMMA AskSays ==
    ASSUME KeysInv, [Next]_vars, ReduceMarkImporting \/ ReduceMarkMigrating
    PROVE  RequestSays' /\ MigrationSays'
<1>. USE TypesAre
<1>1. Types /\ RequestTypes /\ RequestSays /\ MigrationSays
    BY DEF KeysInv
<1>2. /\ pc = "reduce" /\ pc' = "idle" /\ Quiet
      /\ UNCHANGED <<claim, migrating, importing, keyAt, unheard, remarked>>
      /\ migration' = [migration EXCEPT !.state = "WAITING"]
    BY DEF ReduceMarkImporting, ReduceMarkMigrating, Reducing, Ask, clusterVars, history, Quiet
<1>3. /\ migration.state \in {"MARK_IMPORTING", "MARK_MIGRATING"}
      /\ migration \in Migrations /\ migration # NoMigration
    BY <1>1, Migrating DEF ReduceMarkImporting, ReduceMarkMigrating, Reducing
<1>4. /\ migration'.state = "WAITING" /\ migration'.slot = migration.slot
      /\ migration'.source = migration.source /\ migration'.destination = migration.destination
    BY <1>2, <1>3, SameMigration
<1>5. (Imported' <=> Imported) /\ (Leaves' <=> Leaves) /\ (Emptied' <=> Emptied)
    BY <1>1, <1>2, <1>4, QuietMigration
<1>6. MigrationSays'
    BY <1>1, <1>2, <1>3, <1>4 DEF MigrationSays, Clean
<1>7. \/ /\ request'.at = migration.destination /\ request'.command = "IMPORTING"
         /\ request'.then = "MARK_MIGRATING"
      \/ /\ request'.at = migration.source /\ request'.command = "MIGRATING"
         /\ request'.then = "MIGRATING_KEYS" /\ migration.state = "MARK_MIGRATING"
    BY DEF ReduceMarkImporting, ReduceMarkMigrating, Ask, Reducing
<1>8. request'.state = "unsent" /\ request' \notin SyncRequests
    BY DEF ReduceMarkImporting, ReduceMarkMigrating, Ask, SyncRequests
<1>9. Clean(migration.slot) /\ migration.state = "MARK_MIGRATING" => Imported
    BY <1>1, <1>3 DEF MigrationSays
<1>10. RequestSays'
    BY <1>2, <1>4, <1>5, <1>7, <1>8, <1>9 DEF RequestSays, Clean
<1>. QED
    BY <1>6, <1>10

LEMMA GetKeysSays ==
    ASSUME KeysInv, [Next]_vars, ReduceGetKeys
    PROVE  RequestSays' /\ MigrationSays'
<1>. USE TypesAre
<1>. DEFINE here == {k \in Keys : KeySlot[k] = migration.slot /\ keyAt[k] = migration.source}
<1>1. Types /\ RequestTypes /\ RequestSays /\ MigrationSays
    BY DEF KeysInv
<1>2. /\ pc = "reduce" /\ Quiet /\ migration.state = "MIGRATING_KEYS"
      /\ UNCHANGED <<claim, migrating, importing, keyAt, unheard, remarked>>
      /\ pc' \in {"idle", "migrate", "null"}
    BY DEF ReduceGetKeys, Reducing, Becomes, clusterVars, history, Quiet
<1>3. /\ migration \in Migrations /\ migration # NoMigration
      /\ request \notin AsyncRequests /\ request \notin SyncRequests
    BY <1>1, <1>2, Migrating DEF RequestTypes, RequestInv
<1>4. \/ here = {} /\ migration' = [migration EXCEPT !.state = "UNMARK"] /\ UNCHANGED request
      \/ /\ migration' = migration
         /\ request' = request \/ \E k \in here : request' = [state |-> "sync", key |-> k]
      \/ migration' = [migration EXCEPT !.state = "BAIL"] /\ UNCHANGED request
    BY DEF ReduceGetKeys, Becomes
<1>5. \/ here = {} /\ migration'.state = "UNMARK"
      \/ migration'.state \in {"MIGRATING_KEYS", "BAIL"}
    BY <1>2, <1>3, <1>4, SameMigration
<1>6. /\ migration'.slot = migration.slot /\ migration'.source = migration.source
      /\ migration'.destination = migration.destination
    BY <1>3, <1>4, SameMigration
<1>7. here = {} => Emptied
    BY DEF Emptied
<1>8. \/ request' = request
      \/ request' \notin AsyncRequests /\ KeySlot[request'.key] = migration.slot
    BY <1>4 DEF AsyncRequests
<1>. HIDE DEF here
<1>9. (Imported' <=> Imported) /\ (Leaves' <=> Leaves) /\ (Emptied' <=> Emptied)
    BY <1>1, <1>2, <1>6, QuietMigration
<1>10. RequestSays'
    BY <1>3, <1>6, <1>8 DEF RequestSays
<1>11. Clean(migration.slot)' <=> Clean(migration.slot)
    BY <1>2, <1>6 DEF Clean
<1>12. MigrationSays'
    BY <1>1, <1>2, <1>3, <1>5, <1>6, <1>7, <1>9, <1>11 DEF MigrationSays
<1>. QED
    BY <1>10, <1>12

\* A migration that has no request and is not in the middle of anything.
LEMMA SaysNothing ==
    ASSUME request' = request, request \notin AsyncRequests, request \notin SyncRequests,
           pc' # "unmark", migration' = NoMigration \/ migration'.state \in {"WAIT_FOR_GOSSIP", "BAIL"}
    PROVE  RequestSays' /\ MigrationSays'
    BY DEF RequestSays, MigrationSays

LEMMA WaitSays ==
    ASSUME KeysInv, ReduceWaitForGossip \/ ReduceBail
    PROVE  RequestSays' /\ MigrationSays'
<1>1. Types /\ RequestTypes
    BY TypesAre DEF KeysInv
<1>2. /\ pc = "reduce" /\ pc' = "idle" /\ request' = request
      /\ migration.state \in {"WAIT_FOR_GOSSIP", "BAIL"}
    BY DEF ReduceWaitForGossip, ReduceBail, Reducing, Becomes
<1>3. migration \in Migrations
    BY <1>1, <1>2, Migrating
<1>4. request \notin AsyncRequests /\ request \notin SyncRequests
    BY <1>1, <1>2 DEF RequestTypes, RequestInv
<1>5. migration' = NoMigration \/ migration'.state \in {"WAIT_FOR_GOSSIP", "BAIL"}
  <2>1. CASE ReduceBail
      BY <2>1 DEF ReduceBail
  <2>2. CASE ReduceWaitForGossip
    <3>1. \/ migration' = [migration EXCEPT !.state = "BAIL"]
          \/ migration' = [migration EXCEPT !.countdown = migration.countdown - 1]
        BY <2>2 DEF ReduceWaitForGossip, Becomes
    <3>. QED
        BY <1>2, <1>3, <3>1 DEF Migrations
  <2>. QED
      BY <2>1, <2>2
<1>. QED
    BY <1>2, <1>4, <1>5, SaysNothing

LEMMA KeysStep ==
    ASSUME KeysInv, [Next]_vars
    PROVE  SlotsInv' /\ ImportInv' /\ RequestSays' /\ MigrationSays'
<1>. USE TypesAre
<1>1. Types /\ RequestTypes /\ ClusterTypes /\ SlotsInv /\ ImportInv
    BY DEF KeysInv
<1>2. CASE SpawnNode
  <2>1. Quiet /\ migration' = migration /\ request' \in {request, NoRequest}
      BY <1>2 DEF Quiet, SpawnNode, clusterVars, history, setupVars
  <2>. QED
      BY <2>1, QuietKeeps
<1>3. CASE SetupFails
  <2>1. Quiet /\ migration' = migration /\ request' \in {request, NoRequest}
      BY <1>3 DEF Quiet, SetupFails, clusterVars, history, setupVars, Fault
  <2>. QED
      BY <2>1, QuietKeeps
<1>4. CASE MeetAndIdentify
  <2>1. Quiet /\ migration' = migration /\ request' \in {request, NoRequest}
      BY <1>4 DEF Quiet, MeetAndIdentify, clusterVars, history, setupVars, Fault
  <2>. QED
      BY <2>1, QuietKeeps
<1>5. CASE AddSlots
    BY <1>5, AddSlotsKeeps, AddSlotsSays
<1>6. CASE NextNode
  <2>1. Quiet /\ migration' = migration /\ request' \in {request, NoRequest}
      BY <1>6 DEF Quiet, NextNode, clusterVars, history, setupVars
  <2>. QED
      BY <2>1, QuietKeeps
<1>7. CASE Replicate
  <2>1. Quiet /\ migration' = migration /\ request' \in {request, NoRequest}
      BY <1>7 DEF Quiet, Replicate, clusterVars, history, setupVars, Fault
  <2>. QED
      BY <2>1, QuietKeeps
<1>8. CASE SetupReturns
  <2>1. Quiet /\ migration' = migration /\ request' \in {request, NoRequest}
      BY <1>8 DEF Quiet, SetupReturns, clusterVars, history, setupVars
  <2>. QED
      BY <2>1, QuietKeeps
<1>9. CASE Shutdown
  <2>1. Quiet /\ migration' = migration /\ request' \in {request, NoRequest}
      BY <1>9 DEF Quiet, Shutdown, clusterVars, history, setupVars
  <2>. QED
      BY <2>1, QuietKeeps
<1>10. CASE Begins
  <2>1. PICK m \in Migrations : m.state = "MARK_IMPORTING" /\ Begin(m)
      BY <1>10 DEF Begins
  <2>2. Quiet
      BY <1>10, <2>1 DEF Quiet, Begin, clusterVars
  <2>. QED
      BY <1>1, <1>10, <2>1, <2>2, QuietSlots, BeginSays
<1>11. CASE \E s \in MigratedSlots : DrawsForEver(s)
  <2>1. Quiet /\ migration' = migration /\ request' \in {request, NoRequest}
      BY <1>11 DEF Quiet, DrawsForEver, clusterVars, history, setupVars
  <2>. QED
      BY <2>1, QuietKeeps
<1>12. CASE \E connected \in {up, Masters} : Update(connected)
  <2>1. PICK c : Update(c)
      BY <1>12
  <2>2. Quiet
      BY <1>12, <2>1 DEF Quiet, Update, clusterVars
  <2>. QED
      BY <1>1, <1>12, <2>1, <2>2, QuietSlots, UpdateSays
<1>13. CASE ReduceMarkImporting
  <2>1. Quiet
      BY <1>13 DEF Quiet, ReduceMarkImporting, Ask, Reducing, clusterVars
  <2>. QED
      BY <1>1, <1>13, <2>1, QuietSlots, AskSays
<1>14. CASE ReduceMarkMigrating
  <2>1. Quiet
      BY <1>14 DEF Quiet, ReduceMarkMigrating, Ask, Reducing, clusterVars
  <2>. QED
      BY <1>1, <1>14, <2>1, QuietSlots, AskSays
<1>15. CASE ReduceGetKeys
  <2>1. Quiet
      BY <1>15 DEF Quiet, ReduceGetKeys, Becomes, Reducing, clusterVars
  <2>. QED
      BY <1>1, <1>15, <2>1, QuietSlots, GetKeysSays
<1>16. CASE MigrateKey
    BY <1>16, MigrateKeyKeeps, MigrateKeySays
<1>17. CASE ReduceUnmark
    BY <1>17, ReduceUnmarkKeeps, ReduceUnmarkSays
<1>18. CASE UnmarkSource
  <2>1. SlotsInv' /\ ImportInv'
      BY <1>18, UnmarkSourceKeeps
  <2>2. request' = request /\ pc' = "idle"
      BY <1>18 DEF UnmarkSource, Becomes
  <2>3. RequestSays' /\ MigrationSays'
      BY <1>18, <2>2, UnmarkSourceKeeps, SaysNothing
  <2>. QED
      BY <2>1, <2>3
<1>19. CASE ReduceWaiting
  <2>1. Quiet /\ migration' = migration /\ request' \in {request, NoRequest}
      BY <1>19 DEF Quiet, ReduceWaiting, clusterVars, history, setupVars, Reducing
  <2>. QED
      BY <2>1, QuietKeeps
<1>20. CASE ReduceWaitForGossip
  <2>1. Quiet
      BY <1>20 DEF Quiet, ReduceWaitForGossip, Becomes, Reducing, clusterVars
  <2>. QED
      BY <1>1, <1>20, <2>1, QuietSlots, WaitSays
<1>21. CASE ReduceBail
  <2>1. Quiet
      BY <1>21 DEF Quiet, ReduceBail, Becomes, Reducing, clusterVars
  <2>. QED
      BY <1>1, <1>21, <2>1, QuietSlots, WaitSays
<1>22. CASE ServerRuns
    BY <1>22, ServerRunsKeeps
<1>23. CASE \E n \in Masters : Lose(n)
  <2>1. Quiet /\ migration' = migration /\ request' \in {request, NoRequest}
      BY <1>23 DEF Quiet, Lose, clusterVars, history, setupVars, Fault
  <2>. QED
      BY <2>1, QuietKeeps
<1>24. CASE \E n \in Masters : Gossip(n)
    BY <1>24, GossipKeeps
<1>25. CASE \E k \in Keys, n \in Masters : CreateKey(k, n)
    BY <1>25, CreateKeyKeeps
<1>26. CASE UNCHANGED vars
  <2>1. Quiet /\ migration' = migration /\ request' \in {request, NoRequest}
      BY <1>26 DEF Quiet, vars, clusterVars, history, setupVars
  <2>. QED
      BY <2>1, QuietKeeps
<1>. QED
    BY <1>1, <1>2, <1>3, <1>4, <1>5, <1>6, <1>7, <1>8, <1>9, <1>10, <1>11, <1>12, <1>13,
       <1>14, <1>15, <1>16, <1>17, <1>18, <1>19, <1>20, <1>21, <1>22, <1>23, <1>24, <1>25,
       <1>26, Steppings

LEMMA KeysInit == Init => KeysInv
<1>. SUFFICES ASSUME Init PROVE KeysInv
    OBVIOUS
<1>1. Types
    BY TypesInit
<1>2. FreeInv /\ NoneYet /\ ImportInv
    BY DEF Init, FreeInv, NoneYet, ImportInv
<1>3. RequestSays /\ MigrationSays
    BY Norequest DEF Init, RequestSays, MigrationSays
<1>4. ASSUME NEW s \in Slots PROVE SlotInv(s)
  <2>1. /\ \A x \in Masters : view[x][s] = None /\ migrating[x][s] = None
        /\ claim[s] = None /\ \A k \in Keys : keyAt[k] = None
      BY <1>4 DEF Init
  <2>2. PICK rank \in Lines : TRUE
      BY LinedUp
  <2>3. Ahead(s, rank)
      BY <2>1 DEF Ahead
  <2>4. Owned(s)
      BY <2>1, MasterNodes DEF Owned
  <2>5. Marked(s) /\ Kept(s)
      BY <2>1 DEF Marked, Kept
  <2>. QED
      BY <2>2, <2>3, <2>4, <2>5 DEF SlotInv
<1>. QED
    BY <1>1, <1>2, <1>3, <1>4 DEF KeysInv, SlotsInv

LEMMA InvFindsKeys ==
    ASSUME KeysInv
    PROVE  KeysFound
<1>. USE TypesAre
<1>1. Types /\ RequestTypes /\ ClusterTypes /\ SlotsInv /\ ImportInv /\ MigrationSays
    BY DEF KeysInv
<1>2. SUFFICES ASSUME NEW k \in Keys, KeySlot[k] \notin unheard \cup remarked,
                      \A n \in Masters : view[n][KeySlot[k]] # None
               PROVE  /\ Follow(k, 0).runs /\ keyAt[k] \in {None, Follow(k, 0).at}
                      /\ \A n \in Masters : Follow(k, n).runs /\ Follow(k, n).at = Follow(k, 0).at
    BY DEF KeysFound
<1>3. KeySlot[k] \in Slots
    BY SizesAssumption DEF Slots
<1>4. SlotInv(KeySlot[k])
    BY <1>1, <1>2, <1>3 DEF SlotsInv, Clean
<1>5. Told(KeySlot[k]) => keyAt[k] # migration.source
  <2>1. SUFFICES ASSUME Told(KeySlot[k]) PROVE keyAt[k] # migration.source
      OBVIOUS
  <2>2. pc = "unmark" /\ migration.slot = KeySlot[k]
      BY <2>1 DEF Told
  <2>3. migration \in Migrations /\ migration.state = "UNMARK"
      BY <1>1, <2>2 DEF RequestTypes, RequestInv
  <2>4. migration # NoMigration
      BY <2>3 DEF NoMigration
  <2>5. Emptied
      BY <1>1, <1>2, <2>2, <2>3, <2>4 DEF MigrationSays, Clean
  <2>. QED
      BY <2>2, <2>5 DEF Emptied
<1>6. PICK to \in Masters, rank \in Lines : Nearer(k, to, rank) /\ keyAt[k] \in {None, to}
    BY <1>1, <1>2, <1>4, <1>5, OneWay
<1>7. \A n \in Masters : Follow(k, n).runs /\ Follow(k, n).at = to
    BY <1>1, <1>6, Arrives
<1>. QED
    BY <1>6, <1>7, MasterNodes

\* Whatever the cluster, and however the migrations of Update, the requests of clients, the
\* gossip of the nodes and lost connections interleave: whoever asks for a key is sent by
\* MOVED and ASK to one and the same node, however many masters there are, and that is where
\* the key is, unless a SETSLOT failed unnoticed or a half moved slot was moved elsewhere.
THEOREM KeysCorrect == Spec => []KeysFound
<1>1. Init => KeysInv
    BY KeysInit
<1>2. KeysInv /\ [Next]_vars => KeysInv'
  <2>. SUFFICES ASSUME KeysInv, [Next]_vars PROVE KeysInv'
      OBVIOUS
  <2>1. Types /\ FreeInv /\ NoneYet
      BY DEF KeysInv
  <2>2. Types' /\ FreeInv' /\ NoneYet'
      BY <2>1, TypesStep, FreeStep, NoneYetStep
  <2>3. SlotsInv' /\ ImportInv' /\ RequestSays' /\ MigrationSays'
      BY KeysStep
  <2>. QED
      BY <2>2, <2>3 DEF KeysInv
<1>3. KeysInv => KeysFound
    BY InvFindsKeys
<1>. QED
    BY <1>1, <1>2, <1>3, PTL DEF Spec
=============================================================================
