------------------------------ MODULE Cluster ------------------------------
(***************************************************************************)
(* Cluster (yarc_cluster.cpp): a small Redis cluster is set up on the      *)
(* local machine, hash slots are migrated from one master to another while *)
(* a client uses it, and it is shut down again.                            *)
(*                                                                         *)
(* The migration runs inside Cluster::Update.  What interleaves with it is *)
(* the cluster: each node has its own view of who owns a slot, and a       *)
(* client that asks for a key follows MOVED and ASK from node to node.     *)
(* Nodes are numbered as in nodeArray.                                     *)
(***************************************************************************)
EXTENDS Integers, FiniteSets

CONSTANTS
    NumMasters, NumSlavesPerMaster,
    TotalSlots,        \* 16384 in the code
    SlotsPerCommand,   \* 100 in the code
    GossipCountdown,   \* 512 in the code
    Keys, KeySlot,     \* the keys in use, and the slot of each
    None,
    MaxMigrations, MaxFaults   \* bounds

ASSUME SizesAssumption ==
    /\ {NumMasters, NumSlavesPerMaster, SlotsPerCommand, TotalSlots} \subseteq Nat \ {0}
    /\ KeySlot \in [Keys -> 0..TotalSlots - 1]
    /\ {GossipCountdown, MaxMigrations, MaxFaults} \subseteq Nat
    /\ None \notin Nat

Slots      == 0..TotalSlots - 1
NumNodes   == NumMasters + NumSlavesPerMaster * NumMasters
Nodes      == 0..NumNodes - 1
MasterOf(n) == n - (n % (1 + NumSlavesPerMaster))
Masters    == {n \in Nodes : MasterOf(n) = n}

VARIABLES
    pc,          \* where Setup, Update or Shutdown is
    i,           \* the node that Setup has come to
    slot,        \* the next slot that AddSlots assigns
    ids,         \* the nodes whose id CLUSTER NODES has told
    up,          \* the masters whose client has a socket stream
    migration,   \* the one on migrationList, or NoMigration
    request,     \* its asynchronous request, or NoRequest
    \* the cluster: external
    view,        \* who a master believes owns a slot
    claim,       \* who owns it, by the latest epoch
    migrating, importing,   \* the marks on the slots of a master
    keyAt,       \* where a key is, or None
    slaveOf,     \* the master of each node, or None
    \* history
    faults, migrations,
    unheard,     \* slots whose new or old owner has not been told of the change
    remarked     \* slots that a migration has left to one node and a later one to another

clusterVars == <<view, claim, migrating, importing, keyAt, slaveOf>>
history     == <<migrations, unheard, remarked>>
setupVars   == <<i, slot, ids>>
vars == <<pc, setupVars, up, migration, request, clusterVars, faults, history>>

NoMigration == [state |-> "none"]
NoRequest   == [state |-> "none"]

Fault == faults < MaxFaults /\ faults' = faults + 1

----------------------------------------------------------------------------
(* What a node of the cluster does with a command.  External. *)

\* CLUSTER ADDSLOTS: all of them, or none if one is taken.
AddSlotsAt(n, new) ==
    IF \A s \in new : view[n][s] = None
    THEN /\ view' = [view EXCEPT ![n] = [s \in Slots |-> IF s \in new THEN n ELSE view[n][s]]]
         /\ claim' = [s \in Slots |-> IF s \in new THEN n ELSE claim[s]]
    ELSE UNCHANGED <<view, claim>>

CanImport(n, s)     == view[n][s] # n
CanMigrate(n, s)    == view[n][s] = n
Holds(n, s)         == \E k \in Keys : KeySlot[k] = s /\ keyAt[k] = n
CanSetNode(n, s, d) == ~(view[n][s] = n /\ d # n /\ Holds(n, s))

\* CLUSTER SETSLOT s NODE d, at node n: the importing node becomes the owner in
\* a new epoch.
SetNode(n, s, d) ==
    IF CanSetNode(n, s, d)
    THEN /\ view' = [view EXCEPT ![n][s] = d]
         /\ claim' = [claim EXCEPT ![s] = IF n = d /\ importing[n][s] # None THEN d ELSE claim[s]]
         /\ importing' = [importing EXCEPT ![n][s] = IF n = d THEN None ELSE importing[n][s]]
         /\ migrating' = [migrating EXCEPT ![n][s] = IF Holds(n, s) THEN migrating[n][s] ELSE None]
    ELSE UNCHANGED <<view, claim, importing, migrating>>

\* A master hears who owns the slots.  It believes it of those it is not
\* importing, and drops the keys of those it has lost.
Gossip(n) ==
    LET heard == [s \in Slots |-> IF importing[n][s] = None /\ claim[s] # None
                                  THEN claim[s] ELSE view[n][s]]
    IN /\ pc \in {"idle", "migrate", "unmark"} /\ heard # view[n]
       /\ view' = [view EXCEPT ![n] = heard]
       /\ keyAt' = [k \in Keys |->
                      IF keyAt[k] = n /\ view[n][KeySlot[k]] = n /\ heard[KeySlot[k]] # n
                      THEN None ELSE keyAt[k]]
       /\ UNCHANGED <<pc, setupVars, up, migration, request, claim, migrating, importing,
                      slaveOf, faults, history>>

\* What a node answers to a command for key k: it runs it, or sends the client
\* to another node.
Hop(k, h) ==
    LET s == KeySlot[k] IN
    IF view[h.at][s] = h.at
    THEN IF keyAt[k] # h.at /\ migrating[h.at][s] # None
         THEN [at |-> migrating[h.at][s], asking |-> TRUE, runs |-> FALSE]
         ELSE [h EXCEPT !.runs = TRUE]
    ELSE IF importing[h.at][s] # None /\ h.asking THEN [h EXCEPT !.runs = TRUE]
    ELSE IF view[h.at][s] = None THEN h
    ELSE [at |-> view[h.at][s], asking |-> FALSE, runs |-> FALSE]

\* Where a client gets that starts at node n, in as many hops as may be needed.
MaxHops == 2 * NumMasters
Follow(k, n) ==
    LET path[hops \in 0 .. MaxHops] ==
            IF hops = 0 THEN [at |-> n, asking |-> FALSE, runs |-> FALSE]
            ELSE LET h == path[hops - 1] IN IF h.runs THEN h ELSE Hop(k, h)
    IN  path[MaxHops]

\* A client sets a key that is not there.
CreateKey(k, n) ==
    /\ pc = "idle" /\ keyAt[k] = None
    /\ Follow(k, n).runs
    /\ keyAt' = [keyAt EXCEPT ![k] = Follow(k, n).at]
    /\ UNCHANGED <<pc, setupVars, up, migration, request, view, claim, migrating, importing,
                   slaveOf, faults, history>>

----------------------------------------------------------------------------
(* Setup.  The results of its requests are ignored: one that is refused, or  *)
(* lost, has no effect.                                                      *)

Init ==
    /\ pc = "spawn" /\ i = 0 /\ slot = 0 /\ ids = {} /\ up = Masters
    /\ migration = NoMigration /\ request = NoRequest
    /\ view = [n \in Masters |-> [s \in Slots |-> None]]
    /\ claim = [s \in Slots |-> None]
    /\ migrating = view /\ importing = view
    /\ keyAt = [k \in Keys |-> None]
    /\ slaveOf = [n \in Nodes |-> None]
    /\ faults = 0 /\ migrations = 0 /\ unheard = {} /\ remarked = {}

\* STEP 3: one server process and one client for each node.
SpawnNode ==
    /\ pc = "spawn" /\ i < NumNodes
    /\ i' = i + 1
    /\ UNCHANGED <<pc, slot, ids, up, migration, request, clusterVars, faults, history>>

\* A process cannot be started, or all of them can (i = NumNodes) and CLUSTER NODES is not
\* answered: Setup returns false.
SetupFails ==
    /\ pc = "spawn"
    /\ Fault
    /\ pc' = "failed"
    /\ UNCHANGED <<setupVars, up, migration, request, clusterVars, history>>

\* STEPS 4 and 5: each node meets the next one, five seconds are waited, and
\* node 0 is asked for the ids.  It may have heard of its first neighbours only, or answer
\* with an error.
MeetAndIdentify ==
    /\ pc = "spawn" /\ i = NumNodes
    /\ \/ ids' = Nodes /\ UNCHANGED faults
       \/ \E n \in Nodes : ids' = 0..n - 1 /\ Fault
    /\ pc' = "slots" /\ i' = 0 /\ slot' = 0
    /\ UNCHANGED <<up, migration, request, clusterVars, history>>

SlotsPerMaster == TotalSlots \div NumMasters

\* The first slot of node n.
SlotBase(n) == SlotsPerMaster * (n \div (1 + NumSlavesPerMaster))

\* Bug: the range is taken to end before its last slot.
MaxSlot_Excluded(n) == IF n = NumNodes THEN TotalSlots - 1 ELSE SlotBase(n) + SlotsPerMaster - 2

\* The last slot that AddSlots is called with for node n.
MaxSlot(n) == IF n = NumNodes THEN TotalSlots - 1 ELSE SlotBase(n) + SlotsPerMaster - 1

\* STEP 6: the masters get their slots, SlotsPerCommand at a time, and then
\* node 0 gets what is left (i = NumNodes).
AddSlots ==
    LET n   == IF i = NumNodes THEN 0 ELSE i
        new == {s \in Slots : slot <= s /\ s < slot + SlotsPerCommand /\ s <= MaxSlot(i)}
    IN /\ pc = "slots" /\ i <= NumNodes /\ (i = NumNodes \/ i \in Masters)
       /\ slot <= MaxSlot(i)
       /\ slot' = slot + Cardinality(new)
       /\ \/ AddSlotsAt(n, new) /\ UNCHANGED faults
          \/ UNCHANGED <<view, claim>> /\ Fault
       /\ UNCHANGED <<pc, i, ids, up, migration, request, migrating, importing, keyAt, slaveOf,
                      history>>

\* The next node, whose range starts where the code's slotBase stands.
NextNode ==
    /\ pc = "slots" /\ i <= NumNodes
    /\ i \in Nodes \ Masters \/ slot > MaxSlot(i)
    /\ IF i < NumNodes
       THEN /\ i' = i + 1 /\ UNCHANGED pc
            /\ slot' = IF i + 1 = NumNodes THEN SlotsPerMaster * NumMasters
                       ELSE IF i + 1 \in Masters THEN SlotBase(i + 1) ELSE slot
       ELSE /\ i' = 0 /\ pc' = "replicate" /\ UNCHANGED slot
    /\ UNCHANGED <<ids, up, migration, request, clusterVars, faults, history>>

\* STEP 7: each slave gets its master, which it must have heard of.
Replicate ==
    /\ pc = "replicate" /\ i < NumNodes
    /\ i' = i + 1
    /\ \/ /\ i \in Masters \/ MasterOf(i) \notin ids
          /\ UNCHANGED <<slaveOf, faults>>
       \/ /\ i \notin Masters /\ MasterOf(i) \in ids
          /\ slaveOf' = [slaveOf EXCEPT ![i] = MasterOf(i)]
          /\ UNCHANGED faults
       \/ /\ i \notin Masters
          /\ Fault /\ UNCHANGED slaveOf
    /\ UNCHANGED <<pc, slot, ids, up, migration, request, view, claim, migrating, importing,
                   keyAt, history>>

SetupReturns ==
    /\ pc = "replicate" /\ i = NumNodes
    /\ pc' = "idle"
    /\ UNCHANGED <<setupVars, up, migration, request, clusterVars, faults, history>>

\* SHUTDOWN to every node, then the processes are waited for and the clients deleted.
Shutdown ==
    /\ pc = "idle" \/ (pc = "failed" /\ i > 0)
    /\ pc' = "down" /\ i' = 0 /\ request' = NoRequest
    /\ UNCHANGED <<slot, ids, up, migration, clusterVars, faults, history>>

Setup == \/ SpawnNode \/ SetupFails \/ MeetAndIdentify \/ AddSlots \/ NextNode
         \/ Replicate \/ SetupReturns

----------------------------------------------------------------------------
(* The program, as ClusterTestCase is: one migration at a time. *)

\* CLUSTER SLOTS, as node 0 sees it: one entry for each run of slots that one node
\* has, named by its first slot.
Entries ==
    {s \in Slots : view[0][s] # None /\ (s = 0 \/ view[0][s - 1] # view[0][s])}

OwnerOf(entry)   == view[0][entry]
IsEntryOf(e, s)  == e <= s /\ \A t \in e..s : view[0][t] = OwnerOf(e)

Migration(source, destination, s) ==
    [state |-> "MARK_IMPORTING", source |-> source, destination |-> destination,
     slot |-> s, countdown |-> GossipCountdown]

Begin(m) ==
    /\ pc = "idle" /\ migration = NoMigration /\ migrations < MaxMigrations
    /\ migration' = m
    /\ migrations' = migrations + 1
    /\ remarked' = IF migrating[m.source][m.slot] \notin {None, m.destination}
                   THEN remarked \cup {m.slot} ELSE remarked
    /\ UNCHANGED <<pc, setupVars, up, request, clusterVars, faults, unheard>>

\* Two different entries are drawn; a node may have several, and has after Setup.
CreateRandomMigration(s) ==
    \E e, f \in Entries :
        /\ e # f /\ IsEntryOf(e, s)
        /\ {OwnerOf(e), OwnerOf(f)} \subseteq ids
        /\ Begin(Migration(OwnerOf(e), OwnerOf(f), s))

\* The source owns the slot; destinations are drawn until there is another one.
CreateRandomMigrationForHashSlot(s) ==
    \E e, f \in Entries :
        /\ IsEntryOf(e, s) /\ OwnerOf(e) \in ids
        /\ OwnerOf(f) \in ids \ {OwnerOf(e)}
        /\ Begin(Migration(OwnerOf(e), OwnerOf(f), s))

\* There is no other one: the loop does not end.
DrawsForEver(s) ==
    /\ pc = "idle" /\ migration = NoMigration /\ migrations < MaxMigrations
    /\ \E e \in Entries :
          /\ IsEntryOf(e, s) /\ OwnerOf(e) \in ids
          /\ \A f \in Entries : OwnerOf(f) \in ids => OwnerOf(f) = OwnerOf(e)
    /\ pc' = "loops"
    /\ UNCHANGED <<setupVars, up, migration, request, clusterVars, faults, history>>

----------------------------------------------------------------------------
(* Update: first the clients, then the migration. *)

\* Each client sends and serves what it can; a lost connection is made again, or
\* not yet.  The callbacks give the migration its next state.
Update(connected) ==
    /\ pc = "idle" /\ pc' = "reduce"
    /\ up' = connected
    /\ \/ /\ request.state = "unsent" /\ request.at \in connected
          /\ request' = [request EXCEPT !.state = "sent"] /\ UNCHANGED migration
       \/ /\ request.state \in {"ok", "error"}
          /\ request' = NoRequest
          /\ migration' = [migration EXCEPT !.state =
                IF request.state = "error" THEN "BAIL" ELSE request.then]
       \/ /\ ~(request.state = "unsent" /\ request.at \in connected)
          /\ request.state \notin {"ok", "error"}
          /\ UNCHANGED <<request, migration>>
    /\ UNCHANGED <<setupVars, clusterVars, faults, history>>

\* The node runs the request and its response comes, or it refuses it.
ServerRuns ==
    LET n == request.at
        s == migration.slot
    IN /\ request.state = "sent"
       /\ \/ /\ request.command = "IMPORTING" /\ CanImport(n, s)
             /\ importing' = [importing EXCEPT ![n][s] = migration.source]
             /\ request' = [request EXCEPT !.state = "ok"]
             /\ UNCHANGED <<migrating, faults>>
          \/ /\ request.command = "MIGRATING" /\ CanMigrate(n, s)
             /\ migrating' = [migrating EXCEPT ![n][s] = migration.destination]
             /\ request' = [request EXCEPT !.state = "ok"]
             /\ UNCHANGED <<importing, faults>>
          \/ /\ request' = [request EXCEPT !.state = "error"]
             /\ IF (request.command = "IMPORTING" /\ CanImport(n, s))
                   \/ (request.command = "MIGRATING" /\ CanMigrate(n, s))
                THEN Fault ELSE UNCHANGED faults
             /\ UNCHANGED <<importing, migrating>>
       /\ UNCHANGED <<pc, setupVars, up, migration, view, claim, keyAt, slaveOf, history>>

\* The connection to a master is lost, and with it a request that was sent and has not
\* run, or the answer to one that has, unless it has been received.
Lose(n) ==
    /\ pc = "idle" /\ n \in up /\ Fault
    /\ up' = up \ {n}
    /\ \/ request.state \in {"sent", "ok", "error"} /\ request.at = n /\ request' = NoRequest
       \/ ~(request.state = "sent" /\ request.at = n) /\ UNCHANGED request
    /\ UNCHANGED <<pc, setupVars, migration, clusterVars, history>>

----------------------------------------------------------------------------
(* Migration::Reduce, one action per state.  A synchronous request is run, or *)
(* fails: its response does not come in time, and it has run or not.          *)

Reducing(state) == pc = "reduce" /\ migration.state = state

Ask(n, command, then) ==
    /\ request' = [state |-> "unsent", at |-> n, command |-> command, then |-> then]
    /\ migration' = [migration EXCEPT !.state = "WAITING"]
    /\ pc' = "idle"
    /\ UNCHANGED <<setupVars, up, clusterVars, faults, history>>

ReduceMarkImporting ==
    /\ Reducing("MARK_IMPORTING")
    /\ Ask(migration.destination, "IMPORTING", "MARK_MIGRATING")

ReduceMarkMigrating ==
    /\ Reducing("MARK_MIGRATING")
    /\ Ask(migration.source, "MIGRATING", "MIGRATING_KEYS")

Becomes(state) ==
    /\ migration' = [migration EXCEPT !.state = state]
    /\ pc' = "idle"

\* The first request: one key of the slot.
ReduceGetKeys ==
    LET here == {k \in Keys : KeySlot[k] = migration.slot /\ keyAt[k] = migration.source}
    IN /\ Reducing("MIGRATING_KEYS")
       /\ \/ here = {} /\ Becomes("UNMARK") /\ UNCHANGED <<request, faults>>
          \/ /\ here # {} /\ UNCHANGED <<migration, faults>>
             \* GetSocketStream() is null while there is no connection.
             /\ IF migration.destination \in up
                THEN pc' = "migrate" /\ \E k \in here : request' = [state |-> "sync", key |-> k]
                ELSE pc' = "null" /\ UNCHANGED request
          \/ Becomes("BAIL") /\ Fault /\ UNCHANGED request
          \* An error in answer: the same again in the next Update.
          \/ pc' = "idle" /\ Fault /\ UNCHANGED <<migration, request>>
       /\ UNCHANGED <<setupVars, up, clusterVars, history>>

\* The second one: that key is moved, if the destination lets it in.
MigrateKey ==
    LET m   == migration
        can == view[m.destination][m.slot] = m.destination
               \/ importing[m.destination][m.slot] # None
    IN /\ pc = "migrate"
       /\ request' = NoRequest
       /\ \/ can /\ keyAt' = [keyAt EXCEPT ![request.key] = m.destination]
             /\ pc' = "idle" /\ UNCHANGED <<migration, faults>>
          \/ /\ Becomes("BAIL")
             /\ IF can THEN Fault ELSE UNCHANGED faults
             /\ \/ UNCHANGED keyAt
                \/ can /\ keyAt' = [keyAt EXCEPT ![request.key] = m.destination]
       /\ UNCHANGED <<setupVars, up, view, claim, migrating, importing, slaveOf, history>>

\* Bug: the source is told first.
ReduceUnmark_SourceFirst ==
    /\ Reducing("UNMARK")
    /\ SetNode(migration.source, migration.slot, migration.destination)
    /\ pc' = "unmark"
    /\ UNCHANGED <<setupVars, up, migration, request, keyAt, slaveOf, faults, history>>

\* The destination is told that it owns the slot now.
ReduceUnmark ==
    /\ Reducing("UNMARK")
    /\ pc' = "unmark"
    /\ \/ SetNode(migration.destination, migration.slot, migration.destination)
          /\ UNCHANGED <<faults, unheard>>
       \/ Fault /\ unheard' = unheard \cup {migration.slot}
          /\ UNCHANGED <<view, claim, migrating, importing>>
    /\ UNCHANGED <<setupVars, up, migration, request, keyAt, slaveOf, migrations, remarked>>

\* And the source.  Neither result is looked at.
UnmarkSource ==
    /\ pc = "unmark" /\ Becomes("WAIT_FOR_GOSSIP")
    /\ \/ SetNode(migration.source, migration.slot, migration.destination)
          /\ UNCHANGED <<faults, unheard>>
       \/ Fault /\ unheard' = unheard \cup {migration.slot}
          /\ UNCHANGED <<view, claim, migrating, importing>>
    /\ UNCHANGED <<setupVars, up, request, keyAt, slaveOf, migrations, remarked>>

ReduceWaiting ==
    /\ Reducing("WAITING") \/ Reducing("none")
    /\ pc' = "idle"
    /\ UNCHANGED <<setupVars, up, migration, request, clusterVars, faults, history>>

\* Bug: the countdown is not tested.
ReduceWaitForGossip_Untested ==
    /\ Reducing("WAIT_FOR_GOSSIP")
    /\ migration' = [migration EXCEPT !.countdown = migration.countdown - 1]
    /\ pc' = "idle"
    /\ UNCHANGED <<setupVars, up, request, clusterVars, faults, history>>

ReduceWaitForGossip ==
    /\ Reducing("WAIT_FOR_GOSSIP")
    /\ IF migration.countdown = 0 THEN Becomes("BAIL")
       ELSE /\ migration' = [migration EXCEPT !.countdown = migration.countdown - 1]
            /\ pc' = "idle"
    /\ UNCHANGED <<setupVars, up, request, clusterVars, faults, history>>

\* Bug: the result is left at RESULT_NONE.
ReduceBail_None ==
    /\ Reducing("BAIL")
    /\ pc' = "idle"
    /\ UNCHANGED <<setupVars, up, migration, request, clusterVars, faults, history>>

ReduceBail ==
    /\ Reducing("BAIL")
    /\ migration' = NoMigration
    /\ pc' = "idle"
    /\ UNCHANGED <<setupVars, up, request, clusterVars, faults, history>>

Reduce ==
    \/ ReduceMarkImporting \/ ReduceMarkMigrating \/ ReduceGetKeys \/ MigrateKey
    \/ ReduceUnmark \/ UnmarkSource \/ ReduceWaiting \/ ReduceWaitForGossip \/ ReduceBail

MigratedSlots == {KeySlot[k] : k \in Keys}

Next ==
    \/ Setup
    \/ Shutdown
    \/ \E s \in MigratedSlots : CreateRandomMigration(s)
    \/ \E s \in MigratedSlots : CreateRandomMigrationForHashSlot(s)
    \/ \E s \in MigratedSlots : DrawsForEver(s)
    \/ \E connected \in {up, Masters} : Update(connected)
    \/ Reduce
    \/ ServerRuns
    \/ \E n \in Masters : Lose(n)
    \/ \E n \in Masters : Gossip(n)
    \/ \E k \in Keys, n \in Masters : CreateKey(k, n)

Spec == Init /\ [][Next]_vars

\* The program calls Update again and again, the nodes answer, and of infinitely
\* many attempts to connect one succeeds.
FairSpec ==
    /\ Spec
    /\ WF_vars(\E connected \in {up, Masters} : Update(connected))
    /\ SF_vars(Update(Masters))
    /\ WF_vars(Reduce)
    /\ WF_vars(ServerRuns)

----------------------------------------------------------------------------
(* Properties *)

\* The types of the variables.
TypeOK ==
    /\ pc \in {"spawn", "failed", "slots", "replicate", "idle", "reduce", "migrate", "unmark",
              "null", "loops", "down"}
    /\ i \in 0..NumNodes + 1 /\ slot \in 0..TotalSlots /\ ids \subseteq Nodes
    /\ up \subseteq Masters
    /\ migration # NoMigration =>
          /\ {migration.source, migration.destination} \subseteq Masters
          /\ migration.slot \in Slots /\ migration.countdown \in 0..GossipCountdown
    /\ view \in [Masters -> [Slots -> Masters \cup {None}]]
    /\ claim \in [Slots -> Masters \cup {None}]
    /\ {migrating, importing} \subseteq [Masters -> [Slots -> Masters \cup {None}]]
    /\ keyAt \in [Keys -> Masters \cup {None}]
    /\ slaveOf \in [Nodes -> Masters \cup {None}]
    /\ faults <= MaxFaults /\ migrations <= MaxMigrations
    /\ unheard \cup remarked \subseteq Slots

\* When Setup has returned true and nothing went wrong, every slot has an owner
\* and every slave its master; migrations leave it so.
SetupComplete ==
    pc \notin {"spawn", "slots", "replicate", "failed"} /\ faults = 0 =>
        /\ \A s \in Slots : claim[s] # None
        /\ \A n \in Nodes : slaveOf[n] = IF n \in Masters THEN None ELSE MasterOf(n)

\* While slots are migrated, redirections do not run in circles or lead to
\* different nodes: whoever asks for a key, wherever he starts, gets to the same
\* node, and that is where the key is.  Not so once a node was not told that a slot
\* has changed hands (its SETSLOT failed, and the result is ignored), or a slot was
\* left half moved to one node and then moved to another.
KeysFound ==
    \A k \in Keys :
        KeySlot[k] \notin unheard \cup remarked /\ (\A n \in Masters : view[n][KeySlot[k]] # None) =>
            LET home == Follow(k, 0)
            IN /\ home.runs /\ keyAt[k] \in {None, home.at}
               /\ \A n \in Masters : LET h == Follow(k, n) IN h.runs /\ h.at = home.at

\* A migration comes to its end, and with it the wait for the next one, unless
\* a request was lost with its connection, or the program crashes or loops.
MigrationEnds ==
    [](migration # NoMigration =>
         <>(\/ migration = NoMigration
            \/ migration.state = "WAITING" /\ request = NoRequest
            \/ pc \in {"null", "down"}))
=============================================================================
