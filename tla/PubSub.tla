------------------------------- MODULE PubSub -------------------------------
(***************************************************************************)
(* PubSub (yarc_pubsub.cpp): a map of subscriptions, an input client that  *)
(* subscribes and is sent the messages, and an output client that          *)
(* publishes.  A SimpleClient is looked at from here: one Update is one    *)
(* step, next to its reader and the server, and what SimpleClient shows of *)
(* it is relied on (requests are sent in order, what was sent is purged    *)
(* with its connection, what was not is kept).                             *)
(***************************************************************************)
EXTENDS Integers, Sequences, FiniteSets, SequencesExt

CONSTANTS
    Channels,
    MaxCalls, MaxPublishes, MaxLosses    \* bounds

ASSUME ChannelsAssumption == IsFiniteSet(Channels)

Clients == {"input", "output"}

VARIABLES
    pc,          \* idle, in Update before the "input" or the "output" client's, or in the
                 \* synchronous request of Unsubscribe ("sync")
    subscribed,  \* subscriptionMap: the flag of each channel: yes or no, or absent
    unsent, sent,    \* of each client
    link,        \* none, up, closed by the server, or broken (to be noticed)
    answered,    \* the response to the synchronous request is in the served list
    messageList, \* of the input client
    \* the network and the server: external
    wire, back,  \* of each client: commands under way, and what is sent back
    server,      \* the channels that the input connection is subscribed to
    \* history and bounds
    delivered,   \* the messages that callbacks were called with
    withdrawn,   \* the channels whose UNSUBSCRIBE was cancelled before it was sent
    calls, published, losses

clientVars == <<unsent, sent, link, answered, messageList>>
serverVars == <<wire, back, server>>
history    == <<delivered, withdrawn, calls, published, losses>>
vars == <<pc, subscribed, clientVars, serverVars, history>>

\* sync: the callback is that of a synchronous request.
Command(op, channel, id, sync) == [op |-> op, channel |-> channel, id |-> id, sync |-> sync]
Reply           == [op |-> "reply", channel |-> "none", id |-> 0]
Message(cmd)    == [op |-> "message", channel |-> cmd.channel, id |-> cmd.id]

InMap(c) == subscribed[c] # "absent"

Init ==
    /\ pc = "idle"
    /\ subscribed = [c \in Channels |-> "absent"]
    /\ unsent = [x \in Clients |-> <<>>] /\ sent = unsent
    /\ link = [x \in Clients |-> "none"]
    /\ answered = FALSE /\ messageList = <<>>
    /\ wire = unsent /\ back = unsent /\ server = {}
    /\ delivered = <<>> /\ withdrawn = {}
    /\ calls = 0 /\ published = 0 /\ losses = 0

----------------------------------------------------------------------------
(* The program's calls *)

\* A channel that is there already starts anew.
Subscribe(c) ==
    /\ pc = "idle" /\ calls < MaxCalls
    /\ subscribed' = [subscribed EXCEPT ![c] = "no"]
    /\ withdrawn' = withdrawn \ {c}
    /\ calls' = calls + 1
    /\ UNCHANGED <<pc, clientVars, serverVars, delivered, published, losses>>

\* Bug: nothing is sent for a channel that does not count as subscribed.
Unsubscribe_IfSubscribed(c) ==
    /\ pc = "idle" /\ calls < MaxCalls /\ InMap(c)
    /\ subscribed' = [subscribed EXCEPT ![c] = "absent"]
    /\ calls' = calls + 1
    /\ IF subscribed[c] = "yes"
       THEN /\ unsent' = [unsent EXCEPT !["input"] = Append(@, Command("UNSUBSCRIBE", c, 0, TRUE))]
            /\ pc' = "sync"
       ELSE UNCHANGED <<unsent, pc>>
    /\ UNCHANGED <<sent, link, answered, messageList, serverVars, delivered, withdrawn,
                   published, losses>>

\* The channel is erased, and UNSUBSCRIBE is a synchronous request.
Unsubscribe(c) ==
    /\ pc = "idle" /\ calls < MaxCalls /\ InMap(c)
    /\ subscribed' = [subscribed EXCEPT ![c] = "absent"]
    /\ unsent' = [unsent EXCEPT !["input"] = Append(@, Command("UNSUBSCRIBE", c, 0, TRUE))]
    /\ pc' = "sync"
    /\ calls' = calls + 1
    /\ UNCHANGED <<sent, link, answered, messageList, serverVars, delivered, withdrawn,
                   published, losses>>

Publish(c) ==
    /\ pc = "idle" /\ published < MaxPublishes
    /\ published' = published + 1
    /\ unsent' = [unsent EXCEPT !["output"] = Append(@, Command("PUBLISH", c, published', FALSE))]
    /\ UNCHANGED <<pc, subscribed, sent, link, answered, messageList, serverVars, delivered,
                   withdrawn, calls, losses>>

\* The channels that are not subscribed are, once SUBSCRIBE is queued.
Update ==
    /\ pc = "idle"
    /\ LET new == SetToSeq({c \in Channels : subscribed[c] = "no"})
       IN  unsent' = [unsent EXCEPT !["input"] =
                         @ \o [i \in DOMAIN new |-> Command("SUBSCRIBE", new[i], 0, FALSE)]]
    /\ subscribed' = [c \in Channels |-> IF InMap(c) THEN "yes" ELSE "absent"]
    /\ pc' = "input"
    /\ UNCHANGED <<sent, link, answered, messageList, serverVars, history>>

----------------------------------------------------------------------------
(* SimpleClient::Update *)

\* Bug: the channels go on counting as subscribed.
Resubscribe_KeepsFlags == subscribed

\* postConnectCallback of the input client
Resubscribe == [c \in Channels |-> IF InMap(c) THEN "no" ELSE "absent"]

\* Where the main thread goes after an Update: MakeRequestSync calls the next one
\* until its callback was called.
After(called) ==
    CASE pc = "sync"  -> IF called THEN "idle" ELSE "sync"
      [] pc = "input" -> "output"
      [] OTHER        -> "idle"

Turn(x) == pc = x \/ (pc = "sync" /\ x = "input")

ConnectFails(x) ==
    /\ Turn(x) /\ link[x] = "none"
    /\ pc' = After(FALSE)
    /\ UNCHANGED <<subscribed, clientVars, serverVars, history>>

\* Bug: what was sent is sent again on the next connection.
LoseConnection_Resends(x) ==
    /\ Turn(x) /\ link[x] = "broken"
    /\ link' = [link EXCEPT ![x] = "none"]
    /\ unsent' = [unsent EXCEPT ![x] = sent[x] \o @]
    /\ sent' = [sent EXCEPT ![x] = <<>>]
    /\ pc' = After(FALSE)
    /\ UNCHANGED <<subscribed, answered, messageList, serverVars, history>>

\* The lost connection is noticed, and what was sent purged.
LoseConnection(x) ==
    /\ Turn(x) /\ link[x] = "broken"
    /\ link' = [link EXCEPT ![x] = "none"]
    /\ sent' = [sent EXCEPT ![x] = <<>>]
    /\ pc' = After(FALSE)
    /\ UNCHANGED <<subscribed, unsent, answered, messageList, serverVars, history>>

\* DispatchPubSubMessage: a message for a channel that is not in the map is dropped.
\* (A PushData is, too: only the older format is looked at.)
Dispatch(messages) ==
    LET after[n \in 0 .. Len(messages)] ==
            IF n = 0 THEN <<>>
            ELSE IF InMap(messages[n].channel) THEN Append(after[n - 1], messages[n])
            ELSE after[n - 1]
    IN  after[Len(messages)]

\* Those of requests are first.
Callbacks(x) ==
    IF x = "input"
    THEN /\ answered' = FALSE
         /\ delivered' = delivered \o Dispatch(messageList)
         /\ messageList' = <<>>
    ELSE UNCHANGED <<answered, delivered, messageList>>

\* The client connects if it has to; the requests are sent; callbacks are called.
ClientUpdate(x) ==
    /\ Turn(x) /\ link[x] \in {"none", "up"}
    /\ link' = [link EXCEPT ![x] = "up"]
    /\ subscribed' = IF link[x] = "none" /\ x = "input" THEN Resubscribe ELSE subscribed
    /\ sent' = [sent EXCEPT ![x] = @ \o unsent[x]]
    /\ wire' = [wire EXCEPT ![x] = @ \o unsent[x]]
    /\ unsent' = [unsent EXCEPT ![x] = <<>>]
    /\ Callbacks(x)
    /\ pc' = After(answered)
    /\ UNCHANGED <<back, server, withdrawn, calls, published, losses>>

\* On a connection that the server closed, recv gives 0 bytes, which is no error: only
\* what the client writes has it reset, and lost with what was not read.
ClosedUpdate(x) ==
    /\ Turn(x) /\ link[x] = "closed"
    /\ sent' = [sent EXCEPT ![x] = @ \o unsent[x]]
    /\ unsent' = [unsent EXCEPT ![x] = <<>>]
    /\ IF unsent[x] = <<>> THEN UNCHANGED <<link, back>>
       ELSE /\ link' = [link EXCEPT ![x] = "broken"]
            /\ back' = [back EXCEPT ![x] = <<>>]
    /\ Callbacks(x)
    /\ pc' = After(answered)
    /\ UNCHANGED <<subscribed, wire, server, withdrawn, calls, published, losses>>

\* The end of MakeRequestSync when there was no answer: CancelAsyncRequest withdraws the
\* request, or silences it if it was sent.
TimesOut ==
    /\ pc = "sync"
    /\ LET waiting == {i \in DOMAIN unsent["input"] : unsent["input"][i].sync}
       IN  \/ \E i \in waiting :
                 /\ unsent' = [unsent EXCEPT !["input"] = RemoveAt(@, i)]
                 /\ withdrawn' = withdrawn \union {unsent["input"][i].channel}
                 /\ UNCHANGED sent
           \/ /\ waiting = {}
              /\ sent' = [sent EXCEPT !["input"] =
                             [i \in DOMAIN @ |-> [@[i] EXCEPT !.sync = FALSE]]]
              /\ UNCHANGED <<unsent, withdrawn>>
    /\ answered' = FALSE
    /\ pc' = "idle"
    /\ UNCHANGED <<subscribed, link, messageList, serverVars, delivered, calls, published, losses>>

\* The reception thread: a message goes to the message list, anything else is the
\* response to the oldest request that was sent.
Read(x) ==
    /\ link[x] \in {"up", "closed"} /\ back[x] # <<>>
    /\ back' = [back EXCEPT ![x] = Tail(@)]
    /\ IF Head(back[x]).op = "message"
       THEN /\ messageList' = Append(messageList, Head(back[x]))
            /\ UNCHANGED <<sent, answered>>
       ELSE /\ answered' = (answered \/ Head(sent[x]).sync)
            /\ sent' = [sent EXCEPT ![x] = Tail(@)]
            /\ UNCHANGED messageList
    /\ UNCHANGED <<pc, subscribed, unsent, link, wire, server, history>>

----------------------------------------------------------------------------
(* The server and the network.  External. *)

Serve(x) ==
    /\ link[x] = "up" /\ wire[x] # <<>>
    /\ LET cmd  == Head(wire[x])
           push == IF cmd.op = "PUBLISH" /\ cmd.channel \in server THEN <<Message(cmd)>> ELSE <<>>
       IN  /\ server' = CASE cmd.op = "SUBSCRIBE"   -> server \union {cmd.channel}
                          [] cmd.op = "UNSUBSCRIBE" -> server \ {cmd.channel}
                          [] OTHER                  -> server
           /\ back' = [y \in Clients |-> back[y] \o (IF y = "input" THEN push ELSE <<>>)
                                                 \o (IF y = x THEN <<Reply>> ELSE <<>>)]
    /\ wire' = [wire EXCEPT ![x] = Tail(@)]
    /\ UNCHANGED <<pc, subscribed, clientVars, history>>

\* The server closes a connection, with everything answered.  (Commands it had not read
\* would have the connection reset, as in Lose.)
ServerCloses(x) ==
    /\ link[x] = "up" /\ wire[x] = <<>> /\ losses < MaxLosses
    /\ link' = [link EXCEPT ![x] = "closed"]
    /\ server' = IF x = "input" THEN {} ELSE server
    /\ losses' = losses + 1
    /\ UNCHANGED <<pc, subscribed, unsent, sent, answered, messageList, wire, back, delivered,
                   withdrawn, calls, published>>

\* A connection breaks; what was under way is lost.
Lose(x) ==
    /\ link[x] = "up" /\ losses < MaxLosses
    /\ link' = [link EXCEPT ![x] = "broken"]
    /\ wire' = [wire EXCEPT ![x] = <<>>] /\ back' = [back EXCEPT ![x] = <<>>]
    /\ server' = IF x = "input" THEN {} ELSE server
    /\ losses' = losses + 1
    /\ UNCHANGED <<pc, subscribed, unsent, sent, answered, messageList, delivered, withdrawn,
                   calls, published>>

Next ==
    \/ \E c \in Channels : Subscribe(c) \/ Unsubscribe(c) \/ Publish(c)
    \/ Update
    \/ TimesOut
    \/ \E x \in Clients :
          \/ ConnectFails(x) \/ LoseConnection(x) \/ ClientUpdate(x) \/ ClosedUpdate(x)
          \/ Read(x) \/ Serve(x) \/ ServerCloses(x) \/ Lose(x)

\* The program calls Update for ever, a server that can be reached is in the end, and
\* the threads and the server run.  UNSUBSCRIBE is given up after five seconds.
Fairness ==
    /\ WF_vars(Update)
    /\ WF_vars(TimesOut)
    /\ \A x \in Clients :
          /\ WF_vars(ConnectFails(x) \/ ClientUpdate(x) \/ ClosedUpdate(x) \/ LoseConnection(x))
          /\ SF_vars(ClientUpdate(x))
          /\ WF_vars(Read(x)) /\ WF_vars(Serve(x))

FairSpec == Init /\ [][Next]_vars /\ Fairness

----------------------------------------------------------------------------
(* Properties *)

\* Whether the server will hold c once it has executed the commands on their way to it: the
\* last of them for c is SUBSCRIBE, or there is none and it holds c.
WillBe(c) ==
    LET coming == wire["input"] \o unsent["input"]
    IN  \E i \in 0 .. Len(coming) :
            /\ IF i = 0 THEN c \in server
               ELSE coming[i].channel = c /\ coming[i].op = "SUBSCRIBE"
            /\ \A j \in i + 1 .. Len(coming) : coming[j].channel # c

\* The map and the server agree, up to the commands on their way: the server will have
\* the channels that count as subscribed, and will not have those that are not in the
\* map, save one whose UNSUBSCRIBE was cancelled before it was sent.  (Subscribe,
\* Unsubscribe, Update and Resubscribe across lost connections.)
MapAgreesWithServer ==
    link["input"] # "broken" =>
        \A c \in Channels :
            /\ subscribed[c] = "yes" /\ link["input"] = "up" => WillBe(c)
            /\ ~InMap(c) /\ c \notin withdrawn => ~WillBe(c)

\* Callbacks are called in the order of Publish, and never twice for one message.
DeliveredInOrder ==
    \A i, j \in DOMAIN delivered : i < j => delivered[i].id < delivered[j].id

\* A channel that stays in the map is subscribed in the end, and stays so, whatever
\* connections were lost before, unless the input client sits on a connection that the
\* server closed: it has nothing more to write, so it never notices.  (Resubscribe; a
\* recv of 0 bytes in SocketStream.)
SubscribedAtLast ==
    \A c \in Channels :
        <>[]InMap(c) => <>[](c \in server) \/ <>[](link["input"] = "closed")
=============================================================================
