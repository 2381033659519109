---------------------------- MODULE AgentSessions ----------------------------
(***************************************************************************)
(* The Agents of one Edge Router (edgerouter/edgerouter.go): how           *)
(* connections become sessions of Agents, how Agents subscribe, and how    *)
(* messages find them.                                                     *)
(*                                                                         *)
(* Each connection is served by a handler of its own. The handlers share   *)
(* the maps agents (reconnect token to Agent, agentsMu), mrnToAgent (MRN   *)
(* to Agent, mrnToAgentMu), subscriptions (subMu) and the outgoing channel *)
(* with each other, with the reader of the router's messages and with the  *)
(* garbage collector. The fields of an Agent have no lock, and an Agent    *)
(* that reconnects before its old connection is found dead is served by    *)
(* two handlers.                                                           *)
(*                                                                         *)
(* The Agent that connection c creates and the reconnect token that it     *)
(* draws are both called c. The queue of an Agent is the mailbox that      *)
(* Consumer.tla implements, so putting a message in is one step.           *)
(***************************************************************************)
EXTENDS Naturals, FiniteSets, Functions

CONSTANTS
    Conns,          \* the websocket connections
    Mrns,           \* the MRNs of authenticated Agents
    NoMrn,          \* the MRN of an anonymous Agent
    Subjects,       \* the subjects one can subscribe to
    Msgs,           \* application messages, each sent once
    Recipients,     \* the recipients of each message, {} if it has a subject
    Subject,        \* its subject (of no meaning if it has recipients)
    ChannelBufSize, \* the capacity of the outgoing channel
    None            \* nil, an absent map entry, an empty token

ASSUME SessionsAssumption ==
    /\ None \notin Conns /\ None \notin Mrns \cup {NoMrn} /\ NoMrn \notin Mrns
    /\ Subjects \cap Mrns = {} /\ None \notin Msgs
    /\ Recipients \in [Msgs -> SUBSET Mrns]
    /\ Subject \in [Msgs -> Subjects]
    /\ ChannelBufSize \in Nat \ {0}

VARIABLES
    pc,          \* per connection: where its handler is
    asks,        \* per connection: the token its Connect carries
    agentOf,     \* per connection: the handler's Agent
    work,        \* per connection: the subject or message being handled
    answered,    \* per connection: the token its client was answered with
    mrn,         \* per Agent: Mrn
    token,       \* per Agent: ReconnectToken
    direct,      \* per Agent: directMessages
    queue,       \* per Agent: its mailbox
    agents,      \* reconnect token to Agent
    mrnToAgent,  \* MRN to Agent
    subs,        \* subject to subscribers
    known,       \* the subjects that are keys of subscriptions
    subMu,       \* the connection that holds subMu across a step, or None
    out,         \* the number of messages in the outgoing channel
    asked,       \* per subject and MRN: the last request put on the channel
    incoming,    \* the message that handleIncomingMessages fans out
    source,      \* per message: its sender's MRN, NoMrn if the router sent it
    expired,     \* messages whose time has passed
    left,        \* history: Agents that have disconnected
    everSub      \* history: per Agent, the subjects it ever subscribed to

conns    == <<pc, asks, agentOf, work, answered>>
agent    == <<mrn, token, direct>>
registry == <<agents, mrnToAgent>>
topics   == <<subs, known, subMu, everSub>>
channel  == <<out, asked>>
traffic  == <<queue, incoming, source, expired>>
vars     == <<conns, agent, registry, topics, channel, traffic, left>>

Idle == [msg |-> None, to |-> {}]

HandlerStates ==
    {"off", "lookup", "register", "mint", "store", "respond", "open", "subscribe",
     "setDirect", "clearDirect", "fanOut", "bye", "forget", "gone"}

TypeOK ==
    /\ pc \in [Conns -> HandlerStates]
    /\ asks \in [Conns -> Conns \cup {None}]
    /\ agentOf \in [Conns -> Conns \cup {None}]
    /\ work \in [Conns -> Subjects \cup Msgs \cup {None}]
    /\ answered \in [Conns -> Conns \cup {None}]
    /\ mrn \in [Conns -> Mrns \cup {NoMrn}]
    /\ token \in [Conns -> Conns \cup {None}]
    /\ direct \in [Conns -> BOOLEAN]
    /\ queue \in [Conns -> SUBSET Msgs]
    /\ agents \in [Conns -> Conns \cup {None}]
    /\ mrnToAgent \in [Mrns -> Conns \cup {None}]
    /\ subs \in [Subjects -> SUBSET Conns]
    /\ known \subseteq Subjects
    /\ subMu \in Conns \cup {None}
    /\ out \in 0..ChannelBufSize
    /\ asked \in [Subjects \cup Mrns -> {"never", "subscribe", "unsubscribe"}]
    /\ incoming \in [msg : Msgs \cup {None}, to : SUBSET Conns]
    /\ source \in [Msgs -> Mrns \cup {NoMrn, None}]
    /\ expired \subseteq Msgs
    /\ left \subseteq Conns
    /\ everSub \in [Conns -> SUBSET Subjects]

Init ==
    /\ pc = [c \in Conns |-> "off"]
    /\ asks = [c \in Conns |-> None]
    /\ agentOf = [c \in Conns |-> None]
    /\ work = [c \in Conns |-> None]
    /\ answered = [c \in Conns |-> None]
    /\ mrn = [c \in Conns |-> NoMrn]
    /\ token = [c \in Conns |-> None]
    /\ direct = [c \in Conns |-> FALSE]
    /\ queue = [c \in Conns |-> {}]
    /\ agents = [c \in Conns |-> None]
    /\ mrnToAgent = [m \in Mrns |-> None]
    /\ subs = [s \in Subjects |-> {}]
    /\ known = {} /\ subMu = None
    /\ out = 0
    /\ asked = [x \in Subjects \cup Mrns |-> "never"]
    /\ incoming = Idle
    /\ source = [x \in Msgs |-> None] /\ expired = {}
    /\ left = {}
    /\ everSub = [c \in Conns |-> {}]

Goto(c, place) == pc' = [pc EXCEPT ![c] = place]
Self(c) == agentOf[c]
-----------------------------------------------------------------------------
(* Connecting. *)

(* The first message is no Connect, or authentication fails. *)
Refuse(c) ==
    /\ pc[c] = "off"
    /\ Goto(c, "gone")
    /\ UNCHANGED <<asks, agentOf, work, answered, agent, registry, topics, channel, traffic, left>>

(* A client connects with the MRN m, afresh or with a token that it was    *)
(* answered with on an earlier connection d under this MRN.                *)
Connect(c, m, t) ==
    /\ pc[c] = "off"
    /\ t = None \/ \E d \in Conns : answered[d] = t /\ mrn[d] = m
    /\ mrn' = [mrn EXCEPT ![c] = m]
    /\ asks' = [asks EXCEPT ![c] = t]
    /\ Goto(c, "lookup")
    /\ UNCHANGED <<agentOf, work, answered, token, direct, registry, topics, channel, traffic, left>>

(* Faulty variant: a token is good for one reconnection only. *)
LookupOnce(c) ==
    LET saved == IF asks[c] = None THEN None ELSE agents[asks[c]] IN
    /\ pc[c] = "lookup"
    /\ \/ /\ saved # None
          /\ agentOf' = [agentOf EXCEPT ![c] = saved]
          /\ agents' = [agents EXCEPT ![asks[c]] = None]
          /\ Goto(c, "mint")
       \/ /\ saved = None
          /\ agentOf' = [agentOf EXCEPT ![c] = c]
          /\ Goto(c, IF mrn[c] # NoMrn THEN "register" ELSE "mint")
          /\ UNCHANGED agents
    /\ UNCHANGED <<asks, work, answered, agent, mrnToAgent, topics, channel, traffic, left>>

(* The Agent is the one the token stands for, or a new one, which is       *)
(* entered in mrnToAgent if it has an MRN. A saved Agent is not.           *)
Lookup(c) ==
    LET saved == IF asks[c] = None THEN None ELSE agents[asks[c]] IN
    /\ pc[c] = "lookup"
    /\ \/ /\ saved # None
          /\ agentOf' = [agentOf EXCEPT ![c] = saved]
          /\ Goto(c, "mint")
       \/ /\ saved = None
          /\ agentOf' = [agentOf EXCEPT ![c] = c]
          /\ Goto(c, IF mrn[c] # NoMrn THEN "register" ELSE "mint")
    /\ UNCHANGED <<asks, work, answered, agent, registry, topics, channel, traffic, left>>

Register(c) ==
    /\ pc[c] = "register"
    /\ mrnToAgent' = [mrnToAgent EXCEPT ![mrn[c]] = c]
    /\ Goto(c, "mint")
    /\ UNCHANGED <<asks, agentOf, work, answered, agent, agents, topics, channel, traffic, left>>

MintToken(c) ==
    /\ pc[c] = "mint"
    /\ token' = [token EXCEPT ![Self(c)] = c]
    /\ Goto(c, "store")
    /\ UNCHANGED <<asks, agentOf, work, answered, mrn, direct, registry, topics, channel, traffic, left>>

(* The token is read again, another handler of the Agent may have changed  *)
(* it.                                                                     *)
StoreToken(c) ==
    /\ pc[c] = "store"
    /\ agents' = [agents EXCEPT ![token[Self(c)]] = Self(c)]
    /\ Goto(c, "respond")
    /\ UNCHANGED <<asks, agentOf, work, answered, agent, mrnToAgent, topics, channel, traffic, left>>

(* The response holds a pointer to the Agent's token, which is read when   *)
(* the response is written.                                                *)
RespondOk(c) ==
    /\ pc[c] = "respond"
    /\ answered' = [answered EXCEPT ![c] = token[Self(c)]]
    /\ Goto(c, "open")
    /\ UNCHANGED <<asks, agentOf, work, agent, registry, topics, channel, traffic, left>>

RespondFail(c) ==
    /\ pc[c] = "respond"
    /\ Goto(c, "gone")
    /\ UNCHANGED <<asks, agentOf, work, answered, agent, registry, topics, channel, traffic, left>>

(* The connection is lost or sends what cannot be parsed. The Agent stays. *)
HandlerExit(c) ==
    /\ pc[c] = "open"
    /\ Goto(c, "gone")
    /\ UNCHANGED <<asks, agentOf, work, answered, agent, registry, topics, channel, traffic, left>>
-----------------------------------------------------------------------------
(* handleSubscribe and handleUnsubscribe. *)

(* Faulty variant: the channel has no bound. *)
EnqueueUnbounded == out' = out + 1

(* outgoingChannel <- message; it blocks while the channel is full. *)
Enqueue ==
    /\ out < ChannelBufSize
    /\ out' = out + 1

(* handleOutgoingMessages takes a message. *)
Drain ==
    /\ out > 0
    /\ out' = out - 1
    /\ UNCHANGED <<conns, agent, registry, topics, asked, traffic, left>>

(* Faulty variant: subMu is released before the Subscribe is forwarded. *)
SubscribeSubjectUnlocked(c, s) ==
    /\ pc[c] = "open" /\ subMu = None
    /\ subs' = [subs EXCEPT ![s] = @ \cup {Self(c)}]
    /\ everSub' = [everSub EXCEPT ![Self(c)] = @ \cup {s}]
    /\ known' = known \cup {s}
    /\ \/ /\ s \in known
          /\ UNCHANGED <<conns>>
       \/ /\ s \notin known
          /\ work' = [work EXCEPT ![c] = s]
          /\ Goto(c, "subscribe")
          /\ UNCHANGED <<asks, agentOf, answered>>
    /\ UNCHANGED <<subMu, agent, registry, channel, traffic, left>>

(* The first subscription to a subject is forwarded to the router, with    *)
(* subMu held until the channel has room; later ones are not.              *)
SubscribeSubject(c, s) ==
    /\ pc[c] = "open" /\ subMu = None
    /\ subs' = [subs EXCEPT ![s] = @ \cup {Self(c)}]
    /\ everSub' = [everSub EXCEPT ![Self(c)] = @ \cup {s}]
    /\ known' = known \cup {s}
    /\ \/ /\ s \in known
          /\ UNCHANGED <<conns, subMu>>
       \/ /\ s \notin known
          /\ work' = [work EXCEPT ![c] = s]
          /\ subMu' = c
          /\ Goto(c, "subscribe")
          /\ UNCHANGED <<asks, agentOf, answered>>
    /\ UNCHANGED <<agent, registry, channel, traffic, left>>

(* Faulty variant: subMu is not unlocked after the Subscribe is forwarded. *)
ForwardSubscribeLeaks(c) ==
    /\ pc[c] = "subscribe"
    /\ Enqueue
    /\ asked' = [asked EXCEPT ![work[c]] = "subscribe"]
    /\ work' = [work EXCEPT ![c] = None]
    /\ Goto(c, "open")
    /\ UNCHANGED <<asks, agentOf, answered, agent, registry, subs, known, subMu, everSub, traffic, left>>

ForwardSubscribe(c) ==
    /\ pc[c] = "subscribe"
    /\ Enqueue
    /\ asked' = [asked EXCEPT ![work[c]] = "subscribe"]
    /\ subMu' = None
    /\ work' = [work EXCEPT ![c] = None]
    /\ Goto(c, "open")
    /\ UNCHANGED <<asks, agentOf, answered, agent, registry, subs, known, everSub, traffic, left>>

(* The subject stays in the map, and the router is not told. *)
UnsubscribeSubject(c, s) ==
    /\ pc[c] = "open" /\ subMu = None
    /\ subs' = [subs EXCEPT ![s] = @ \ {Self(c)}]
    /\ UNCHANGED <<conns, agent, registry, known, subMu, everSub, channel, traffic, left>>

(* Direct messages need an MRN. The request goes on the channel first, the *)
(* flag of the Agent follows.                                              *)
SubscribeDirect(c) ==
    /\ pc[c] = "open" /\ mrn[Self(c)] # NoMrn
    /\ Enqueue
    /\ asked' = [asked EXCEPT ![mrn[Self(c)]] = "subscribe"]
    /\ Goto(c, "setDirect")
    /\ UNCHANGED <<asks, agentOf, work, answered, agent, registry, topics, traffic, left>>

SetDirect(c) ==
    /\ pc[c] = "setDirect"
    /\ direct' = [direct EXCEPT ![Self(c)] = TRUE]
    /\ Goto(c, "open")
    /\ UNCHANGED <<asks, agentOf, work, answered, mrn, token, registry, topics, channel, traffic, left>>

UnsubscribeDirect(c) ==
    /\ pc[c] = "open" /\ mrn[Self(c)] # NoMrn
    /\ Enqueue
    /\ asked' = [asked EXCEPT ![mrn[Self(c)]] = "unsubscribe"]
    /\ Goto(c, "clearDirect")
    /\ UNCHANGED <<asks, agentOf, work, answered, agent, registry, topics, traffic, left>>

ClearDirect(c) ==
    /\ pc[c] = "clearDirect"
    /\ direct' = [direct EXCEPT ![Self(c)] = FALSE]
    /\ Goto(c, "open")
    /\ UNCHANGED <<asks, agentOf, work, answered, mrn, token, registry, topics, channel, traffic, left>>
-----------------------------------------------------------------------------
(* Messages: handleSend, handleIncomingMessages, receiving, collecting. *)

Deliver(x, to) == queue' = [a \in Conns |-> IF a \in to THEN queue[a] \cup {x} ELSE queue[a]]

(* The Agents a message with recipients is put into the mailbox of. *)
DirectTargets(x) == {a \in {mrnToAgent[m] : m \in Recipients[x]} \ {None} : direct[a]}

(* Only authenticated Agents, the ones with an MRN, may send. The message  *)
(* is forwarded to the router before it is handed to local Agents.         *)
Send(c, x) ==
    /\ pc[c] = "open" /\ mrn[Self(c)] # NoMrn
    /\ source[x] = None
    /\ Enqueue
    /\ source' = [source EXCEPT ![x] = mrn[Self(c)]]
    /\ work' = [work EXCEPT ![c] = x]
    /\ Goto(c, "fanOut")
    /\ UNCHANGED <<asks, agentOf, answered, agent, registry, topics, asked, queue, incoming, expired, left>>

(* Faulty variant: the sender is told apart by its Agent, not by its MRN. *)
SendFanOutByAgent(c) ==
    LET x == work[c] IN
    /\ pc[c] = "fanOut"
    /\ \/ /\ Recipients[x] # {}
          /\ Deliver(x, DirectTargets(x))
       \/ /\ Recipients[x] = {}
          /\ subMu = None
          /\ Deliver(x, subs[Subject[x]] \ {Self(c)})
    /\ work' = [work EXCEPT ![c] = None]
    /\ Goto(c, "open")
    /\ UNCHANGED <<asks, agentOf, answered, agent, registry, topics, channel, incoming, source, expired, left>>

(* The maps are read-locked for the whole loop over the local Agents.      *)
SendFanOut(c) ==
    LET x == work[c] IN
    /\ pc[c] = "fanOut"
    /\ \/ /\ Recipients[x] # {}
          /\ Deliver(x, DirectTargets(x))
       \/ /\ Recipients[x] = {}
          /\ subMu = None
          /\ Deliver(x, {a \in subs[Subject[x]] : mrn[a] # mrn[Self(c)]})
    /\ work' = [work EXCEPT ![c] = None]
    /\ Goto(c, "open")
    /\ UNCHANGED <<asks, agentOf, answered, agent, registry, topics, channel, incoming, source, expired, left>>

(* A message from the router. An expired one is discarded. For recipients  *)
(* mrnToAgent is read-locked during the loop; for a subject the            *)
(* subscribers are copied under subMu and served after it is unlocked.     *)
Arrive(x) ==
    /\ incoming = Idle
    /\ source[x] = None
    /\ source' = [source EXCEPT ![x] = NoMrn]
    /\ \/ /\ x \in expired
          /\ UNCHANGED <<queue, incoming>>
       \/ /\ x \notin expired /\ Recipients[x] # {}
          /\ Deliver(x, DirectTargets(x))
          /\ UNCHANGED incoming
       \/ /\ x \notin expired /\ Recipients[x] = {}
          /\ subMu = None
          /\ incoming' = IF subs[Subject[x]] = {} THEN Idle ELSE [msg |-> x, to |-> subs[Subject[x]]]
          /\ UNCHANGED queue
    /\ UNCHANGED <<conns, agent, registry, topics, channel, expired, left>>

QueueIncoming(a) ==
    /\ a \in incoming.to
    /\ Deliver(incoming.msg, {a})
    /\ incoming' = IF incoming.to = {a} THEN Idle ELSE [msg |-> incoming.msg, to |-> incoming.to \ {a}]
    /\ UNCHANGED <<conns, agent, registry, topics, channel, source, expired, left>>

(* handleNotify: a Receive request for the router goes on the channel. *)
HandleNotify ==
    /\ incoming = Idle
    /\ Enqueue
    /\ UNCHANGED <<conns, agent, registry, topics, asked, traffic, left>>

(* HandleReceive hands over all the messages, or those of a filter. *)
Receive(c, S) ==
    /\ pc[c] = "open"
    /\ S # {} /\ S \subseteq queue[Self(c)]
    /\ queue' = [queue EXCEPT ![Self(c)] = @ \ S]
    /\ UNCHANGED <<conns, agent, registry, topics, channel, incoming, source, expired, left>>

(* Time passes for a message. *)
Expire(x) ==
    /\ x \notin expired
    /\ expired' = expired \cup {x}
    /\ UNCHANGED <<conns, agent, registry, topics, channel, queue, incoming, source, left>>

(* Faulty variant: the garbage collector walks over mrnToAgent. *)
MessageGCByMrn ==
    /\ queue' = [a \in Conns |-> IF a \in Range(mrnToAgent) THEN queue[a] \ expired ELSE queue[a]]
    /\ queue' # queue
    /\ UNCHANGED <<conns, agent, registry, topics, channel, incoming, source, expired, left>>

(* messageGC looks at every Agent that a reconnect token leads to. *)
MessageGC ==
    /\ queue' = [a \in Conns |-> IF a \in Range(agents) THEN queue[a] \ expired ELSE queue[a]]
    /\ queue' # queue
    /\ UNCHANGED <<conns, agent, registry, topics, channel, incoming, source, expired, left>>
-----------------------------------------------------------------------------
(* Disconnecting. *)

(* HandleDisconnect has answered and closed the websocket. If it fails the *)
(* handler returns as in HandlerExit.                                      *)
Disconnect(c) ==
    /\ pc[c] = "open"
    /\ Goto(c, "bye")
    /\ UNCHANGED <<asks, agentOf, work, answered, agent, registry, topics, channel, traffic, left>>

(* Whatever Agent is entered under the MRN is deleted. *)
ForgetMrn(c) ==
    /\ pc[c] = "bye"
    /\ mrnToAgent' = [m \in Mrns |-> IF m = mrn[Self(c)] THEN None ELSE mrnToAgent[m]]
    /\ Goto(c, "forget")
    /\ UNCHANGED <<asks, agentOf, work, answered, agent, agents, topics, channel, traffic, left>>

(* Faulty variant: the token that the Connect carried is deleted. *)
ForgetTokenAsked(c) ==
    /\ pc[c] = "forget"
    /\ agents' = [t \in Conns |-> IF t = asks[c] THEN None ELSE agents[t]]
    /\ left' = left \cup {Self(c)}
    /\ Goto(c, "gone")
    /\ UNCHANGED <<asks, agentOf, work, answered, agent, mrnToAgent, topics, channel, traffic>>

(* The Agent's newest token is deleted; older ones and the subscriptions   *)
(* stay.                                                                   *)
ForgetToken(c) ==
    /\ pc[c] = "forget"
    /\ agents' = [agents EXCEPT ![token[Self(c)]] = None]
    /\ left' = left \cup {Self(c)}
    /\ Goto(c, "gone")
    /\ UNCHANGED <<asks, agentOf, work, answered, agent, mrnToAgent, topics, channel, traffic>>
-----------------------------------------------------------------------------
ConnectStep(c) ==
    \/ Lookup(c) \/ Register(c) \/ MintToken(c) \/ StoreToken(c) \/ RespondOk(c) \/ RespondFail(c)

(* The steps a handler takes by itself once it has read a request. *)
HandlerStep(c) ==
    \/ ConnectStep(c)
    \/ ForwardSubscribe(c) \/ SetDirect(c) \/ ClearDirect(c) \/ SendFanOut(c)
    \/ ForgetMrn(c) \/ ForgetToken(c)

Request(c) ==
    \/ \E s \in Subjects : SubscribeSubject(c, s) \/ UnsubscribeSubject(c, s)
    \/ SubscribeDirect(c) \/ UnsubscribeDirect(c)
    \/ \E x \in Msgs : Send(c, x)
    \/ \E S \in SUBSET Msgs : Receive(c, S)
    \/ Disconnect(c) \/ HandlerExit(c)

Router ==
    \/ \E x \in Msgs : Arrive(x)
    \/ \E a \in Conns : QueueIncoming(a)
    \/ HandleNotify
    \/ Drain

Next ==
    \/ \E c \in Conns :
        \/ Refuse(c)
        \/ \E m \in Mrns \cup {NoMrn}, t \in Conns \cup {None} : Connect(c, m, t)
        \/ HandlerStep(c)
        \/ Request(c)
    \/ Router
    \/ \E x \in Msgs : Expire(x)
    \/ MessageGC

Spec == Init /\ [][Next]_vars

(* Handlers and the collector run when they can, and a mutex or a channel  *)
(* does not starve those who wait for it. The channel is emptied as long   *)
(* as the link to the router works.                                        *)
Fairness ==
    /\ \A c \in Conns : SF_vars(HandlerStep(c))
    /\ WF_vars(Drain)
    /\ WF_vars(MessageGC)
    /\ \A a \in Conns : WF_vars(QueueIncoming(a))

FairSpec == Spec /\ Fairness
-----------------------------------------------------------------------------
(* The properties. *)

(* A message lies only in mailboxes it is meant for: one with recipients   *)
(* in that of an Agent that has one of these MRNs and has asked for direct *)
(* messages, one with a subject in that of an Agent that has subscribed to *)
(* it and does not bear the sender's MRN. Neither a reconnection nor a     *)
(* second Agent under the same MRN changes this.                           *)
NoMisdelivery ==
    \A a \in Conns : \A x \in queue[a] :
        \/ /\ Recipients[x] # {}
           /\ mrn[a] \in Recipients[x]
           /\ asked[mrn[a]] # "never"
        \/ /\ Recipients[x] = {}
           /\ Subject[x] \in everSub[a]
           /\ source[x] # NoMrn => mrn[a] # source[x]

(* The token in the response to a Connect leads back to the Agent, however *)
(* many connections have drawn new tokens for it since, until one of them  *)
(* disconnects. A response can carry the token that another connection of  *)
(* the Agent has drawn in the meantime: that one leads back as soon as the *)
(* other handler has stored it, unless yet another token was drawn before. *)
TokenLeadsBack ==
    \A c \in Conns :
        \/ answered[c] = None
        \/ Self(c) \in left
        \/ agents[answered[c]] = Self(c)
        \/ /\ answered[c] # c
           /\ pc[answered[c]] = "store" \/ token[Self(c)] # answered[c]

(* An Agent that subscribes to a subject is never left waiting for         *)
(* messages the router was not asked for: once subMu is free the subject   *)
(* of every subscription has been forwarded.                               *)
UpstreamFirst == subMu = None => \A s \in Subjects : subs[s] # {} => asked[s] = "subscribe"

(* An Agent that has disconnected can be reached by a reconnect token only *)
(* if another connection had come back to it: Disconnect deletes the token *)
(* that is in the Agent at that time and no older one.                     *)
ForgottenUnlessReconnected ==
    \A a \in left : a \in Range(agents) => \E c \in Conns \ {a} : Self(c) = a

(* What the comment in handleHttpConnection says of a successful           *)
(* Disconnect: it is this Agent that is removed from mrnToAgent, not       *)
(* another one with the same MRN.                                          *)
OnlyOwnEntryRemoved ==
    [][\A m \in Mrns :
         mrnToAgent[m] # None /\ mrnToAgent'[m] = None =>
             \E c \in Conns : pc[c] = "bye" /\ pc'[c] = "forget" /\ Self(c) = mrnToAgent[m]]_vars

(* Every request is handled to its end: the handlers that wait for subMu   *)
(* and those that wait for the channel do not block each other for ever.   *)
HandlersReturn ==
    \A c \in Conns : (pc[c] \notin {"off", "open", "gone"}) ~> (pc[c] \in {"open", "gone"})

(* An expired message is deleted as long as the Agent can be reached by a  *)
(* reconnect token, with or without an MRN.                                *)
CollectedWhileKnown ==
    \A a \in Conns, x \in Msgs :
        (x \in queue[a] \cap expired) ~> (x \notin queue[a] \/ a \notin Range(agents))
=============================================================================
