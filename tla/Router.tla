------------------------------- MODULE Router -------------------------------
(***************************************************************************)
(* One MMS Router (router/router.go): the sessions of its Edge Routers,    *)
(* their subscriptions, and the way of a message from an Edge Router to    *)
(* the others and to the network of Routers, and from the network to the   *)
(* Edge Routers.                                                           *)
(*                                                                         *)
(* A handler per connection, handleIncomingMessages, handleOutgoing-       *)
(* Messages, one handleSubscription per topic and messageGC share the maps *)
(* edgeRouters (erMu), subscriptions (subMu, and subsMu in each of them)   *)
(* and topicHandles (no lock of its own).                                  *)
(*                                                                         *)
(* The object that connection c creates and the reconnect token that it    *)
(* draws are both called c. An object's mailbox is the one Consumer.tla    *)
(* implements. Topics are the subjects and the MRNs of Agents. A panic     *)
(* ends a handler, as the HTTP server recovers it, but ends the process in *)
(* any other goroutine.                                                    *)
(***************************************************************************)
EXTENDS Naturals, Sequences, SequencesExt

CONSTANTS
    Conns,          \* the connections of Edge Routers
    Mrns,           \* the MRNs of Edge Routers
    Topics,         \* what can be subscribed to
    Msgs,           \* application messages, each sent once
    Recipients,     \* the recipients of each message, {} if it has a subject
    Subject,        \* its subject (of no meaning if it has recipients)
    ChannelBufSize, \* the capacity of both channels
    MaxRequests,    \* bound: how often Edge Routers subscribe or unsubscribe
    OldToken,       \* a token that was drawn before the Router was restarted
    Net,            \* "sender" of a message that comes from another Router
    None

ASSUME RouterAssumption ==
    /\ None \notin Conns \cup Mrns \cup Topics \cup Msgs /\ OldToken \notin Conns \cup {None}
    /\ Net \notin Mrns \cup {None}
    /\ Recipients \in [Msgs -> SUBSET Topics] /\ Subject \in [Msgs -> Topics]
    /\ ChannelBufSize \in Nat \ {0} /\ MaxRequests \in Nat

VARIABLES
    pc,           \* per connection: where its handler is
    asks,         \* per connection: the token its Connect carries
    obj,          \* per connection: the handler's EdgeRouter object
    work,         \* per connection: the topic or message being handled
    todo,         \* per connection: recipients a Send has not served yet
    answered,     \* per connection: the token in the response to its Connect
    mrn,          \* per connection: the MRN it gave; per object: Mrn
    token,        \* per object: ReconnectToken
    queue,        \* per object: its mailbox
    edgeRouters,  \* MRN to object
    subs,         \* topic to subscribers: MRN to object
    known,        \* the topics that are keys of subscriptions
    listening,    \* the topics that a handleSubscription goroutine reads
    joined,       \* the topics that pubSub has joined
    topicHandles, \* the topics that are keys of topicHandles
    subMu,        \* the connection that holds subMu across a step, or None
    leaked,       \* erMu, subMu: those that a handler left read-locked
    leakedSubs,   \* the topics whose subsMu a handler left read-locked
    outChan,      \* outgoingChannel
    out,          \* what handleOutgoingMessages is doing
    inChan,       \* incomingChannel
    in,           \* what handleIncomingMessages is doing
    crashed,      \* "no", or why the process has ended
    source,       \* per message: its sender, None if it has not been sent
    bare,         \* the messages that were sent without a UUID
    expired,      \* messages whose time has passed
    heard,        \* message and topic: sub.Next has returned it
    published,    \* message and topic: published
    dropped,      \* message and topic: not published, Join failed
    requests,     \* bound: how many Subscribe and Unsubscribe were read
    taken,        \* history: per object, the messages its Edge Router received
    everSub       \* history: per object, the topics it ever subscribed to

conns    == <<pc, asks, obj, work, todo, answered, requests>>
object   == <<mrn, token>>
topics   == <<subs, known, listening, everSub>>
handles  == <<joined, topicHandles>>
locks    == <<subMu, leaked, leakedSubs>>
outgoing == <<outChan, out, published, dropped>>
incoming == <<inChan, in, heard>>
traffic  == <<queue, source, bare, expired, taken>>
routing  == <<topics, handles, locks, outgoing, incoming, crashed, traffic>>
vars == <<conns, object, edgeRouters, routing>>

Idle == [msg |-> None, todo |-> {}]
OutIdle == [msg |-> None, todo |-> {}, at |-> "look", topic |-> None]
TopicsOf(x) == IF Recipients[x] # {} THEN Recipients[x] ELSE {Subject[x]}

HandlerStates ==
    {"off", "lookup", "mint", "register", "respond", "open", "subscribe", "join", "store",
     "unsubscribe", "stuck", "sendLock", "fanOut", "gone"}

TypeOK ==
    /\ pc \in [Conns -> HandlerStates]
    /\ asks \in [Conns -> Conns \cup {OldToken, None}]
    /\ obj \in [Conns -> Conns \cup {None}]
    /\ work \in [Conns -> Topics \cup Msgs \cup {None}]
    /\ todo \in [Conns -> SUBSET Topics]
    /\ answered \in [Conns -> Conns \cup {None}]
    /\ mrn \in [Conns -> Mrns \cup {None}]
    /\ token \in [Conns -> Conns \cup {None}]
    /\ queue \in [Conns -> SUBSET (Msgs \ bare)]
    /\ edgeRouters \in [Mrns -> Conns \cup {None}]
    /\ subs \in [Topics -> [Mrns -> Conns \cup {None}]]
    /\ known \subseteq Topics /\ listening \subseteq Topics
    /\ joined \subseteq Topics /\ topicHandles \subseteq Topics
    /\ requests \in 0..MaxRequests /\ subMu \in Conns \cup {None}
    /\ leaked \subseteq {"erMu", "subMu"} /\ leakedSubs \subseteq Topics
    /\ outChan \in Seq(Msgs) /\ Len(outChan) <= ChannelBufSize
    /\ out \in [msg : Msgs \cup {None}, todo : SUBSET Topics,
                at : {"look", "join", "store"}, topic : Topics \cup {None}]
    /\ inChan \in Seq(Msgs) /\ Len(inChan) <= ChannelBufSize
    /\ in \in [msg : Msgs \cup {None}, todo : SUBSET Topics]
    /\ crashed \in {"no", "nil", "race"}
    /\ source \in [Msgs -> Mrns \cup {Net, None}]
    /\ bare \subseteq Msgs /\ expired \subseteq Msgs
    /\ heard \subseteq Msgs \X Topics
    /\ published \subseteq Msgs \X Topics /\ dropped \subseteq Msgs \X Topics
    /\ taken \in [Conns -> SUBSET Msgs] /\ everSub \in [Conns -> SUBSET Topics]

Init ==
    /\ pc = [c \in Conns |-> "off"]
    /\ asks = [c \in Conns |-> None]
    /\ obj = [c \in Conns |-> None]
    /\ work = [c \in Conns |-> None]
    /\ todo = [c \in Conns |-> {}]
    /\ answered = [c \in Conns |-> None]
    /\ mrn = [c \in Conns |-> None]
    /\ token = [c \in Conns |-> None]
    /\ queue = [c \in Conns |-> {}]
    /\ edgeRouters = [m \in Mrns |-> None]
    /\ subs = [t \in Topics |-> [m \in Mrns |-> None]]
    /\ known = {} /\ listening = {} /\ joined = {} /\ topicHandles = {}
    /\ requests = 0 /\ subMu = None /\ leaked = {} /\ leakedSubs = {}
    /\ outChan = <<>> /\ out = OutIdle /\ inChan = <<>> /\ in = Idle
    /\ crashed = "no"
    /\ source = [x \in Msgs |-> None] /\ bare = {} /\ expired = {}
    /\ heard = {} /\ published = {} /\ dropped = {}
    /\ taken = [c \in Conns |-> {}] /\ everSub = [c \in Conns |-> {}]

Goto(c, place) == pc' = [pc EXCEPT ![c] = place]
Finish(c) == Goto(c, "open") /\ work' = [work EXCEPT ![c] = None]
Self(c) == obj[c]
SelfMrn(c) == mrn[Self(c)]

(* A handleSend to recipients holds erMu read-locked. *)
HoldsErMu(c) == pc[c] = "fanOut" /\ Recipients[work[c]] # {}

(* A sync.RWMutex lets no reader in while a writer waits, which it does    *)
(* for ever if a reader has left without unlocking.                        *)
ErMuReadable == ~("erMu" \in leaked /\ \E c \in Conns : pc[c] = "register")
ErMuWritable == "erMu" \notin leaked /\ \A c \in Conns : ~HoldsErMu(c)
SubMuReadable ==
    /\ subMu = None
    /\ ~("subMu" \in leaked /\ \E c \in Conns : pc[c] \in {"subscribe", "unsubscribe"})
SubMuWritable == subMu = None /\ "subMu" \notin leaked
-----------------------------------------------------------------------------
(* Connecting. *)

(* The first message is no Connect or has no MRN, or authentication fails. *)
Refuse(c) ==
    /\ pc[c] = "off"
    /\ Goto(c, "gone")
    /\ UNCHANGED <<asks, obj, work, todo, answered, requests, object, edgeRouters, routing>>

(* An Edge Router connects afresh, with a token from before the Router was *)
(* restarted, or with one it was answered with under this MRN.             *)
Connect(c, m, t) ==
    /\ pc[c] = "off"
    /\ t \in {None, OldToken} \/ \E d \in Conns : answered[d] = t /\ mrn[d] = m
    /\ mrn' = [mrn EXCEPT ![c] = m]
    /\ asks' = [asks EXCEPT ![c] = t]
    /\ Goto(c, "lookup")
    /\ UNCHANGED <<obj, work, todo, answered, requests, token, edgeRouters, routing>>

(* Without a token the Edge Router gets a new object. With one it gets the *)
(* object that is stored under its MRN; if the token is not that object's, *)
(* an error response comes first, and the handler goes on if it could be   *)
(* written. If there is no such object the handler ends, by a failed write *)
(* or by the use of the nil pointer after a successful one.                *)
Lookup(c) ==
    LET saved == edgeRouters[mrn[c]] IN
    /\ pc[c] = "lookup"
    /\ \/ /\ asks[c] = None
          /\ obj' = [obj EXCEPT ![c] = c]
          /\ Goto(c, "mint")
       \/ /\ asks[c] # None /\ ErMuReadable /\ saved # None
          /\ obj' = [obj EXCEPT ![c] = saved]
          /\ Goto(c, "mint")
       \/ /\ asks[c] # None /\ ErMuReadable
          /\ ~(saved # None /\ token[saved] = asks[c])
          /\ Goto(c, "gone")
          /\ UNCHANGED obj
    /\ asks' = [asks EXCEPT ![c] = None]
    /\ UNCHANGED <<work, todo, answered, requests, object, edgeRouters, routing>>

MintToken(c) ==
    /\ pc[c] = "mint"
    /\ token' = [token EXCEPT ![Self(c)] = c]
    /\ Goto(c, "register")
    /\ UNCHANGED <<asks, obj, work, todo, answered, requests, mrn, edgeRouters, routing>>

Register(c) ==
    /\ pc[c] = "register" /\ ErMuWritable
    /\ edgeRouters' = [edgeRouters EXCEPT ![SelfMrn(c)] = Self(c)]
    /\ Goto(c, "respond")
    /\ UNCHANGED <<asks, obj, work, todo, answered, requests, object, routing>>

RespondOk(c) ==
    /\ pc[c] = "respond"
    /\ answered' = [answered EXCEPT ![c] = token[Self(c)]]
    /\ Goto(c, "open")
    /\ UNCHANGED <<asks, obj, work, todo, requests, object, edgeRouters, routing>>

(* Faulty variant: the Edge Router is removed from the map when it goes. *)
HandlerExitForgets(c) ==
    /\ pc[c] \in {"respond", "open"}
    /\ Goto(c, "gone")
    /\ edgeRouters' = [edgeRouters EXCEPT ![SelfMrn(c)] = None]
    /\ UNCHANGED <<asks, obj, work, todo, answered, requests, object, routing>>

(* The response cannot be written; or, later, the connection is lost or    *)
(* the Edge Router disconnects. The object stays where it is.              *)
HandlerExit(c) ==
    /\ pc[c] \in {"respond", "open"}
    /\ Goto(c, "gone")
    /\ UNCHANGED <<asks, obj, work, todo, answered, requests, object, edgeRouters, routing>>
-----------------------------------------------------------------------------
(* Subscribing and unsubscribing. *)

Ask(c, t, place) ==
    /\ pc[c] = "open" /\ requests < MaxRequests
    /\ requests' = requests + 1
    /\ work' = [work EXCEPT ![c] = t]
    /\ Goto(c, place)
    /\ UNCHANGED <<asks, obj, todo, answered, object, edgeRouters, routing>>

Subscribe(c, t) == Ask(c, t, "subscribe")
Unsubscribe(c, t) == Ask(c, t, "unsubscribe")

(* AddSubscriber, and a goroutine that reads the topic if it is new.       *)
AddSubscriber(c, t) ==
    /\ subs' = [subs EXCEPT ![t][SelfMrn(c)] = Self(c)]
    /\ known' = known \cup {t} /\ listening' = listening \cup {t}
    /\ everSub' = [everSub EXCEPT ![Self(c)] = @ \cup {t}]

(* subMu.Lock, and everything up to the call of Join. With the subsMu of   *)
(* the subscription left read-locked the handler waits for it, with subMu  *)
(* held.                                                                   *)
SubscribeLock(c) ==
    LET t == work[c] IN
    /\ pc[c] = "subscribe" /\ SubMuWritable
    /\ \/ /\ t \in known \ leakedSubs \/ t \in topicHandles \ known
          /\ AddSubscriber(c, t)
          /\ Finish(c)
          /\ UNCHANGED subMu
       \/ /\ t \in known \cap leakedSubs
          /\ subMu' = c
          /\ Goto(c, "stuck")
          /\ UNCHANGED <<topics, work>>
       \/ /\ t \notin known \cup topicHandles
          /\ subMu' = c
          /\ Goto(c, "join")
          /\ UNCHANGED <<topics, work>>
    /\ UNCHANGED <<asks, obj, todo, answered, requests, object, edgeRouters, handles, leaked,
                   leakedSubs, outgoing, incoming, crashed, traffic>>

(* Faulty variant: subMu is not unlocked if Join fails. *)
SubscribeJoinLeaks(c) ==
    /\ pc[c] = "join"
    /\ joined' = joined \cup {work[c]}
    /\ IF work[c] \in joined THEN Finish(c) ELSE Goto(c, "store") /\ UNCHANGED work
    /\ UNCHANGED <<asks, obj, todo, answered, requests, object, edgeRouters, topics, topicHandles,
                   locks, outgoing, incoming, crashed, traffic>>

(* pubSub.Join fails for a topic that has been joined before.              *)
SubscribeJoin(c) ==
    LET t == work[c] IN
    /\ pc[c] = "join"
    /\ joined' = joined \cup {t}
    /\ IF t \in joined THEN subMu' = None /\ Finish(c)
                       ELSE Goto(c, "store") /\ UNCHANGED <<subMu, work>>
    /\ UNCHANGED <<asks, obj, todo, answered, requests, object, edgeRouters, topics, topicHandles,
                   leaked, leakedSubs, outgoing, incoming, crashed, traffic>>

SubscribeStore(c) ==
    /\ pc[c] = "store"
    /\ topicHandles' = topicHandles \cup {work[c]}
    /\ AddSubscriber(c, work[c])
    /\ subMu' = None
    /\ Finish(c)
    /\ UNCHANGED <<asks, obj, todo, answered, requests, object, edgeRouters, joined, leaked,
                   leakedSubs, outgoing, incoming, crashed, traffic>>

(* Faulty variant: the subscription is deleted with its last subscriber. *)
HandleUnsubscribeDeletes(c) ==
    LET t == work[c] IN
    /\ pc[c] = "unsubscribe" /\ SubMuWritable
    /\ subs' = [subs EXCEPT ![t][SelfMrn(c)] = None]
    /\ known' = IF \A m \in Mrns : subs'[t][m] = None THEN known \ {t} ELSE known
    /\ Finish(c)
    /\ UNCHANGED <<asks, obj, todo, answered, requests, object, edgeRouters, listening, everSub,
                   handles, locks, outgoing, incoming, crashed, traffic>>

(* The subscription stays in the map when its last subscriber has gone.    *)
HandleUnsubscribe(c) ==
    LET t == work[c] IN
    /\ pc[c] = "unsubscribe" /\ SubMuWritable
    /\ IF t \in known \cap leakedSubs
       THEN subMu' = c /\ Goto(c, "stuck") /\ UNCHANGED <<subs, work>>
       ELSE /\ subs' = [subs EXCEPT ![t][SelfMrn(c)] = None]
            /\ Finish(c)
            /\ UNCHANGED subMu
    /\ UNCHANGED <<asks, obj, todo, answered, requests, object, edgeRouters, known, listening,
                   everSub, handles, leaked, leakedSubs, outgoing, incoming, crashed, traffic>>
-----------------------------------------------------------------------------
(* Messages from an Edge Router. *)

Subscribers(t) == {subs[t][m] : m \in Mrns} \ {None}

QueueMessage(objects, x) ==
    queue' = [o \in Conns |-> IF o \in objects THEN queue[o] \cup {x} ELSE queue[o]]

(* handleSend passes the message on to the network first, ...              *)
Send(c, x, hasUuid) ==
    /\ pc[c] = "open" /\ source[x] = None /\ Len(outChan) < ChannelBufSize
    /\ outChan' = Append(outChan, x)
    /\ source' = [source EXCEPT ![x] = SelfMrn(c)]
    /\ bare' = IF hasUuid THEN bare ELSE bare \cup {x}
    /\ work' = [work EXCEPT ![c] = x]
    /\ todo' = [todo EXCEPT ![c] = TopicsOf(x)]
    /\ Goto(c, IF Recipients[x] # {} THEN "sendLock" ELSE "fanOut")
    /\ UNCHANGED <<asks, obj, answered, requests, object, edgeRouters, topics, handles, locks, out,
                   published, dropped, incoming, crashed, queue, expired, taken>>

SendLock(c) ==
    /\ pc[c] = "sendLock" /\ ErMuReadable
    /\ Goto(c, "fanOut")
    /\ UNCHANGED <<asks, obj, work, todo, answered, requests, object, edgeRouters, routing>>

(* Faulty variant: the connection itself is left out, not the MRN of its sender. *)
FanOutBySelf(c, t) ==
    /\ pc[c] = "fanOut" /\ t \in todo[c] /\ SubMuReadable /\ work[c] \notin bare
    /\ QueueMessage(Subscribers(t) \ {Self(c)}, work[c])
    /\ todo' = [todo EXCEPT ![c] = @ \ {t}]
    /\ IF todo'[c] = {} THEN Finish(c) ELSE UNCHANGED <<pc, work>>
    /\ UNCHANGED <<asks, obj, answered, requests, object, edgeRouters, topics, handles, locks,
                   outgoing, incoming, crashed, source, bare, expired, taken>>

(* Faulty variant: a message without a UUID is queued. *)
FanOutUnchecked(c, t) ==
    /\ pc[c] = "fanOut" /\ t \in todo[c] /\ SubMuReadable
    /\ QueueMessage({o \in Subscribers(t) : mrn[o] # SelfMrn(c)}, work[c])
    /\ todo' = [todo EXCEPT ![c] = @ \ {t}]
    /\ IF todo'[c] = {} THEN Finish(c) ELSE UNCHANGED <<pc, work>>
    /\ UNCHANGED <<asks, obj, answered, requests, object, edgeRouters, topics, handles, locks,
                   outgoing, incoming, crashed, source, bare, expired, taken>>

(* ... and then to the other subscribers of each of its topics. A message  *)
(* that cannot be queued makes it return with its locks held.              *)
FanOut(c, t) ==
    LET x == work[c]
        others == {o \in Subscribers(t) : mrn[o] # SelfMrn(c)}
        fails == x \in bare /\ others # {}
    IN
    /\ pc[c] = "fanOut" /\ t \in todo[c] /\ SubMuReadable
    /\ QueueMessage(IF fails THEN {} ELSE others, x)
    /\ leaked' = leaked \cup (IF ~fails THEN {} ELSE {IF Recipients[x] # {} THEN "erMu" ELSE "subMu"})
    /\ leakedSubs' = leakedSubs \cup (IF fails /\ Recipients[x] # {} THEN {t} ELSE {})
    /\ todo' = [todo EXCEPT ![c] = IF fails THEN {} ELSE @ \ {t}]
    /\ IF todo'[c] = {} THEN Finish(c) ELSE UNCHANGED <<pc, work>>
    /\ UNCHANGED <<asks, obj, answered, requests, object, edgeRouters, topics, handles, subMu,
                   outgoing, incoming, crashed, source, bare, expired, taken>>

(* handleOutgoingMessages takes a message and serves its topics in turn.   *)
TakeOutgoing ==
    /\ out.msg = None /\ outChan # <<>>
    /\ outChan' = Tail(outChan)
    /\ out' = [msg |-> Head(outChan), todo |-> TopicsOf(Head(outChan)), at |-> "look", topic |-> None]
    /\ UNCHANGED <<conns, object, edgeRouters, topics, handles, locks, published, dropped, incoming,
                   crashed, traffic>>

OutAt(place, t) == out' = [msg |-> out.msg, todo |-> out.todo, at |-> place, topic |-> t]

OutDone(t) ==
    out' = IF out.todo = {t} THEN OutIdle
           ELSE [msg |-> out.msg, todo |-> out.todo \ {t}, at |-> "look", topic |-> None]

PublishLook(t) ==
    /\ out.at = "look" /\ t \in out.todo
    /\ IF t \in topicHandles
       THEN OutDone(t) /\ published' = published \cup {<<out.msg, t>>}
       ELSE OutAt("join", t) /\ UNCHANGED published
    /\ UNCHANGED <<conns, object, edgeRouters, topics, handles, locks, outChan, dropped, incoming,
                   crashed, traffic>>

(* Faulty variant: a failed Join ends the loop over the recipients. *)
PublishJoinGivesUp ==
    /\ out.at = "join"
    /\ joined' = joined \cup {out.topic}
    /\ IF out.topic \in joined
       THEN out' = OutIdle /\ dropped' = dropped \cup {<<out.msg, out.topic>>}
       ELSE OutAt("store", out.topic) /\ UNCHANGED dropped
    /\ UNCHANGED <<conns, object, edgeRouters, topics, topicHandles, locks, outChan, published,
                   incoming, crashed, traffic>>

PublishJoin ==
    LET t == out.topic IN
    /\ out.at = "join"
    /\ joined' = joined \cup {t}
    /\ IF t \in joined
       THEN OutDone(t) /\ dropped' = dropped \cup {<<out.msg, t>>}
       ELSE OutAt("store", t) /\ UNCHANGED dropped
    /\ UNCHANGED <<conns, object, edgeRouters, topics, topicHandles, locks, outChan, published,
                   incoming, crashed, traffic>>

(* Faulty variant: the topic is published on but not entered in topicHandles. *)
PublishStoreForgets ==
    /\ out.at = "store"
    /\ published' = published \cup {<<out.msg, out.topic>>}
    /\ OutDone(out.topic)
    /\ UNCHANGED <<conns, object, edgeRouters, topics, handles, locks, outChan, dropped, incoming,
                   crashed, traffic>>

PublishStore ==
    LET t == out.topic IN
    /\ out.at = "store"
    /\ topicHandles' = topicHandles \cup {t}
    /\ published' = published \cup {<<out.msg, t>>}
    /\ OutDone(t)
    /\ UNCHANGED <<conns, object, edgeRouters, topics, joined, locks, outChan, dropped, incoming,
                   crashed, traffic>>

(* topicHandles is a Go map that handleSubscribe reads and writes under    *)
(* subMu and handleOutgoingMessages without it; if a write overlaps with   *)
(* another access the runtime may end the process.                         *)
TopicHandlesRace ==
    /\ \E c \in Conns :
          \/ pc[c] = "store" /\ out.msg # None /\ out.at \in {"look", "store"}
          \/ pc[c] = "subscribe" /\ SubMuWritable /\ work[c] \notin known /\ out.at = "store"
    /\ crashed' = "race"
    /\ UNCHANGED <<conns, object, edgeRouters, topics, handles, locks, outgoing, incoming, traffic>>
-----------------------------------------------------------------------------
(* Messages from the network, and the mailboxes. *)

(* Faulty variant: the Router's own messages are not ignored. *)
HandleSubscriptionOwn(t, x) ==
    /\ t \in listening \cap TopicsOf(x) /\ <<x, t>> \notin heard /\ x \notin bare
    /\ source[x] \in Mrns => <<x, t>> \in published
    /\ Len(inChan) < ChannelBufSize
    /\ inChan' = Append(inChan, x)
    /\ source' = [source EXCEPT ![x] = IF @ = None THEN Net ELSE @]
    /\ heard' = heard \cup {<<x, t>>}
    /\ UNCHANGED <<conns, object, edgeRouters, topics, handles, locks, outgoing, in, crashed, queue,
                   bare, expired, taken>>

(* The pub/sub service hands each message once to each topic's goroutine,  *)
(* which puts it on incomingChannel, unless it is one of the Router's own  *)
(* (or has no UUID).                                                       *)
HandleSubscription(t, x) ==
    /\ t \in listening \cap TopicsOf(x) /\ <<x, t>> \notin heard
    /\ source[x] \notin Mrns
    /\ Len(inChan) < ChannelBufSize
    /\ inChan' = Append(inChan, x)
    /\ source' = [source EXCEPT ![x] = Net]
    /\ heard' = heard \cup {<<x, t>>}
    /\ UNCHANGED <<conns, object, edgeRouters, topics, handles, locks, outgoing, in, crashed, queue,
                   bare, expired, taken>>

(* handleIncomingMessages discards what has expired.                       *)
TakeIncoming ==
    /\ in.msg = None /\ inChan # <<>>
    /\ inChan' = Tail(inChan)
    /\ in' = IF Head(inChan) \in expired THEN Idle
             ELSE [msg |-> Head(inChan), todo |-> TopicsOf(Head(inChan))]
    /\ UNCHANGED <<conns, object, edgeRouters, topics, handles, locks, outgoing, heard, crashed,
                   traffic>>

(* A topic nobody here has subscribed to yields a nil subscription.        *)
RouteIncoming(t) ==
    /\ t \in in.todo /\ SubMuReadable
    /\ IF t \in known
       THEN /\ QueueMessage(Subscribers(t), in.msg)
            /\ in' = IF in.todo = {t} THEN Idle ELSE [msg |-> in.msg, todo |-> in.todo \ {t}]
            /\ UNCHANGED crashed
       ELSE crashed' = "nil" /\ UNCHANGED <<queue, in>>
    /\ UNCHANGED <<conns, object, edgeRouters, topics, handles, locks, outgoing, inChan, heard,
                   source, bare, expired, taken>>

(* HandleReceive, with a filter or without one.                            *)
Receive(c, S) ==
    /\ pc[c] = "open" /\ S # {} /\ S \subseteq queue[Self(c)]
    /\ queue' = [queue EXCEPT ![Self(c)] = @ \ S]
    /\ taken' = [taken EXCEPT ![Self(c)] = @ \cup S]
    /\ UNCHANGED <<conns, object, edgeRouters, topics, handles, locks, outgoing, incoming, crashed,
                   source, bare, expired>>

(* The time of a message passes; nobody looks at it elsewhere.             *)
Expire(x) ==
    /\ x \notin expired
    /\ x \in ToSet(inChan) \/ \E o \in Conns : x \in queue[o]
    /\ expired' = expired \cup {x}
    /\ UNCHANGED <<conns, object, edgeRouters, topics, handles, locks, outgoing, incoming, crashed,
                   queue, source, bare, taken>>

Registered == {edgeRouters[m] : m \in Mrns} \ {None}

(* Faulty variant: only the mailboxes of open connections are visited. *)
MessageGCOpen ==
    LET seen == {obj[c] : c \in {d \in Conns : pc[d] = "open"}} IN
    /\ ErMuReadable
    /\ \E o \in seen : queue[o] \cap expired # {}
    /\ queue' = [o \in Conns |-> IF o \in seen THEN queue[o] \ expired ELSE queue[o]]
    /\ UNCHANGED <<conns, object, edgeRouters, topics, handles, locks, outgoing, incoming, crashed,
                   source, bare, expired, taken>>

(* messageGC visits the mailboxes that edgeRouters leads to.               *)
MessageGC ==
    /\ ErMuReadable
    /\ \E o \in Registered : queue[o] \cap expired # {}
    /\ queue' = [o \in Conns |-> IF o \in Registered THEN queue[o] \ expired ELSE queue[o]]
    /\ UNCHANGED <<conns, object, edgeRouters, topics, handles, locks, outgoing, incoming, crashed,
                   source, bare, expired, taken>>
-----------------------------------------------------------------------------
(* What a handler does next once it has read a message. *)
HandlerStep(c) ==
    \/ Lookup(c) \/ MintToken(c) \/ Register(c) \/ RespondOk(c)
    \/ SubscribeLock(c) \/ SubscribeJoin(c) \/ SubscribeStore(c) \/ HandleUnsubscribe(c)
    \/ SendLock(c) \/ \E t \in Topics : FanOut(c, t)

HandleOutgoingMessages == TakeOutgoing \/ (\E t \in Topics : PublishLook(t)) \/ PublishJoin \/ PublishStore

HandleIncomingMessages == TakeIncoming \/ \E t \in Topics : RouteIncoming(t)

Next ==
    /\ crashed = "no"
    /\ \/ \E c \in Conns :
             \/ Refuse(c) \/ HandlerStep(c) \/ HandlerExit(c)
             \/ \E m \in Mrns, t \in Conns \cup {OldToken, None} : Connect(c, m, t)
             \/ \E t \in Topics : Subscribe(c, t) \/ Unsubscribe(c, t)
             \/ \E x \in Msgs, u \in BOOLEAN : Send(c, x, u)
             \/ \E S \in SUBSET Msgs : Receive(c, S)
       \/ HandleOutgoingMessages \/ HandleIncomingMessages \/ TopicHandlesRace \/ MessageGC
       \/ \E x \in Msgs : Expire(x) \/ \E t \in Topics : HandleSubscription(t, x)

Spec == Init /\ [][Next]_vars

(* Go's locks serve those that wait in turn, and goroutines that can run   *)
(* do. No property needs fairness of handleIncomingMessages.               *)
Alive(A) == crashed = "no" /\ A

Fairness ==
    /\ \A c \in Conns : SF_vars(Alive(HandlerStep(c)))
    /\ WF_vars(Alive(HandleOutgoingMessages))
    /\ WF_vars(Alive(MessageGC))

FairSpec == Spec /\ Fairness
-----------------------------------------------------------------------------
(* Properties. *)

(* A message is in the mailbox of an Edge Router only if that Edge Router  *)
(* has subscribed to one of its topics, and never in one of the Edge       *)
(* Router that sent it ("Do not send the message back to where it came     *)
(* from", router.go:607), by whatever way it came: handleSend, or          *)
(* handleSubscription and handleIncomingMessages.                          *)
RightMailboxes ==
    \A o \in Conns : \A x \in queue[o] :
        /\ everSub[o] \cap TopicsOf(x) # {}
        /\ mrn[o] # source[x]

SeveralTopics(x) == \E t, u \in TopicsOf(x) : t # u

(* A message with one topic is never queued again for an Edge Router that  *)
(* has received it, although a local message also goes to the network and  *)
(* comes back on the topic's subscription. A message with several          *)
(* recipients does come again, once for each topic it is published on.     *)
ReceivedOnce ==
    \A o \in Conns : \A x \in queue[o] \cap taken[o] : SeveralTopics(x)

(* handleIncomingMessages finds the subscription of every message that has *)
(* one topic: the nil dereference that ends the process needs a message    *)
(* with another recipient, to whom nobody here has subscribed.             *)
NilNeedsSecondRecipient == crashed = "nil" => SeveralTopics(in.msg)

(* The handler that holds subMu is on its way through handleSubscribe or   *)
(* handleUnsubscribe; a handler that has returned holds it no more. Locks  *)
(* stay read-locked only if an Edge Router sent a message without a UUID.  *)
LockDiscipline ==
    /\ \A c \in Conns : subMu = c <=> pc[c] \in {"join", "store", "stuck"}
    /\ leaked # {} \/ leakedSubs # {} => bare # {}

StoringHandle(t) ==
    \/ out.at = "store" /\ out.topic = t
    \/ \E c \in Conns : pc[c] = "store" /\ work[c] = t

(* A topic that has been joined is in topicHandles, or the goroutine that  *)
(* joined it is about to enter it: no topic is lost by being joined,       *)
(* although two goroutines look it up and join it without a common lock.   *)
JoinedIsUsable == \A t \in joined : t \in topicHandles \/ StoringHandle(t)

(* A message is kept from the network only if a handler has joined its     *)
(* topic for a subscriber between the look-up and the Join of              *)
(* handleOutgoingMessages.                                                 *)
DropMeansSubscribed ==
    \A d \in dropped : d[2] \in known \/ \E c \in Conns : pc[c] = "store" /\ work[c] = d[2]

(* A reconnection with a token that this Router has given out finds an     *)
(* object: the handler goes on with a nil one after the response "No       *)
(* existing session was found" only for a token from before a restart.     *)
NilOnlyAfterRestart ==
    \A c \in Conns : pc[c] = "lookup" /\ asks[c] \in Conns => edgeRouters[mrn[c]] # None

ObjectsOf(m) == {c \in Conns : obj[c] = c /\ mrn[c] = m}

(* The object that is a subscriber is the one that the Edge Router's       *)
(* connections use and the garbage collector visits, as long as the Edge   *)
(* Router connects with its token. Only when it connects without one, as   *)
(* after a restart, do subscriptions keep an object that nobody empties.   *)
StaleOnlyAfterFreshConnect ==
    \A m \in Mrns : (\A c, d \in ObjectsOf(m) : c = d) =>
        \A t \in Topics : subs[t][m] \in {None, edgeRouters[m]}

Broken == crashed # "no" \/ leaked # {}

(* Every request is answered or ends its connection: the handlers wait for *)
(* erMu, for subMu, which is held across Join, and for each other, but not *)
(* for ever, unless a lock was left read-locked or the process has ended.  *)
HandlersReturn == \A c \in Conns : pc[c] \notin {"off", "open", "gone"} ~> (pc[c] \in {"open", "gone"} \/ Broken)

(* A message that an Edge Router sent is published on each of its topics,  *)
(* or refused by Join on that topic: one that fails does not keep the      *)
(* message from the others.                                                *)
ForwardedIsPublished ==
    \A x \in Msgs : \A t \in TopicsOf(x) :
        source[x] \in Mrns ~> (<<x, t>> \in published \cup dropped \/ crashed # "no")

(* An expired message is deleted from every mailbox that edgeRouters leads *)
(* to, whether its Edge Router is connected or not ("Function for garbage  *)
(* collection of expired messages", router.go:194).                        *)
CollectedWhileRegistered ==
    \A o \in Conns, x \in Msgs :
        x \in queue[o] \cap expired ~> (x \notin queue[o] \/ o \notin Registered \/ Broken)
=============================================================================
