# The MMS in TLA+

TLA+ modules for the Maritime Messaging Service: the Edge Router, its link to a
Router, its shutdown, the Router, and the mailbox (`consumer.Consumer`) that both
routers keep for whoever is connected to them. TLC checks the modules on small
instances; TLAPS proves every safety invariant that the runs check, for every
number of connections, messages and topics, and that the mailbox implements an
abstract one.

    tlc -workers 2 -config Consumer_safety.cfg MCConsumer
    tlapm ConsumerProofs.tla
    tlapm RouterProofs.tla          (likewise AgentSessionsProofs, RouterLinkProofs, ShutdownProofs)

`PROJECT.json` lists the runs, the source lines of every definition, the mutants
that show each property can fail, the hazards and the findings.

## 1. The system

Agents (ships, shore services) connect to an **Edge Router** by websocket. The
Edge Router is connected to one **Router** by websocket. Routers form a
publish/subscribe network (libp2p). All speak MMTP, protobuf messages.

| Part | State | Operations | Hard behaviour |
|---|---|---|---|
| Consumer (`consumer/consumer.go`) | `Messages` under `MsgMu`, `Notifications` under `NotifyMu`, `ReconnectToken` | `QueueMessage`, `BulkQueueMessages`, `HandleReceive`, `HandleFetch`, `HandleDisconnect`, `CheckNewMessages`/`notify` | writes to the network under a lock, failing writes after the maps have changed, two sessions on one object, nested locks |
| Edge Router: sessions (`edgerouter.go` 395-644) | `agents` (token to Agent), `mrnToAgent`, fields of the Agents (no lock) | connect, reconnect, disconnect | critical sections with gaps between them, a reconnection before the old connection is found dead |
| Edge Router: routing (646-900, 933-1055) | `subscriptions` under `subMu`, `directMessages` | (un)subscribe to a subject or to direct messages, send, messages from the Router | `subMu` held while the channel is full, snapshot of subscribers used after the unlock |
| Edge Router: link (175-209, 291-331, 933-1095) | `outgoingChannel`, `routerWs`, `wsMu`, `awaitResponse` | two goroutines write, read and reconnect | both replace the connection, unlocked reads of `routerWs`, responses that come too early, a message put back on the channel by its only consumer |
| Garbage collection (339-362; `router.go` 194-217) | none of its own | deletes expired messages every 5 minutes | stale clock, which mailboxes it reaches |
| Router: sessions (`router.go` 219-482) | `edgeRouters` by MRN under `erMu`, tokens of the objects | connect, reconnect, disconnect | error branches that fall through, two objects of one Edge Router |
| Router: routing and pub/sub (484-649, 682-852) | `subscriptions` under `subMu`, their `Subscribers` under `subsMu`, `topicHandles`, two channels | subscribe, unsubscribe, send, publish, receive | locks kept on error paths, a map used with and without its lock, subscriptions that are not there |
| Authentication (`utils/auth`) | none | certificate, MRN and signature checks | decision tables |
| Edge Router: shutdown (211-289, 1375-1380) | context, `outgoingChannel`, wait group | cancel, Disconnect, close, wait | send on a closed channel, goroutines that wait for a lock or a Router |
| Router: shutdown (184-191) | context, two channels | close, wait | send on a closed channel |
| `utils/rw`, `errMsg`, `cert`, `packet`, `revocation`, `genkey`, metrics and health servers, libp2p set-up, generated `mmtp` | none that the protocol depends on | I/O | - |

What makes each part correct: a mailbox neither loses nor repeats a message and
announces what it holds; a message reaches only Agents it is meant for; a token
leads back to its Agent until that Agent disconnects; what Agents ask for
reaches the Router; the link is restored, alone, and drops nothing; a Router
passes each message on to those that subscribed and to the network, and not back
to its sender; a process that is told to stop stops; nobody waits for ever.

## 2. The modules

| Module | What it is |
|---|---|
| `Mailbox` | abstract specification: a message is deposited once, waits, and is released to the consumer or given up after its expiry |
| `Consumer` | the mailbox as it is coded; implements `Mailbox` |
| `ConsumerProofs` | theorems about `Consumer` |
| `AgentSessions` | Agents of an Edge Router: sessions, subscriptions, routing |
| `AgentSessionsProofs` | theorems about `AgentSessions` |
| `RouterLink` | the Edge Router's two link goroutines, the websocket, and the Router at its other end |
| `RouterLinkProofs` | theorems about `RouterLink` |
| `Router` | the Router: sessions of Edge Routers, subscriptions, local routing, publishing and receiving on topics |
| `RouterProofs` | theorems about `Router` |
| `Shutdown` | the goroutines of an Edge Router from the cancellation of the context to the end of the process |
| `ShutdownProofs` | theorems about `Shutdown` |
| `MCConsumer`, `MCAgentSessions`, `MCRouterLink`, `MCRouter`, `MCShutdown` | instances for TLC |

`Router` and `AgentSessions` use a mailbox as the set that `Mailbox` promises;
`RouterLink` has the Router as a queue of requests with answers, `AgentSessions`
has the link as a channel that is emptied. Each of these simplifications is the
subject of another module.

Definitions named "Faulty variant" are not part of a specification: each is a
plausible bug, used as a mutant of the definition that follows it.

### Consumer

One object, several goroutines: one per `QueueMessage` call (`qpc`), and per
session a handler (`pc`) and a notifier (`npc`), and the owner's garbage
collector (`gpc`). A critical section that cannot block is one step. The others
are split where they wait: `ReceiveLock` takes `MsgMu` and reads the clock,
`ReceiveTake` takes and releases `NotifyMu` inside it, `ReceiveWriteOk` and
`ReceiveWriteFail` are the write with `MsgMu` held, `BulkQueueMessages` takes
`MsgMu` again. `NotifyLock` keeps `NotifyMu` until the write is over.
The two kinds of Receive differ as in the code: with a filter (`req # {}`) the
messages leave the map before the write and are put back if it fails, expired or
not; without one, unexpired messages are sent and the whole map is cleared after
the write. A websocket works (`up`) or has broken for good.

Histories: `told` (announced by a Notify or a Fetch response), `suppressed` (the
notification was deleted by a Receive), `delivered` (a response that carried it
was written), `discarded` (deleted after expiry). "Delivered" means that the
write succeeded; whether the peer read it is beyond the code.

Abstractions: a message is its UUID and expiry, and is queued once. A Router can
queue a message with several recipients again under one UUID after it has been
received (`ReceivedOnce` of `Router` says when it cannot). `notify` and the responses carry sets of messages. Writing ends
with or without an error.

### AgentSessions

The Agent that connection `c` creates, and the token it draws, are both called
`c`. `Connect` to `RespondOk` are the steps of `handleHttpConnection` between
its locks: look the token up, make an Agent, enter it in `mrnToAgent`, draw a
token, store the token *as the Agent's field holds it by then*, answer with the
token *as the field holds it when the response is encoded*. `Disconnect`,
`ForgetMrn`, `ForgetToken` are the three steps of leaving. The outgoing channel
is a counter with a capacity, and `asked` records the last request put on it for
each subject and MRN. A mailbox is a set: that is what `Mailbox` promises.
Clients present tokens that they were answered with, under the MRN they were
answered for. An MRN stands for an authenticated Agent, `NoMrn` for an anonymous
one; `Refuse` is every way to be turned away. The `Interests` slice is left out:
no routing decision reads it. The Edge Router is assumed to be served with TLS:
`handleSubscribeDirect` reads `request.TLS`, which is nil otherwise.

### RouterLink

The writer (`handleOutgoingMessages`), the reader (`handleIncomingMessages`),
`TryConnectRouter` run by either with `wsMu` held, and per connection one queue
in each direction. Requests are the Subscribe, Unsubscribe and Send messages
that Agents' handlers put on the channel. `readWs` is the connection the reader
has called Read on; `routerWs` (`ws`) may have been replaced since. A ping
succeeds only if the other goroutine is reading on the same connection, since
the websocket library sees a pong only inside a Read. The Router takes the first
message of a connection for the Connect, makes a new object for it (no reconnect
token is ever sent, `edgerouter.go` 219), and enters that object as the
subscriber. It answers every request; it may refuse a Subscribe when the topic
cannot be joined. A Router that refuses the Connect is left out.

### Router

One Router and the handlers of its connections. As in `AgentSessions`, the object
that connection `c` creates and the token it draws are called `c`. `Connect`,
`Lookup`, `MintToken`, `Register`, `RespondOk` are the steps of
`handleHttpConnection` between its locks. `Lookup` has the error branches as they
are: with a token that is not the stored one the error response is sent and the
handler goes on with the stored object; with no stored object it goes on with a
nil one, and the panic, which the HTTP server recovers, ends the handler.
`HandlerExit` leaves everything where it is: the code removes nothing.

A Subscribe is `SubscribeLock` (everything under `subMu` up to `Join`),
`SubscribeJoin`, `SubscribeStore` (enter the topic in `topicHandles`, add the
subscriber, start `handleSubscription`). `handleOutgoingMessages` has the same
three steps per topic without the lock: `PublishLook`, `PublishJoin`,
`PublishStore`. `Join` fails for a topic that is joined already. Go maps are not
safe for concurrent use; where a write of `topicHandles` can overlap with another
access, `TopicHandlesRace` lets the runtime end the process.

`FanOut` is one recipient, or the subject, of `handleSend`. A message without a
UUID cannot be queued, and the code then returns with locks held: `erMu` and the
`subsMu` of the recipient's subscription, or `subMu`. They are recorded in
`leaked` and `leakedSubs`; a writer waits for them for ever, and a `sync.RWMutex`
lets no new reader in while a writer waits. A handler that needs such a `subsMu`
is `"stuck"`, with `subMu` held.

`RouteIncoming` is one recipient, or the subject, of `handleIncomingMessages`. A
topic that is not in `subscriptions` yields nil, and the panic ends the process.

Abstractions: the pub/sub service hands each message once to each subscription of
its topics; publishing on a joined topic and subscribing to it succeed. Messages
with no application message, an expiry beyond the limit, or neither recipients
nor a subject are not among `Msgs`: the code drops them. `Interests` is left out.
A critical section that reads `Subscribers` is one step even where `subMu` is
released before `subsMu` is taken: subscriptions are never removed from the map.

### Shutdown

Messages are counted, not told apart. A handler of an Agent is idle, waits for
`subMu`, holds it while it waits for the channel, sends without it, or routes
under it; the writer and the reader of the link are where they can block: at the
channel, at `wsMu`, in `TryConnectRouter`, at `subMu`. `Cancel` is `cancel()` in
`main`; then `StartEdgeRouter` disconnects, shuts the HTTP server down (which does
not wait for websockets) and closes the channel. A send on a closed channel is a
panic: it ends a handler, with whatever it has locked, and it ends the process in
the reader or the writer. `quiet` records whether, at the cancellation, no request
or notification was being passed on and the channel was empty.

Assumed of libraries: `net/http` recovers the panic of a handler; a websocket read
whose context is cancelled fails and closes the connection, a write may succeed.

## 3. The runs

| Run | Bounds | Shows |
|---|---|---|
| `consumer_safety` | 2 sessions, 3 messages (one expiring, one not, one without UUID), 2 clock values | types, `LockDiscipline`, `NothingLost`, `NothingTwice`, `ClearIsSafe`, `AnnouncedUnlessSuppressed`, and that `Consumer` implements `Mailbox` |
| `consumer_progress` | 1 session, 2 messages, 2 clock values | `QueueReturns`, `HandlersReturn`, `NotifiedOrNobodyThere`, `ExpiredIsCollected` |
| `sessions_routing` | 2 connections, 2 MRNs or none, 1 subject, a message to an MRN and one to the subject, channel of 1 | `NoMisdelivery`, `UpstreamFirst`, `TokenLeadsBack`, `ForgottenUnlessReconnected` |
| `sessions_progress` | the same with one MRN and one message | `HandlersReturn`, `CollectedWhileKnown` |
| `link_safety` | 2 Subscribes, 1 Unsubscribe, channel of 1, 9 connections, 1 fault | `NothingDropped`, `OneConnection`, `SettledAgreement`, `LinkIsRestored` |
| `router_safety` | 2 connections, 2 MRNs, 2 topics, a message with both as recipients and one with a subject, channels of 1, 2 requests | `RightMailboxes`, `ReceivedOnce`, `NilNeedsSecondRecipient`, `LockDiscipline`, `JoinedIsUsable`, `DropMeansSubscribed`, `NilOnlyAfterRestart`, `StaleOnlyAfterFreshConnect` |
| `router_progress` | the same with the first message and 1 request | `HandlersReturn`, `ForwardedIsPublished`, `CollectedWhileRegistered` |
| `shutdown` | 2 connections, channel of 2 | `CleanIfQuiet`, `ShutdownEnds` |
| `consumer_unannounced` | 2 sessions | **violated**: after an unfiltered Receive whose write fails, messages stay that no notifier will announce (comment at `consumer.go` 107) |
| `sessions_entry` | 2 connections, 1 MRN | **violated**: a Disconnect deletes the `mrnToAgent` entry of another, newer Agent (comment at `edgerouter.go` 596) |
| `link_refused` | 1 connection, 1 fault | **violated**: a refused Subscribe is not sent again if its response is read before `awaitResponse` is filled (comments at 120 and 966) |
| `link_found` | 4 connections, 1 fault | **violated**: the reader takes the response to the writer's Connect, and `TryConnectRouter` hangs with `wsMu` held (comment at 308) |

Why these bounds: the interesting cases of a mailbox are two sessions on one
object, so two are needed and more add nothing new in kind (and the theorems
cover every number); two messages tell "some" from "all"; one clock tick
separates expired from not. Progress needs two messages, one being announced while
the other is queued; one session already has its handler, its notifier, the
queueing goroutines and the collector wait for each other. Two connections give a reconnection with the old
handler still at work, two Agents under one MRN, and two Agents under different
ones. The channel has 1048576 places in the code (`ChannelBufSize`); what
matters is that it can be full, so it has one or two. `MaxConns` and `MaxFaults`
bound the number of dialled connections and of faults (broken connections, late
pongs, refused Subscribes; a Notify is counted too, to bound it).
`link_safety` allows more connections than one fault can use up, so
that the bound does not end the retries. In the Router two connections give two
sessions of one Edge Router or two Edge Routers, `MaxRequests` of 2 a subscription
of each of them or a subscription that is left again (3 pass as well, in four
times the time), and two topics a message of which only one recipient is known
here; one request is enough for the progress properties, where it makes
`handleSubscribe` and `handleOutgoingMessages` join one topic. A shutdown meets
two handlers so that one can hold `subMu` while another waits for it, and a
channel of 2 can be empty, half full or full. `link_safety`, the two Router runs
and `shutdown` do not check for deadlock: an idle link or Router that has used up
its bounds, a Router whose process has crashed or whose locks were left locked,
and an Edge Router that has ended are states where nothing more happens.

Fairness. Every goroutine takes its steps when it can, and Go's mutexes and
channels do not starve a waiter, hence strong fairness per goroutine. Timers
fire. A write ends: it fails at the latest when the transport gives up. Nothing
obliges clients to connect, ask or read, or connections to break. In
`AgentSessions` the channel is emptied (`Drain`), which holds as long as the
link works; `RouterLink` shows when it does not (`Jammed`, `link_found`). In
`Router` the handlers, `handleOutgoingMessages` and `messageGC` are fair; nothing
is assumed of `handleIncomingMessages` and of the network. In `Shutdown` the
goroutines are fair, and the Router closes the connection after the Disconnect,
as its `HandleDisconnect` does; if it does not, `StartEdgeRouter` waits at line
283 for ever.

What the Router runs say about its error paths. They are stated as the weakest
condition under which harm is done, so that the property holds of the code and
breaks when the harm spreads: locks are left locked only if an Edge Router sent a
message without a UUID (`LockDiscipline`), the process ends by a nil subscription
only through a message with several recipients (`NilNeedsSecondRecipient`), a
handler goes on with a nil object only for a token from before a restart
(`NilOnlyAfterRestart`), a message is kept from the network only if a subscriber's
handler joined its topic at the same time (`DropMeansSubscribed`), and a mailbox
that is filled but no longer reachable needs a Connect without a token
(`StaleOnlyAfterFreshConnect`), which is what the Edge Router always sends
(`edgerouter.go` 219).

What `TokenLeadsBack` allows. A Connect draws a token into the field of the Agent,
stores the field in `agents` and answers with the field, and other connections of
the Agent may change the field between any two of these. A client can so be
answered with a token that another connection has drawn, and that connection may
find the field changed once more when it stores it: the token is then never
entered, and the client cannot come back with it. It takes four connections of one
Agent (the first, and three that overlap in their Connects), more than
`sessions_routing` has; the attempt to prove a simpler property for every number
of connections brought it up, and TLC confirms the behaviour on an instance with
four. The property says exactly this much, and the theorem shows that nothing else
can go wrong: a client answered with the token its own connection drew can always
come back until the Agent disconnects.

Observed while checking, without a run of its own: a disconnected Agent of an Edge
Router stays a subscriber and its messages are out of the garbage collector's
reach; with three requests and two faults both goroutines of the link can wait
for room on the channel (`Jammed`), a case that `LinkIsRestored` excludes and the
bounds of `link_safety` do not reach; an Edge Router that is stopped with requests
under way can end by a panic or, if a handler panics with `subMu` held, not end.

## 4. What is proved

`ConsumerProofs.tla`, for all sets of messages and sessions, every assignment of
expiry times and every bound of the clock, under `ConsumerAssumption` only:

* `TypeCorrect`, `LocksBalanced`, `NoMessageLost`, `NoMessageTwice`,
  `ClearSafe`, `NoSilentMessage`: `Spec => []P` for the six invariants that
  `consumer_safety` checks;
* `Refinement`: `Spec => Box!MailboxSpec`, the pending messages of the abstract
  mailbox being those in the map and those in the hands of a filtered Receive
  that has not finished.

The argument rests on one inductive invariant, `IInv`, the conjunction of the
six and `ClockReadsPast`. They need each other: `NothingTwice` after
a filtered Receive follows from who holds `MsgMu` (`LockDiscipline`);
`NothingLost` across `clear(c.Messages)` follows from `ClearIsSafe`, which holds
because every change of the map takes `MsgMu`; that what is discarded has
expired, which the refinement needs, follows from the clocks read lying in the
past. `IInv` is shown to hold initially and to be preserved by each action, one
lemma per action or group of actions that touch the same state; the theorems
follow. For the refinement each action is matched with `Deposit`, `Release`,
`Advance` or a stutter.

`ShutdownProofs.tla`, for every set of connections and every capacity of the
channel, under `ShutdownAssumption` only: `TypeCorrect`, and `CleanShutdown`:
`Spec => []CleanIfQuiet`. The inductive invariant `Inv` adds to `TypeOK` that the
channel is closed only after the cancellation (`Order`), that `subMu` is held only
by a handler about to unlock it until the channel is closed (`HeldIfOpen`: hence a
quiet cancellation finds it free), that nothing panics before (`AliveIfOpen`), and
that what a quiet cancellation finds stays so (`StaysQuiet`), since nobody reads a
request or a notification with a cancelled context.

`RouterProofs.tla`, for all sets of connections, MRNs, topics and messages, every
capacity of the channels and any number of requests, under `RouterAssumption` only:
`TypeCorrect`, `DeliveredRightly` (`RightMailboxes`), `DeliveredOnce`
(`ReceivedOnce`), `NilIsRare` (`NilNeedsSecondRecipient`), `LocksHeld`
(`LockDiscipline`), `JoinedUsable` (`JoinedIsUsable`), `DroppedOnlyWhenSubscribed`
(`DropMeansSubscribed`), `NilObjectNeedsRestart` (`NilOnlyAfterRestart`),
`StaleNeedsFreshConnect` (`StaleOnlyAfterFreshConnect`). The inductive invariant
adds to them: whose objects the maps hold (`Objects`; hence a handler's own MRN is
that of its object, which keeps a message from its sender), what a handler works on
(`Requests`), that a message on its way in came from the network and is for a topic
with a subscription (`Arrivals`), and where a message can still be (`OnceOnly`: the
incoming channel, one handler's hands, one mailbox, never two of them; hence it is
received once), what `handleOutgoingMessages` has found (`Publishing`) and that an
MRN, once registered, stays so (`Registrations`; hence a token of this Router finds
an object).

`RouterLinkProofs.tla`, for all sets of requests and topics, every capacity of the
channel and every number of connections and faults, under `LinkAssumption` only:
`TypeCorrect`, `RequestsKept` (`NothingDropped`), `OneLink` (`OneConnection`),
`Settled` (`SettledAgreement`). `OneLink` needs who is inside `TryConnectRouter`
and that nothing works when a goroutine dials (`OneDials`); `RequestsKept` needs
when a goroutine has a message in hand (`Hands`). For `Settled` the invariant
follows the latest request about each topic on its way (`OnItsWay`): the last one
about the topic on the channel; or none there and it is in the writer's hand; or
not there either and it is the last one on the connection; or nowhere and the
Router has acted on it. Every step moves it along this way or leaves it in place,
because both queues are first-in first-out and, as long as no write fails and
nothing is refused, only new requests enter at their ends (`SmoothReader`). The
lemmas about the last message of a sequence after `Append` and `Tail` are stated
once, without reference to the state.

`AgentSessionsProofs.tla`, for all sets of connections, MRNs, subjects and messages
and every capacity of the channel, under `SessionsAssumption` only: `TypeCorrect`,
`DeliveredRightly` (`NoMisdelivery`), `AskedUpstream` (`UpstreamFirst`),
`TokensLeadBack` (`TokenLeadsBack`), `LeaversForgotten`
(`ForgottenUnlessReconnected`). The invariant says who an Agent's connections are
(`Owners`), that tokens and MRNs in the maps lead to the Agent they belong to
(`Entries`), that only Agents have flags, subscriptions and messages
(`OnlyAgents`), that who gets messages has asked for them (`Wanted`), that a message
in hand has the source it was given (`InHand`), who holds `subMu` while a Subscribe
is not yet forwarded (`Upstream`), that the newest token of an Agent is stored or
about to be (`Tokens`), and that an only connection is gone when its Agent has left
(`Leavers`). `StepKinds` and `WorkKinds` sort the 28 actions by what they change.

Each inductive invariant was checked by TLC on small instances,
for `AgentSessions` also with three connections, before it was proved. The bounds
`MaxConns`, `MaxFaults`, `MaxRequests` stay in the theorems as arbitrary constants:
they limit how long a behaviour is, and no proof uses how large they are.

Only model-checked: the liveness properties of all runs (`QueueReturns`,
`HandlersReturn`, `NotifiedOrNobodyThere`, `ExpiredIsCollected`,
`CollectedWhileKnown`, `LinkIsRestored`, `ForwardedIsPublished`,
`CollectedWhileRegistered`, `ShutdownEnds`), since fairness is beyond the prover,
and the four violations, which are counterexamples.

## 5. Not modelled, and the plan

Not modelled: the shutdown of the Router, which closes both channels before it
stops anything else (`router.go` 184-191); authentication beyond its outcome, a
stateless decision on a certificate; the fields of MMTP messages that decide
nothing here; encoding, metrics, health checks, libp2p set-up, key generation,
certificate files and revocation queries.

Plan, in this order:

1. Action properties with their proofs: what a step may never do to a token, a
   subscription or a lock of the Router that other handlers rely on.
2. An abstract specification of the Edge Router's subscriptions ("the Router is
   asked for what Agents subscribe to") that `AgentSessions` implements, with the
   step by step proof.
3. A composition of `RouterLink` and `Router` in which a reconnected Edge Router
   meets the object of its old connection, with the abstract specification "a
   subscriber that stays subscribed is offered every message".
