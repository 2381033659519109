----------------------------- MODULE RouterLink -----------------------------
(***************************************************************************)
(* The link of an Edge Router to its Router (edgerouter/edgerouter.go):    *)
(* the outgoing channel, the goroutines handleOutgoingMessages ("writer")  *)
(* and handleIncomingMessages ("reader"), and the websocket that both use  *)
(* and that both replace when it fails. The Router's side is the loop in   *)
(* handleHttpConnection of router/router.go, reduced to what the link      *)
(* shows of it.                                                            *)
(*                                                                         *)
(* Connections are numbered in the order in which they are dialled. The    *)
(* field routerWs is read by both goroutines without a lock; wsMu is held  *)
(* only by the one that runs TryConnectRouter. The Router makes an object  *)
(* for the Edge Router on every connection, as no reconnect token is sent; *)
(* the object is known by the number of its connection.                    *)
(***************************************************************************)
EXTENDS Naturals, Sequences, SequencesExt

CONSTANTS
    Subscribes,     \* Subscribe messages that Agents' handlers put on the channel
    Unsubscribes,   \* Unsubscribe messages
    Sends,          \* application messages
    Topic,          \* the subject or MRN of each Subscribe and Unsubscribe
    Topics,
    ReceiveReq,     \* the Receive message that answers a Notify
    Hello,          \* the Connect message
    Notify,         \* the Notify message
    None,
    ChannelBufSize, \* the capacity of the outgoing channel
    MaxConns,       \* bound: connections dialled
    MaxFaults       \* bound: broken connections, late pongs, failed Subscribes, Notifys

Requests == Subscribes \cup Unsubscribes \cup Sends

ASSUME LinkAssumption ==
    /\ Topic \in [Subscribes \cup Unsubscribes -> Topics]
    /\ ChannelBufSize \in Nat \ {0} /\ MaxConns \in Nat \ {0} /\ MaxFaults \in Nat
    /\ Subscribes \cap Unsubscribes = {}
    /\ None \notin Requests \cup {ReceiveReq, "writer", "reader"}
    /\ ReceiveReq \notin Requests
    /\ Hello \notin Requests \cup {ReceiveReq, Notify} /\ Notify \notin Requests \cup {ReceiveReq}

VARIABLES
    chan,       \* outgoingChannel
    pc,         \* where the writer and the reader are
    hand,       \* the message each of them has in hand
    wsMu,       \* who holds wsMu, or None
    ws,         \* routerWs, 0 for nil
    readWs,     \* the connection the reader has called Read on
    await,      \* keys of awaitResponse
    alive,      \* the connections that work
    dialled,    \* the number of connections dialled
    up,         \* per connection: messages on their way to the Router
    down,       \* per connection: messages on their way to the Edge Router
    greeted,    \* the connections whose Connect the Router has accepted
    subscriber, \* per topic: the object the Router has as a subscriber, 0 for none
    faults,     \* the number of faults so far
    offered,    \* history: requests that were put on the channel by a handler
    latest,     \* history: per topic, the last of them, or None
    written,    \* history: requests that were written to some connection
    smooth      \* history: no write has failed and no Subscribe was refused

edge    == <<chan, pc, hand, wsMu, ws, readWs, await>>
network == <<alive, dialled, up, down>>
router  == <<greeted, subscriber>>
vars    == <<edge, network, router, faults, offered, latest, written, smooth>>

Goroutines == {"writer", "reader"}
ConnIds == 1..MaxConns
Home(g) == IF g = "writer" THEN "take" ELSE "read"
Response == [to : Requests \cup {Hello, ReceiveReq}, good : BOOLEAN]

TypeOK ==
    /\ chan \in Seq(Requests \cup {ReceiveReq}) /\ Len(chan) <= ChannelBufSize
    /\ pc \in [Goroutines -> {"take", "write", "expect", "pushBack", "read", "busy", "put",
                              "lock", "ping", "dial", "hello", "welcome"}]
    /\ hand \in [Goroutines -> Requests \cup {ReceiveReq, None}]
    /\ wsMu \in Goroutines \cup {None}
    /\ ws \in 0..MaxConns /\ readWs \in 0..MaxConns
    /\ await \subseteq Subscribes \cup Unsubscribes
    /\ alive \subseteq ConnIds
    /\ dialled \in 0..MaxConns
    /\ up \in [ConnIds -> Seq(Requests \cup {Hello, ReceiveReq})]
    /\ down \in [ConnIds -> Seq(Response \cup {Notify})]
    /\ greeted \subseteq ConnIds
    /\ subscriber \in [Topics -> 0..MaxConns]
    /\ faults \in 0..MaxFaults
    /\ offered \subseteq Requests /\ written \subseteq Requests
    /\ smooth \in BOOLEAN
    /\ latest \in [Topics -> Subscribes \cup Unsubscribes \cup {None}]

(* The Edge Router starts without a Router, or connected to one. *)
Init ==
    /\ chan = <<>>
    /\ pc = [g \in Goroutines |-> Home(g)]
    /\ hand = [g \in Goroutines |-> None]
    /\ wsMu = None
    /\ ws \in {0, 1} /\ readWs = ws
    /\ await = {}
    /\ dialled = ws /\ alive = 1..ws /\ greeted = 1..ws
    /\ up = [k \in ConnIds |-> <<>>]
    /\ down = [k \in ConnIds |-> <<>>]
    /\ subscriber = [t \in Topics |-> 0]
    /\ faults = 0
    /\ offered = {} /\ written = {}
    /\ latest = [t \in Topics |-> None] /\ smooth = TRUE

Goto(g, place) == pc' = [pc EXCEPT ![g] = place]

(* Faulty variant: the channel has no bound. *)
PutUnbounded(r) == chan' = Append(chan, r)

(* A message is put on the channel, which blocks while it is full. *)
Put(r) ==
    /\ Len(chan) < ChannelBufSize
    /\ chan' = Append(chan, r)

Fault ==
    /\ faults < MaxFaults
    /\ faults' = faults + 1

(* An Agent's handler puts a request on the channel. *)
Offer(r) ==
    /\ r \notin offered
    /\ Put(r)
    /\ offered' = offered \cup {r}
    /\ latest' = [t \in Topics |->
                    IF r \in Subscribes \cup Unsubscribes /\ Topic[r] = t THEN r ELSE latest[t]]
    /\ UNCHANGED <<pc, hand, wsMu, ws, readWs, await, network, router, faults, written, smooth>>

(* A connection breaks: from here on reads and writes on it fail. *)
Break(k) ==
    /\ k \in alive
    /\ Fault
    /\ alive' = alive \ {k}
    /\ UNCHANGED <<edge, dialled, up, down, router, offered, latest, written, smooth>>
-----------------------------------------------------------------------------
(* handleOutgoingMessages. *)

Take ==
    /\ pc["writer"] = "take" /\ chan # <<>>
    /\ hand' = [hand EXCEPT !["writer"] = Head(chan)]
    /\ chan' = Tail(chan)
    /\ Goto("writer", "write")
    /\ UNCHANGED <<wsMu, ws, readWs, await, network, router, faults, offered, latest, written, smooth>>

(* The response is expected only after the message has been written. *)
WriteOk ==
    LET r == hand["writer"] IN
    /\ pc["writer"] = "write" /\ ws \in alive
    /\ up' = [up EXCEPT ![ws] = Append(@, r)]
    /\ written' = written \cup ({r} \cap Requests)
    /\ \/ /\ r \in Subscribes \cup Unsubscribes
          /\ Goto("writer", "expect")
          /\ UNCHANGED hand
       \/ /\ r \in Sends \cup {ReceiveReq}
          /\ Goto("writer", "take")
          /\ hand' = [hand EXCEPT !["writer"] = None]
    /\ UNCHANGED <<chan, wsMu, ws, readWs, await, alive, dialled, down, router, faults, offered, latest, smooth>>

Expect ==
    /\ pc["writer"] = "expect"
    /\ await' = await \cup {hand["writer"]}
    /\ hand' = [hand EXCEPT !["writer"] = None]
    /\ Goto("writer", "take")
    /\ UNCHANGED <<chan, wsMu, ws, readWs, network, router, faults, offered, latest, written, smooth>>

(* Faulty variant: the message is not put back on the channel. *)
WriteFailDrops ==
    /\ pc["writer"] = "write" /\ ws \notin alive
    /\ hand' = [hand EXCEPT !["writer"] = None]
    /\ Goto("writer", "lock")
    /\ UNCHANGED <<chan, wsMu, ws, readWs, await, network, router, faults, offered, latest, written, smooth>>

WriteFail ==
    /\ pc["writer"] = "write" /\ ws \notin alive
    /\ Goto("writer", "pushBack")
    /\ UNCHANGED <<chan, hand, wsMu, ws, readWs, await, network, router, faults, offered, latest, written, smooth>>

(* The message goes to the end of the channel that the writer alone        *)
(* empties.                                                                *)
PushBack ==
    /\ pc["writer"] = "pushBack"
    /\ Put(hand["writer"])
    /\ hand' = [hand EXCEPT !["writer"] = None]
    /\ Goto("writer", "lock")
    /\ smooth' = FALSE
    /\ UNCHANGED <<wsMu, ws, readWs, await, network, router, faults, offered, latest, written>>
-----------------------------------------------------------------------------
(* handleIncomingMessages. *)

(* A response removes its request from awaitResponse; a request that got   *)
(* an error is put on the channel again, if it was found there.            *)
ReadResponse ==
    LET m == Head(down[readWs]) IN
    /\ pc["reader"] = "read" /\ readWs \in alive /\ down[readWs] # <<>>
    /\ m # Notify
    /\ down' = [down EXCEPT ![readWs] = Tail(@)]
    /\ await' = await \ {m.to}
    /\ \/ /\ m.to \in await /\ ~m.good
          /\ hand' = [hand EXCEPT !["reader"] = m.to]
          /\ Goto("reader", "put")
       \/ /\ m.to \notin await \/ m.good
          /\ Goto("reader", "busy")
          /\ UNCHANGED hand
    /\ UNCHANGED <<chan, wsMu, ws, readWs, alive, dialled, up, router, faults, offered, latest, written, smooth>>

ReadNotify ==
    /\ pc["reader"] = "read" /\ readWs \in alive /\ down[readWs] # <<>>
    /\ Head(down[readWs]) = Notify
    /\ down' = [down EXCEPT ![readWs] = Tail(@)]
    /\ hand' = [hand EXCEPT !["reader"] = ReceiveReq]
    /\ Goto("reader", "put")
    /\ UNCHANGED <<chan, wsMu, ws, readWs, await, alive, dialled, up, router, faults, offered, latest, written, smooth>>

ReaderPut ==
    /\ pc["reader"] = "put"
    /\ Put(hand["reader"])
    /\ hand' = [hand EXCEPT !["reader"] = None]
    /\ Goto("reader", "busy")
    /\ UNCHANGED <<wsMu, ws, readWs, await, network, router, faults, offered, latest, written, smooth>>

(* The messages of the response are in the mailboxes of their Agents, and  *)
(* the reader calls Read on what routerWs is now.                          *)
ReadNext ==
    /\ pc["reader"] = "busy"
    /\ readWs' = ws
    /\ Goto("reader", "read")
    /\ UNCHANGED <<chan, hand, wsMu, ws, await, network, router, faults, offered, latest, written, smooth>>

(* Faulty variant: the reader leaves it to the writer to reconnect. *)
ReadFailWaits ==
    /\ pc["reader"] = "read" /\ readWs \notin alive
    /\ readWs' = ws
    /\ UNCHANGED <<chan, pc, hand, wsMu, ws, await, network, router, faults, offered, latest, written, smooth>>

ReadFail ==
    /\ pc["reader"] = "read" /\ readWs \notin alive
    /\ Goto("reader", "lock")
    /\ UNCHANGED <<chan, hand, wsMu, ws, readWs, await, network, router, faults, offered, latest, written, smooth>>
-----------------------------------------------------------------------------
(* TryConnectRouter, run by either goroutine with wsMu held. *)

(* Faulty variant: wsMu is not locked. *)
LockNothing(g) ==
    /\ pc[g] = "lock"
    /\ wsMu' = g
    /\ Goto(g, "ping")
    /\ UNCHANGED <<chan, hand, ws, readWs, await, network, router, faults, offered, latest, written, smooth>>

Lock(g) ==
    /\ pc[g] = "lock" /\ wsMu = None
    /\ wsMu' = g
    /\ Goto(g, "ping")
    /\ UNCHANGED <<chan, hand, ws, readWs, await, network, router, faults, offered, latest, written, smooth>>

(* TryConnectRouter returns: the goroutine goes back to its loop, where    *)
(* the reader calls Read on what routerWs is now.                          *)
ReturnTo(g) ==
    /\ wsMu' = None
    /\ Goto(g, Home(g))
    /\ readWs' = IF g = "reader" THEN ws ELSE readWs

(* A pong is seen only by a Read that is in progress on the connection. *)
PongPossible(g) ==
    /\ ws \in alive
    /\ g = "writer" /\ pc["reader"] = "read" /\ readWs = ws

PingOk(g) ==
    /\ pc[g] = "ping" /\ PongPossible(g)
    /\ ReturnTo(g)
    /\ UNCHANGED <<chan, hand, ws, await, network, router, faults, offered, latest, written, smooth>>

(* No pong within the timeout: the connection is closed. *)
PingFail(g) ==
    /\ pc[g] = "ping"
    /\ \/ ~PongPossible(g) /\ UNCHANGED faults
       \/ PongPossible(g) /\ Fault
    /\ alive' = alive \ {ws}
    /\ Goto(g, "dial")
    /\ UNCHANGED <<chan, hand, wsMu, ws, readWs, await, dialled, up, down, router, offered, latest, written, smooth>>

(* A failed attempt to dial changes nothing and is repeated. *)
Dial(g) ==
    /\ pc[g] = "dial" /\ dialled < MaxConns
    /\ dialled' = dialled + 1
    /\ ws' = dialled + 1
    /\ alive' = alive \cup {dialled + 1}
    /\ Goto(g, "hello")
    /\ UNCHANGED <<chan, hand, wsMu, readWs, await, up, down, router, faults, offered, latest, written, smooth>>

(* connectMMTPToRouter: an error is logged, and TryConnectRouter returns.  *)
SayHello(g) ==
    /\ pc[g] = "hello"
    /\ \/ /\ ws \in alive
          /\ up' = [up EXCEPT ![ws] = Append(@, Hello)]
          /\ Goto(g, "welcome")
          /\ UNCHANGED <<wsMu, readWs>>
       \/ /\ ws \notin alive
          /\ ReturnTo(g)
          /\ UNCHANGED up
    /\ UNCHANGED <<chan, hand, ws, await, alive, dialled, down, router, faults, offered, latest, written, smooth>>

(* The next message on the connection is taken for the answer. *)
Welcome(g) ==
    /\ pc[g] = "welcome"
    /\ \/ /\ ws \in alive /\ down[ws] # <<>>
          /\ down' = [down EXCEPT ![ws] = Tail(@)]
       \/ /\ ws \notin alive
          /\ UNCHANGED down
    /\ ReturnTo(g)
    /\ UNCHANGED <<chan, hand, ws, await, alive, dialled, up, router, faults, offered, latest, written, smooth>>
-----------------------------------------------------------------------------
(* The Router. *)

Answer(k, r, ok) == down' = [down EXCEPT ![k] = Append(@, [to |-> r, good |-> ok])]

(* The first message on a connection has to be a Connect, or the Router    *)
(* closes the connection.                                                  *)
RouterGreet(k) ==
    /\ up[k] # <<>> /\ k \notin greeted
    /\ \/ /\ Head(up[k]) = Hello
          /\ up' = [up EXCEPT ![k] = Tail(@)]
          /\ greeted' = greeted \cup {k}
          /\ Answer(k, Hello, TRUE)
          /\ UNCHANGED alive
       \/ /\ Head(up[k]) # Hello
          /\ up' = [up EXCEPT ![k] = <<>>]
          /\ alive' = alive \ {k}
          /\ UNCHANGED <<greeted, down>>
    /\ UNCHANGED <<edge, dialled, subscriber, faults, offered, latest, written, smooth>>

(* Faulty variant: an Unsubscribe leaves the subscriber in place. *)
RouterHandleKeeps(k) ==
    LET r == Head(up[k]) IN
    /\ up[k] # <<>> /\ k \in greeted
    /\ up' = [up EXCEPT ![k] = Tail(@)]
    /\ \/ /\ r \in Subscribes
          /\ subscriber' = [subscriber EXCEPT ![Topic[r]] = k]
          /\ Answer(k, r, TRUE)
       \/ /\ r \notin Subscribes
          /\ Answer(k, r, TRUE)
          /\ UNCHANGED subscriber
    /\ UNCHANGED <<edge, alive, dialled, greeted, faults, offered, latest, written, smooth>>

(* handleSubscribe enters the object of the connection under the Edge      *)
(* Router's MRN; handleUnsubscribe removes whatever object is there. The   *)
(* Router goes on with what it has read from a broken connection.          *)
RouterHandle(k) ==
    LET r == Head(up[k]) IN
    /\ up[k] # <<>> /\ k \in greeted
    /\ up' = [up EXCEPT ![k] = Tail(@)]
    /\ \/ /\ r \in Subscribes
          /\ subscriber' = [subscriber EXCEPT ![Topic[r]] = k]
          /\ Answer(k, r, TRUE)
       \/ /\ r \in Unsubscribes
          /\ subscriber' = [subscriber EXCEPT ![Topic[r]] = 0]
          /\ Answer(k, r, TRUE)
       \/ /\ r \notin Subscribes \cup Unsubscribes
          /\ Answer(k, r, TRUE)
          /\ UNCHANGED subscriber
    /\ UNCHANGED <<edge, alive, dialled, greeted, faults, offered, latest, written, smooth>>

(* The topic cannot be joined. *)
RouterError(k) ==
    /\ up[k] # <<>> /\ k \in greeted /\ Head(up[k]) \in Subscribes
    /\ Fault
    /\ up' = [up EXCEPT ![k] = Tail(@)]
    /\ Answer(k, Head(up[k]), FALSE)
    /\ smooth' = FALSE
    /\ UNCHANGED <<edge, alive, dialled, router, offered, latest, written>>

(* The messages that were on a broken connection are lost. *)
RouterLose(k) ==
    /\ up[k] # <<>> /\ k \notin alive
    /\ up' = [up EXCEPT ![k] = <<>>]
    /\ UNCHANGED <<edge, alive, dialled, down, router, faults, offered, latest, written, smooth>>

(* The notifier of the object announces messages for a subscribed topic. *)
RouterNotify(k) ==
    /\ k \in alive \cap greeted /\ \E t \in Topics : subscriber[t] = k
    /\ Fault
    /\ down' = [down EXCEPT ![k] = Append(@, Notify)]
    /\ UNCHANGED <<edge, alive, dialled, up, router, offered, latest, written, smooth>>
-----------------------------------------------------------------------------
Writer == Take \/ WriteOk \/ WriteFail \/ Expect \/ PushBack
Reader == ReadResponse \/ ReadNotify \/ ReaderPut \/ ReadNext \/ ReadFail
TryConnectRouter(g) ==
    Lock(g) \/ PingOk(g) \/ PingFail(g) \/ Dial(g) \/ SayHello(g) \/ Welcome(g)
Router(k) == RouterGreet(k) \/ RouterHandle(k) \/ RouterLose(k)

Next ==
    \/ \E r \in Requests : Offer(r)
    \/ Writer \/ Reader
    \/ \E g \in Goroutines : TryConnectRouter(g)
    \/ \E k \in ConnIds : Router(k) \/ RouterError(k) \/ RouterNotify(k) \/ Break(k)

Spec == Init /\ [][Next]_vars

(* The goroutines and the Router run, a mutex does not starve those who    *)
(* wait, and a Router is found when one is dialled often enough.           *)
Fairness ==
    /\ SF_vars(Writer \/ TryConnectRouter("writer"))
    /\ SF_vars(Reader \/ TryConnectRouter("reader"))
    /\ \A k \in ConnIds : WF_vars(Router(k))

FairSpec == Spec /\ Fairness
-----------------------------------------------------------------------------
(* The properties. *)

(* No request that a handler has put on the channel disappears inside the  *)
(* Edge Router: it is on the channel, in a goroutine's hand, or has been   *)
(* written to a connection, whatever writes fail and whoever reconnects.   *)
NothingDropped ==
    \A r \in offered : r \in written \/ r \in ToSet(chan) \/ \E g \in Goroutines : hand[g] = r

(* There is never a second working connection to the Router, although both *)
(* goroutines replace the connection and read routerWs without a lock.     *)
OneConnection == alive \subseteq {ws}

(* The channel and the connections are empty and both goroutines wait.     *)
Quiescent ==
    /\ chan = <<>> /\ ws \in alive
    /\ pc = [g \in Goroutines |-> Home(g)]
    /\ \A k \in ConnIds : up[k] = <<>> /\ down[k] = <<>>

(* As long as no write fails, no Subscribe is refused and no connection is *)
(* replaced, the Router comes to hold the Edge Router as a subscriber of   *)
(* exactly those topics whose latest request was a Subscribe, however the  *)
(* requests of the handlers and the Router's responses are interleaved.    *)
SettledAgreement ==
    Quiescent /\ smooth /\ dialled = 1 =>
        \A t \in Topics : subscriber[t] = IF latest[t] \in Subscribes THEN ws ELSE 0

(* What awaitResponse and the comment at its use say: a request that the   *)
(* Router answers with an error is sent again. So as long as no connection *)
(* is replaced, a topic that was only ever subscribed to is in the end     *)
(* subscribed to.                                                          *)
RefusedIsResent ==
    Quiescent /\ dialled = 1 =>
        \A t \in Topics :
            /\ latest[t] # None
            /\ \A r \in offered \cap Unsubscribes : Topic[r] # t
            => subscriber[t] = ws

(* What the comment in TryConnectRouter says: it runs until a router has   *)
(* been found; once the Router has accepted the Connect it returns.        *)
FoundRouterReturns ==
    \A g \in Goroutines :
        (pc[g] = "welcome" /\ ws \in greeted) ~> (pc[g] # "welcome" \/ ws \notin alive)

(* Both goroutines wait for room on the channel, which only the writer     *)
(* empties.                                                                *)
Jammed == pc["writer"] = "pushBack" /\ pc["reader"] = "put" /\ Len(chan) = ChannelBufSize

(* A broken connection is replaced: one of the goroutines finds out, and   *)
(* neither waits for the other to do it. The one thing that can keep them  *)
(* from it is a full channel: the writer puts a message back on it after a *)
(* failed write while the reader puts one there too.                       *)
LinkIsRestored == (ws \notin alive) ~> (ws \in alive \/ Jammed)
=============================================================================
