------------------------------ MODULE Consumer ------------------------------
(***************************************************************************)
(* One Consumer object of consumer/consumer.go: the mailbox that an Edge   *)
(* Router keeps for an Agent and that a Router keeps for an Edge Router.   *)
(*                                                                         *)
(* Goroutines that share the object:                                       *)
(*   - the callers of QueueMessage, one call per message;                  *)
(*   - for each websocket connection ("session") of the consumer, the      *)
(*     connection handler, which runs HandleReceive, HandleFetch and       *)
(*     HandleDisconnect, and the notifier, which runs CheckNewMessages.    *)
(*     A consumer that reconnects has two sessions on the same object      *)
(*     while the handler of the broken one has not noticed yet;            *)
(*   - the garbage collector messageGC of the owning router.               *)
(* They synchronise on MsgMu (map Messages) and NotifyMu (map              *)
(* Notifications). A critical section in which nothing blocks is one step; *)
(* the ones that write to a websocket, or take the second lock, while they *)
(* hold the first are split there.                                         *)
(***************************************************************************)
EXTENDS Naturals

CONSTANTS
    Msgs,       \* messages offered to QueueMessage
    NoUuid,     \* those of them that carry no UUID
    Expires,    \* the Expires field of each message's header
    Sessions,   \* the connections made by the consumer
    MaxTime,    \* bound: the clock stops here
    None        \* "no session holds the lock"

ASSUME ConsumerAssumption ==
    /\ NoUuid \subseteq Msgs
    /\ Expires \in [Msgs -> Nat]
    /\ MaxTime \in Nat
    /\ None \notin Sessions

VARIABLES
    now,            \* time.Now().Unix()
    messages,       \* keys of c.Messages
    notifications,  \* keys of c.Notifications
    msgMu,          \* the session that holds MsgMu across a step, or None
    notifyMu,       \* the session whose notifier holds NotifyMu, or None
    qpc,            \* per message: where its QueueMessage call is
    up,             \* the sessions whose websocket works
    pc,             \* per session: where its handler is
    req,            \* per session: the UUID filter of its Receive, {} for none
    batch,          \* per session: the messages its response carries
    nowRead,        \* per session: the time its Receive has read
    npc,            \* per session: where its notifier is
    gpc,            \* where messageGC is
    gcNow,          \* the time messageGC has read
    told,           \* history: messages a Notify or Fetch response announced
    suppressed,     \* history: messages whose notification a Receive deleted
    delivered,      \* history: messages that a Receive response carried
    discarded       \* history: messages deleted because they had expired

store    == <<messages, notifications>>
handlers == <<pc, req, batch, nowRead>>
gc       == <<gpc, gcNow>>
history  == <<told, suppressed, delivered, discarded>>
vars     == <<now, store, msgMu, notifyMu, qpc, up, handlers, npc, gc, history>>

HandlerStates ==
    {"off", "idle", "recv", "recvLocked", "recvWrite", "requeue", "fetch", "fetchWrite", "gone"}

TypeOK ==
    /\ now \in 0..MaxTime
    /\ messages \subseteq Msgs \ NoUuid
    /\ notifications \subseteq Msgs \ NoUuid
    /\ msgMu \in Sessions \cup {None}
    /\ notifyMu \in Sessions \cup {None}
    /\ qpc \in [Msgs -> {"ready", "stored", "done", "rejected"}]
    /\ \A m \in NoUuid : qpc[m] \in {"ready", "rejected"}
    /\ up \subseteq Sessions
    /\ pc \in [Sessions -> HandlerStates]
    /\ req \in [Sessions -> SUBSET (Msgs \ NoUuid)]
    /\ batch \in [Sessions -> SUBSET (Msgs \ NoUuid)]
    /\ nowRead \in [Sessions -> 0..MaxTime]
    /\ npc \in [Sessions -> {"off", "wait", "write"}]
    /\ gpc \in {"wait", "sweep"}
    /\ gcNow \in 0..MaxTime
    /\ told \subseteq Msgs \ NoUuid
    /\ suppressed \subseteq Msgs \ NoUuid
    /\ delivered \subseteq Msgs \ NoUuid
    /\ discarded \subseteq Msgs \ NoUuid

Init ==
    /\ now = 0
    /\ messages = {} /\ notifications = {}
    /\ msgMu = None /\ notifyMu = None
    /\ qpc = [m \in Msgs |-> "ready"]
    /\ up = {}
    /\ pc = [s \in Sessions |-> "off"]
    /\ req = [s \in Sessions |-> {}]
    /\ batch = [s \in Sessions |-> {}]
    /\ nowRead = [s \in Sessions |-> 0]
    /\ npc = [s \in Sessions |-> "off"]
    /\ gpc = "wait" /\ gcNow = 0
    /\ told = {} /\ suppressed = {} /\ delivered = {} /\ discarded = {}
-----------------------------------------------------------------------------
(* Time and the network. *)

Tick ==
    /\ now < MaxTime
    /\ now' = now + 1
    /\ UNCHANGED <<store, msgMu, notifyMu, qpc, up, handlers, npc, gc, history>>

(* The owning router has accepted a connection for this consumer: the      *)
(* handler enters its read loop and starts the notifier.                   *)
Attach(s) ==
    /\ pc[s] = "off"
    /\ up' = up \cup {s}
    /\ pc' = [pc EXCEPT ![s] = "idle"]
    /\ npc' = [npc EXCEPT ![s] = "wait"]
    /\ UNCHANGED <<now, store, msgMu, notifyMu, qpc, req, batch, nowRead, gc, history>>

(* The websocket breaks: from here on every read and write on it fails. *)
Drop(s) ==
    /\ s \in up
    /\ up' = up \ {s}
    /\ UNCHANGED <<now, store, msgMu, notifyMu, qpc, handlers, npc, gc, history>>
-----------------------------------------------------------------------------
(* QueueMessage: two critical sections, one per map. *)

(* Faulty variant: the boundary second counts as expired. *)
ExpiredAtBoundary(m, t) == t >= Expires[m]

ExpiredAt(m, t) == t > Expires[m]

QueueReject(m) ==
    /\ m \in NoUuid /\ qpc[m] = "ready"
    /\ qpc' = [qpc EXCEPT ![m] = "rejected"]
    /\ UNCHANGED <<now, store, msgMu, notifyMu, up, handlers, npc, gc, history>>

(* Faulty variant: the check for a missing UUID is gone. *)
QueueStoreUnchecked(m) ==
    /\ qpc[m] = "ready"
    /\ msgMu = None
    /\ messages' = messages \cup {m}
    /\ qpc' = [qpc EXCEPT ![m] = "stored"]
    /\ UNCHANGED <<now, notifications, msgMu, notifyMu, up, handlers, npc, gc, history>>

QueueStore(m) ==
    /\ m \notin NoUuid /\ qpc[m] = "ready"
    /\ msgMu = None
    /\ messages' = messages \cup {m}
    /\ qpc' = [qpc EXCEPT ![m] = "stored"]
    /\ UNCHANGED <<now, notifications, msgMu, notifyMu, up, handlers, npc, gc, history>>

QueueNotify(m) ==
    /\ qpc[m] = "stored"
    /\ notifyMu = None
    /\ notifications' = notifications \cup {m}
    /\ qpc' = [qpc EXCEPT ![m] = "done"]
    /\ UNCHANGED <<now, messages, msgMu, notifyMu, up, handlers, npc, gc, history>>
-----------------------------------------------------------------------------
(* CheckNewMessages and notify: NotifyMu is held across the write. *)

NotifyLock(s) ==
    /\ npc[s] = "wait"
    /\ notifyMu = None
    /\ notifications # {}
    /\ notifyMu' = s
    /\ npc' = [npc EXCEPT ![s] = "write"]
    /\ UNCHANGED <<now, store, msgMu, qpc, up, handlers, gc, history>>

NotifyWriteOk(s) ==
    /\ npc[s] = "write" /\ s \in up
    /\ told' = told \cup notifications
    /\ notifications' = {}
    /\ notifyMu' = None
    /\ npc' = [npc EXCEPT ![s] = "wait"]
    /\ UNCHANGED <<now, messages, msgMu, qpc, up, handlers, gc, suppressed, delivered, discarded>>

(* Faulty variant: the notifications are deleted although the write failed. *)
NotifyWriteFailForgets(s) ==
    /\ npc[s] = "write" /\ s \notin up
    /\ notifyMu' = None
    /\ notifications' = {}
    /\ npc' = [npc EXCEPT ![s] = "wait"]
    /\ UNCHANGED <<now, messages, msgMu, qpc, up, handlers, gc, history>>

(* Faulty variant: the error path returns without unlocking NotifyMu. *)
NotifyWriteFailLeaks(s) ==
    /\ npc[s] = "write" /\ s \notin up
    /\ npc' = [npc EXCEPT ![s] = "wait"]
    /\ UNCHANGED <<now, store, msgMu, notifyMu, qpc, up, handlers, gc, history>>

NotifyWriteFail(s) ==
    /\ npc[s] = "write" /\ s \notin up
    /\ notifyMu' = None
    /\ npc' = [npc EXCEPT ![s] = "wait"]
    /\ UNCHANGED <<now, store, msgMu, qpc, up, handlers, gc, history>>

(* Faulty variant: the notifier also returns when it finds nothing to say. *)
NotifierStopEarly(s) ==
    /\ npc[s] = "wait" /\ (pc[s] = "gone" \/ notifications = {})
    /\ npc' = [npc EXCEPT ![s] = "off"]
    /\ UNCHANGED <<now, store, msgMu, notifyMu, qpc, up, handlers, gc, history>>

(* The handler has returned and cancelled the notifier's context. *)
NotifierStop(s) ==
    /\ npc[s] = "wait" /\ pc[s] = "gone"
    /\ npc' = [npc EXCEPT ![s] = "off"]
    /\ UNCHANGED <<now, store, msgMu, notifyMu, qpc, up, handlers, gc, history>>
-----------------------------------------------------------------------------
(* HandleReceive. MsgMu is held from the lookup until the response is      *)
(* written; NotifyMu is taken inside it for the lookup only.               *)

ReadReceive(s, F) ==
    /\ pc[s] = "idle" /\ s \in up
    /\ pc' = [pc EXCEPT ![s] = "recv"]
    /\ req' = [req EXCEPT ![s] = F]
    /\ UNCHANGED <<now, store, msgMu, notifyMu, qpc, up, batch, nowRead, npc, gc, history>>

ReceiveLock(s) ==
    /\ pc[s] = "recv"
    /\ msgMu = None
    /\ msgMu' = s
    /\ nowRead' = [nowRead EXCEPT ![s] = IF req[s] = {} THEN now ELSE 0]
    /\ pc' = [pc EXCEPT ![s] = "recvLocked"]
    /\ UNCHANGED <<now, store, notifyMu, qpc, up, req, batch, npc, gc, history>>

(* The messages the response carries: the filtered ones that are stored,   *)
(* expired or not, or without a filter all those that have not expired.    *)
Found(s) ==
    IF req[s] # {}
    THEN req[s] \cap messages
    ELSE {m \in messages : ~ExpiredAt(m, nowRead[s])}

(* Faulty variant: MsgMu is released before the response is written. *)
ReceiveTakeUnlocks(s) ==
    /\ pc[s] = "recvLocked"
    /\ notifyMu = None
    /\ batch' = [batch EXCEPT ![s] = Found(s)]
    /\ messages' = IF req[s] # {} THEN messages \ Found(s) ELSE messages
    /\ notifications' = notifications \ Found(s)
    /\ suppressed' = suppressed \cup (notifications \cap Found(s))
    /\ pc' = [pc EXCEPT ![s] = "recvWrite"]
    /\ msgMu' = None
    /\ UNCHANGED <<now, notifyMu, qpc, up, req, nowRead, npc, gc, told, delivered, discarded>>

(* With a filter the messages leave the map before the response is         *)
(* written, without one they leave it after.                               *)
ReceiveTake(s) ==
    /\ pc[s] = "recvLocked"
    /\ notifyMu = None
    /\ batch' = [batch EXCEPT ![s] = Found(s)]
    /\ messages' = IF req[s] # {} THEN messages \ Found(s) ELSE messages
    /\ notifications' = notifications \ Found(s)
    /\ suppressed' = suppressed \cup (notifications \cap Found(s))
    /\ pc' = [pc EXCEPT ![s] = "recvWrite"]
    /\ UNCHANGED <<now, msgMu, notifyMu, qpc, up, req, nowRead, npc, gc, told, delivered, discarded>>

(* The handler is back in its read loop; its locals are gone. *)
Return(s) ==
    /\ pc' = [pc EXCEPT ![s] = "idle"]
    /\ req' = [req EXCEPT ![s] = {}]
    /\ batch' = [batch EXCEPT ![s] = {}]
    /\ nowRead' = [nowRead EXCEPT ![s] = 0]

(* Without a filter clear(c.Messages) also drops the expired messages,     *)
(* which the response did not carry.                                       *)
ReceiveWriteOk(s) ==
    /\ pc[s] = "recvWrite" /\ s \in up
    /\ delivered' = delivered \cup batch[s]
    /\ \/ /\ req[s] # {}
          /\ UNCHANGED <<messages, discarded>>
       \/ /\ req[s] = {}
          /\ messages' = {}
          /\ discarded' = discarded \cup (messages \ batch[s])
    /\ msgMu' = None
    /\ Return(s)
    /\ UNCHANGED <<now, notifications, notifyMu, qpc, up, npc, gc, told, suppressed>>

(* Faulty variant: BulkQueueMessages is called with MsgMu still locked. *)
ReceiveWriteFailLocked(s) ==
    /\ pc[s] = "recvWrite" /\ s \notin up
    /\ \/ /\ req[s] # {}
          /\ pc' = [pc EXCEPT ![s] = "requeue"]
          /\ UNCHANGED <<msgMu, req, batch, nowRead>>
       \/ /\ req[s] = {}
          /\ msgMu' = None
          /\ Return(s)
    /\ UNCHANGED <<now, store, notifyMu, qpc, up, npc, gc, history>>

(* The unlock of MsgMu comes before BulkQueueMessages, which locks again. *)
ReceiveWriteFail(s) ==
    /\ pc[s] = "recvWrite" /\ s \notin up
    /\ msgMu' = None
    /\ \/ /\ req[s] # {}
          /\ pc' = [pc EXCEPT ![s] = "requeue"]
          /\ UNCHANGED <<req, batch, nowRead>>
       \/ /\ req[s] = {}
          /\ Return(s)
    /\ UNCHANGED <<now, store, notifyMu, qpc, up, npc, gc, history>>

(* Faulty variant: the messages of the failed response are not put back. *)
BulkQueueMessagesSkipped(s) ==
    /\ pc[s] = "requeue"
    /\ msgMu = None
    /\ Return(s)
    /\ UNCHANGED <<now, store, msgMu, notifyMu, qpc, up, npc, gc, history>>

BulkQueueMessages(s) ==
    /\ pc[s] = "requeue"
    /\ msgMu = None
    /\ messages' = messages \cup batch[s]
    /\ Return(s)
    /\ UNCHANGED <<now, notifications, msgMu, notifyMu, qpc, up, npc, gc, history>>
-----------------------------------------------------------------------------
(* HandleFetch: expired messages are deleted, the rest is announced. *)

ReadFetch(s) ==
    /\ pc[s] = "idle" /\ s \in up
    /\ pc' = [pc EXCEPT ![s] = "fetch"]
    /\ UNCHANGED <<now, store, msgMu, notifyMu, qpc, up, req, batch, nowRead, npc, gc, history>>

FetchLock(s) ==
    LET expired == {m \in messages : ExpiredAt(m, now)} IN
    /\ pc[s] = "fetch"
    /\ msgMu = None
    /\ msgMu' = s
    /\ messages' = messages \ expired
    /\ discarded' = discarded \cup expired
    /\ batch' = [batch EXCEPT ![s] = messages \ expired]
    /\ pc' = [pc EXCEPT ![s] = "fetchWrite"]
    /\ UNCHANGED <<now, notifications, notifyMu, qpc, up, req, nowRead, npc, gc, told, suppressed, delivered>>

(* Faulty variant: the error path returns without unlocking MsgMu. *)
FetchWriteLeaks(s) ==
    /\ pc[s] = "fetchWrite"
    /\ told' = IF s \in up THEN told \cup batch[s] ELSE told
    /\ msgMu' = IF s \in up THEN None ELSE msgMu
    /\ Return(s)
    /\ UNCHANGED <<now, store, notifyMu, qpc, up, npc, gc, suppressed, delivered, discarded>>

FetchWrite(s) ==
    /\ pc[s] = "fetchWrite"
    /\ told' = IF s \in up THEN told \cup batch[s] ELSE told
    /\ msgMu' = None
    /\ Return(s)
    /\ UNCHANGED <<now, store, notifyMu, qpc, up, npc, gc, suppressed, delivered, discarded>>
-----------------------------------------------------------------------------
(* The end of a session. *)

(* HandleDisconnect answers and closes the websocket; the handler returns, *)
(* as it does after an unreadable request, which closes it too.            *)
HandleDisconnect(s) ==
    /\ pc[s] = "idle" /\ s \in up
    /\ up' = up \ {s}
    /\ pc' = [pc EXCEPT ![s] = "gone"]
    /\ UNCHANGED <<now, store, msgMu, notifyMu, qpc, req, batch, nowRead, npc, gc, history>>

(* The read loop fails on the broken websocket and the handler returns. *)
HandlerExit(s) ==
    /\ pc[s] = "idle" /\ s \notin up
    /\ pc' = [pc EXCEPT ![s] = "gone"]
    /\ UNCHANGED <<now, store, msgMu, notifyMu, qpc, up, req, batch, nowRead, npc, gc, history>>
-----------------------------------------------------------------------------
(* messageGC reads the clock once, then takes each consumer's MsgMu. *)

GcStart ==
    /\ gpc = "wait"
    /\ gpc' = "sweep" /\ gcNow' = now
    /\ UNCHANGED <<now, store, msgMu, notifyMu, qpc, up, handlers, npc, history>>

(* Faulty variant: the sweep deletes from Notifications instead. *)
GcSweepWrongMap ==
    /\ gpc = "sweep"
    /\ msgMu = None
    /\ notifications' = {m \in notifications : ~ExpiredAt(m, gcNow)}
    /\ gpc' = "wait" /\ gcNow' = 0
    /\ UNCHANGED <<now, messages, msgMu, notifyMu, qpc, up, handlers, npc, history>>

GcSweep ==
    LET expired == {m \in messages : ExpiredAt(m, gcNow)} IN
    /\ gpc = "sweep"
    /\ msgMu = None
    /\ messages' = messages \ expired
    /\ discarded' = discarded \cup expired
    /\ gpc' = "wait" /\ gcNow' = 0
    /\ UNCHANGED <<now, notifications, msgMu, notifyMu, qpc, up, handlers, npc, told, suppressed, delivered>>
-----------------------------------------------------------------------------
Queue(m) == QueueReject(m) \/ QueueStore(m) \/ QueueNotify(m)

Notifier(s) == NotifyLock(s) \/ NotifyWriteOk(s) \/ NotifyWriteFail(s) \/ NotifierStop(s)

Handler(s) ==
    \/ \E F \in SUBSET (Msgs \ NoUuid) : ReadReceive(s, F)
    \/ ReceiveLock(s) \/ ReceiveTake(s) \/ ReceiveWriteOk(s) \/ ReceiveWriteFail(s)
    \/ BulkQueueMessages(s)
    \/ ReadFetch(s) \/ FetchLock(s) \/ FetchWrite(s)
    \/ HandleDisconnect(s) \/ HandlerExit(s)

Next ==
    \/ Tick
    \/ \E m \in Msgs : Queue(m)
    \/ \E s \in Sessions : Attach(s) \/ Drop(s) \/ Notifier(s) \/ Handler(s)
    \/ GcStart \/ GcSweep

Spec == Init /\ [][Next]_vars

(* The steps a handler takes by itself once it has read a request. *)
HandlerStep(s) ==
    \/ ReceiveLock(s) \/ ReceiveTake(s) \/ ReceiveWriteOk(s) \/ ReceiveWriteFail(s)
    \/ BulkQueueMessages(s) \/ FetchLock(s) \/ FetchWrite(s) \/ HandlerExit(s)

(* Each goroutine runs when it can, its timer fires, and a Go mutex does   *)
(* not starve a waiting goroutine, hence strong fairness per goroutine. A  *)
(* write ends, with or without an error: this holds as long as the peer    *)
(* reads or the transport gives up. Nothing makes the consumer connect or  *)
(* ask, or makes a connection break.                                       *)
Fairness ==
    /\ \A m \in Msgs : SF_vars(QueueNotify(m))
    /\ \A s \in Sessions : SF_vars(HandlerStep(s)) /\ SF_vars(Notifier(s))
    /\ SF_vars(GcStart \/ GcSweep)

FairSpec == Spec /\ Fairness
-----------------------------------------------------------------------------
(* The properties. *)

(* A filtered Receive has taken these messages out of the map and has      *)
(* neither delivered them nor put them back yet.                           *)
Held(s) ==
    IF pc[s] = "requeue" \/ (pc[s] = "recvWrite" /\ req[s] # {}) THEN batch[s] ELSE {}

(* MsgMu and NotifyMu are held exactly while their holder is in a section  *)
(* that holds them: no error path of HandleReceive, HandleFetch or notify  *)
(* returns with a lock taken, and none writes a response without it. A     *)
(* session that is not attached yet has no notifier.                       *)
LockDiscipline ==
    /\ \A s \in Sessions : (msgMu = s) <=> (pc[s] \in {"recvLocked", "recvWrite", "fetchWrite"})
    /\ \A s \in Sessions : (notifyMu = s) <=> (npc[s] = "write")
    /\ \A s \in Sessions : pc[s] = "off" => npc[s] = "off"

(* The messages that QueueMessage has stored, ever and still. *)
Stored == {m \in Msgs : qpc[m] \in {"stored", "done"}}
Pending == messages \cup UNION {Held(s) : s \in Sessions}

(* A message that QueueMessage has stored is still in c.Messages, in the   *)
(* hands of a Receive that will deliver it or put it back, delivered, or   *)
(* deleted after it expired: no failed write and no interleaving of        *)
(* sessions and garbage collection loses one.                              *)
NothingLost == Stored = Pending \cup delivered \cup discarded

(* No message is in two of these places, and no two Receives hold the same *)
(* one: a message is never sent in two responses, even if the consumer     *)
(* reconnects while a response to the old session is being written.        *)
NothingTwice ==
    /\ delivered \cap discarded = {}
    /\ messages \cap (delivered \cup discarded) = {}
    /\ \A s \in Sessions : Held(s) \cap (messages \cup delivered \cup discarded) = {}
    /\ \A s, t \in Sessions : s # t => Held(s) \cap Held(t) = {}

(* While a Receive without a filter writes its response, the response is   *)
(* what c.Messages still holds unexpired at the time the handler read: the *)
(* clear(c.Messages) that follows can only drop delivered or expired       *)
(* messages, never one that was queued meanwhile.                          *)
ClearIsSafe ==
    \A s \in Sessions :
        pc[s] = "recvWrite" /\ req[s] = {} =>
            batch[s] = {m \in messages : ~ExpiredAt(m, nowRead[s])}

(* A pending message whose QueueMessage has returned was announced to the  *)
(* consumer, or will be by a notifier, unless a Receive deleted its        *)
(* notification: there is no other way to miss one.                        *)
AnnouncedUnlessSuppressed ==
    \A m \in Pending :
        qpc[m] = "done" => m \in notifications \cup told \cup suppressed

(* What the comment on CheckNewMessages says: a message the consumer has   *)
(* not been notified about is one the notifier will find, whenever no      *)
(* handler is at work on the map.                                          *)
UnannouncedIsNotified ==
    msgMu = None =>
        \A m \in messages : qpc[m] = "done" => m \in notifications \cup told

(* The times that HandleReceive and messageGC have read lie in the past:   *)
(* what they take for expired is expired.                                  *)
ClockReadsPast ==
    /\ \A s \in Sessions : nowRead[s] <= now
    /\ gcNow <= now

(* Together these are inductive. *)
IInv ==
    /\ TypeOK
    /\ LockDiscipline
    /\ NothingLost
    /\ NothingTwice
    /\ ClearIsSafe
    /\ AnnouncedUnlessSuppressed
    /\ ClockReadsPast

(* The mailbox that Consumer implements: the messages a failed Receive is  *)
(* about to put back have never left it.                                   *)
Box == INSTANCE Mailbox WITH pending <- Pending

(* QueueMessage, HandleReceive, HandleFetch and messageGC together do to a *)
(* message only what Mailbox allows.                                       *)
ImplementsMailbox == Box!MailboxSpec

(* QueueMessage returns, although a notifier writes to the network with    *)
(* NotifyMu held: nobody who queues a message is blocked for ever.         *)
QueueReturns == \A m \in Msgs : (qpc[m] = "stored") ~> (qpc[m] = "done")

(* Every request is answered or fails, and the handler returns to its read *)
(* loop: HandleReceive's two locks, BulkQueueMessages' second lock and the *)
(* notifier's lock never wait for each other in a circle.                  *)
HandlersReturn ==
    \A s \in Sessions :
        (pc[s] \notin {"off", "idle", "gone"}) ~> (pc[s] \in {"idle", "gone"})

(* A notification is sent, unless a Receive comes first or no session      *)
(* works: the notifier of a session neither gives up nor is kept from      *)
(* NotifyMu for ever by those who queue and receive.                       *)
NotifiedOrNobodyThere ==
    \A m \in Msgs : (m \in notifications) ~> (m \notin notifications \/ up = {})

(* messageGC removes every expired message that is not received first. *)
ExpiredIsCollected ==
    \A m \in Msgs : (m \in messages /\ ExpiredAt(m, now)) ~> (m \notin messages)
=============================================================================
