--------------------------- MODULE ConsumerProofs ---------------------------
(* Proofs about Consumer.tla, for any messages, sessions and time bound. *)
EXTENDS Consumer, TLAPS

USE DEF store, handlers, gc, history

(* Init establishes the inductive invariant: everything is empty and idle. *)
LEMMA InitIInv == Init => IInv
<1> SUFFICES ASSUME Init PROVE IInv
  OBVIOUS
<1> USE ConsumerAssumption DEF Init
<1>1. TypeOK
  BY DEF TypeOK, HandlerStates
<1>2. LockDiscipline
  BY DEF LockDiscipline
<1>3. \A s \in Sessions : Held(s) = {}
  BY DEF Held
<1>4. Pending = {}
  BY <1>3 DEF Pending
<1>5. NothingLost
  BY <1>4 DEF NothingLost, Stored
<1>6. NothingTwice
  BY <1>3 DEF NothingTwice
<1>7. ClearIsSafe
  BY DEF ClearIsSafe
<1>8. AnnouncedUnlessSuppressed
  BY <1>4 DEF AnnouncedUnlessSuppressed
<1>9. ClockReadsPast
  BY DEF ClockReadsPast
<1> QED
  BY <1>1, <1>2, <1>5, <1>6, <1>7, <1>8, <1>9 DEF IInv

(* Every step keeps the types, in particular it puts no message without a  *)
(* UUID into a map or a response.                                          *)
LEMMA TypeStep == TypeOK /\ [Next]_vars => TypeOK'
<1> SUFFICES ASSUME TypeOK, [Next]_vars PROVE TypeOK'
  OBVIOUS
<1> USE ConsumerAssumption DEF TypeOK, HandlerStates, Return
<1>1. CASE Tick
  BY <1>1 DEF Tick
<1>2. ASSUME NEW m \in Msgs, Queue(m) PROVE TypeOK'
  BY <1>2 DEF Queue, QueueReject, QueueStore, QueueNotify
<1>3. ASSUME NEW s \in Sessions, Attach(s) \/ Drop(s) PROVE TypeOK'
  BY <1>3 DEF Attach, Drop
<1>4. ASSUME NEW s \in Sessions, Notifier(s) PROVE TypeOK'
  BY <1>4 DEF Notifier, NotifyLock, NotifyWriteOk, NotifyWriteFail, NotifierStop
<1>5. ASSUME NEW s \in Sessions, Handler(s) PROVE TypeOK'
  <2>1. ASSUME NEW F \in SUBSET (Msgs \ NoUuid), ReadReceive(s, F) PROVE TypeOK'
    BY <2>1 DEF ReadReceive
  <2>2. CASE ReceiveLock(s)
    BY <2>2 DEF ReceiveLock
  <2>3. CASE ReceiveTake(s)
    BY <2>3 DEF ReceiveTake, Found
  <2>4. CASE ReceiveWriteOk(s)
    BY <2>4 DEF ReceiveWriteOk
  <2>5. CASE ReceiveWriteFail(s)
    BY <2>5 DEF ReceiveWriteFail
  <2>6. CASE BulkQueueMessages(s)
    BY <2>6 DEF BulkQueueMessages
  <2>7. CASE ReadFetch(s)
    BY <2>7 DEF ReadFetch
  <2>8. CASE FetchLock(s)
    BY <2>8 DEF FetchLock
  <2>9. CASE FetchWrite(s)
    BY <2>9 DEF FetchWrite
  <2>10. CASE HandleDisconnect(s) \/ HandlerExit(s)
    BY <2>10 DEF HandleDisconnect, HandlerExit
  <2> QED
    BY <1>5, <2>1, <2>2, <2>3, <2>4, <2>5, <2>6, <2>7, <2>8, <2>9, <2>10 DEF Handler
<1>6. CASE GcStart
  BY <1>6 DEF GcStart
<1>7. CASE GcSweep
  BY <1>7 DEF GcSweep
<1>8. CASE UNCHANGED vars
  BY <1>8 DEF vars
<1> QED
  BY <1>1, <1>2, <1>3, <1>4, <1>5, <1>6, <1>7, <1>8 DEF Next

(* Every step that takes a lock enters a section that holds it, every step *)
(* that leaves such a section, on the error paths too, releases it.        *)
LEMMA LockStep == TypeOK /\ LockDiscipline /\ [Next]_vars => LockDiscipline'
<1> SUFFICES ASSUME TypeOK, LockDiscipline, [Next]_vars PROVE LockDiscipline'
  OBVIOUS
<1> USE ConsumerAssumption DEF TypeOK, LockDiscipline, Return
<1>1. CASE Tick \/ GcStart \/ GcSweep \/ UNCHANGED vars
  BY <1>1 DEF Tick, GcStart, GcSweep, vars
<1>2. ASSUME NEW m \in Msgs, Queue(m) PROVE LockDiscipline'
  BY <1>2 DEF Queue, QueueReject, QueueStore, QueueNotify
<1>3. ASSUME NEW s \in Sessions, Attach(s) \/ Drop(s) PROVE LockDiscipline'
  BY <1>3 DEF Attach, Drop
<1>4. ASSUME NEW s \in Sessions, Notifier(s) PROVE LockDiscipline'
  BY <1>4 DEF Notifier, NotifyLock, NotifyWriteOk, NotifyWriteFail, NotifierStop
<1>5. ASSUME NEW s \in Sessions, Handler(s) PROVE LockDiscipline'
  <2>1. ASSUME NEW F \in SUBSET (Msgs \ NoUuid), ReadReceive(s, F) PROVE LockDiscipline'
    BY <2>1 DEF ReadReceive
  <2>2. CASE ReceiveLock(s) \/ ReceiveTake(s)
    BY <2>2 DEF ReceiveLock, ReceiveTake
  <2>3. CASE ReceiveWriteOk(s) \/ ReceiveWriteFail(s)
    BY <2>3 DEF ReceiveWriteOk, ReceiveWriteFail
  <2>4. CASE BulkQueueMessages(s)
    BY <2>4 DEF BulkQueueMessages
  <2>5. CASE ReadFetch(s) \/ FetchLock(s) \/ FetchWrite(s)
    BY <2>5 DEF ReadFetch, FetchLock, FetchWrite
  <2>6. CASE HandleDisconnect(s) \/ HandlerExit(s)
    BY <2>6 DEF HandleDisconnect, HandlerExit
  <2> QED
    BY <1>5, <2>1, <2>2, <2>3, <2>4, <2>5, <2>6 DEF Handler
<1> QED
  BY <1>1, <1>2, <1>3, <1>4, <1>5 DEF Next

(* The clock never falls behind the times the handlers and the garbage     *)
(* collector have read.                                                    *)
LEMMA ClockStep == TypeOK /\ ClockReadsPast /\ [Next]_vars => ClockReadsPast'
<1> SUFFICES ASSUME TypeOK, ClockReadsPast, [Next]_vars PROVE ClockReadsPast'
  OBVIOUS
<1> USE ConsumerAssumption DEF TypeOK, ClockReadsPast, Return
<1>1. CASE Tick \/ GcStart \/ GcSweep \/ UNCHANGED vars
  BY <1>1 DEF Tick, GcStart, GcSweep, vars
<1>2. ASSUME NEW m \in Msgs, Queue(m) PROVE ClockReadsPast'
  BY <1>2 DEF Queue, QueueReject, QueueStore, QueueNotify
<1>3. ASSUME NEW s \in Sessions, Attach(s) \/ Drop(s) PROVE ClockReadsPast'
  BY <1>3 DEF Attach, Drop
<1>4. ASSUME NEW s \in Sessions, Notifier(s) PROVE ClockReadsPast'
  BY <1>4 DEF Notifier, NotifyLock, NotifyWriteOk, NotifyWriteFail, NotifierStop
<1>5. ASSUME NEW s \in Sessions, Handler(s) PROVE ClockReadsPast'
  <2>1. ASSUME NEW F \in SUBSET (Msgs \ NoUuid), ReadReceive(s, F) PROVE ClockReadsPast'
    BY <2>1 DEF ReadReceive
  <2>2. CASE ReceiveLock(s)
    BY <2>2 DEF ReceiveLock
  <2>3. CASE ReceiveTake(s) \/ ReceiveWriteOk(s) \/ ReceiveWriteFail(s)
    BY <2>3 DEF ReceiveTake, ReceiveWriteOk, ReceiveWriteFail
  <2>4. CASE BulkQueueMessages(s)
    BY <2>4 DEF BulkQueueMessages
  <2>5. CASE ReadFetch(s) \/ FetchLock(s) \/ FetchWrite(s)
    BY <2>5 DEF ReadFetch, FetchLock, FetchWrite
  <2>6. CASE HandleDisconnect(s) \/ HandlerExit(s)
    BY <2>6 DEF HandleDisconnect, HandlerExit
  <2> QED
    BY <1>5, <2>1, <2>2, <2>3, <2>4, <2>5, <2>6 DEF Handler
<1> QED
  BY <1>1, <1>2, <1>3, <1>4, <1>5 DEF Next

-----------------------------------------------------------------------------
(* Where the messages are. Each step changes at most one session's batch:  *)
(* HeldFrame says what stays, the lemmas below what moves.                 *)

(* A pending message is in c.Messages or in some handler's hands. *)
LEMMA PendingDef ==
  \A m : m \in Pending <=> (m \in messages \/ \E s \in Sessions : m \in Held(s))
BY DEF Pending

(* The same, for the state after the step. *)
LEMMA PendingDefNext ==
  \A m : m \in Pending' <=> (m \in messages' \/ \E s \in Sessions : m \in Held(s)')
BY DEF Pending

(* A step that leaves the handlers alone leaves every batch alone. *)
LEMMA HeldFrame == UNCHANGED handlers => \A s \in Sessions : Held(s)' = Held(s)
BY DEF Held

(* What the steps of a handler do to the batches. *)
LEMMA HeldByHandler ==
  ASSUME TypeOK, NEW s \in Sessions
  PROVE  /\ \A F \in SUBSET (Msgs \ NoUuid) :
              ReadReceive(s, F) => \A t \in Sessions : Held(t)' = Held(t)
         /\ ReceiveLock(s) \/ ReceiveWriteFail(s) \/ ReadFetch(s) \/ FetchLock(s)
              \/ FetchWrite(s) \/ HandleDisconnect(s) \/ HandlerExit(s)
              => \A t \in Sessions : Held(t)' = Held(t)
         /\ ReceiveTake(s) =>
              /\ Held(s) = {}
              /\ Held(s)' = IF req[s] # {} THEN Found(s) ELSE {}
              /\ \A t \in Sessions \ {s} : Held(t)' = Held(t)
         /\ ReceiveWriteOk(s) \/ BulkQueueMessages(s) =>
              /\ Held(s)' = {}
              /\ \A t \in Sessions \ {s} : Held(t)' = Held(t)
         /\ ReceiveWriteOk(s) => Held(s) = IF req[s] # {} THEN batch[s] ELSE {}
         /\ BulkQueueMessages(s) => Held(s) = batch[s]
<1> USE DEF TypeOK, Held, Return
<1>1. \A F \in SUBSET (Msgs \ NoUuid) :
        ReadReceive(s, F) => \A t \in Sessions : Held(t)' = Held(t)
  BY DEF ReadReceive
<1>2. ReceiveLock(s) \/ ReceiveWriteFail(s) => \A t \in Sessions : Held(t)' = Held(t)
  BY DEF ReceiveLock, ReceiveWriteFail
<1>3. ReadFetch(s) \/ FetchLock(s) \/ FetchWrite(s) => \A t \in Sessions : Held(t)' = Held(t)
  BY DEF ReadFetch, FetchLock, FetchWrite
<1>4. HandleDisconnect(s) \/ HandlerExit(s) => \A t \in Sessions : Held(t)' = Held(t)
  BY DEF HandleDisconnect, HandlerExit
<1>5. ReceiveTake(s) =>
        /\ Held(s) = {}
        /\ Held(s)' = IF req[s] # {} THEN Found(s) ELSE {}
        /\ \A t \in Sessions \ {s} : Held(t)' = Held(t)
  BY DEF ReceiveTake
<1>6. ReceiveWriteOk(s) =>
        /\ Held(s)' = {}
        /\ \A t \in Sessions \ {s} : Held(t)' = Held(t)
        /\ Held(s) = IF req[s] # {} THEN batch[s] ELSE {}
  BY DEF ReceiveWriteOk
<1>7. BulkQueueMessages(s) =>
        /\ Held(s)' = {}
        /\ \A t \in Sessions \ {s} : Held(t)' = Held(t)
        /\ Held(s) = batch[s]
  BY DEF BulkQueueMessages
<1> QED
  BY <1>1, <1>2, <1>3, <1>4, <1>5, <1>6, <1>7

(* While a Receive without a filter is being answered, MsgMu keeps every   *)
(* other step away from the map.                                           *)
LEMMA ClearStep ==
  TypeOK /\ LockDiscipline /\ ClearIsSafe /\ [Next]_vars => ClearIsSafe'
<1> SUFFICES ASSUME TypeOK, LockDiscipline, ClearIsSafe, [Next]_vars,
                    NEW t \in Sessions, pc'[t] = "recvWrite", req'[t] = {}
             PROVE  batch'[t] = {m \in messages' : ~ExpiredAt(m, nowRead'[t])}
  BY DEF ClearIsSafe, ExpiredAt
<1> USE ConsumerAssumption DEF TypeOK, Return
<1>a. ASSUME pc[t] = "recvWrite", req[t] = {}, UNCHANGED <<messages, batch, nowRead>>
      PROVE  batch'[t] = {m \in messages' : ~ExpiredAt(m, nowRead'[t])}
  BY <1>a DEF ClearIsSafe, ExpiredAt
<1>b. pc[t] = "recvWrite" => msgMu = t /\ msgMu # None
  BY DEF LockDiscipline
<1>1. CASE Tick \/ GcStart \/ GcSweep \/ UNCHANGED vars
  BY <1>1, <1>a, <1>b DEF Tick, GcStart, GcSweep, vars
<1>2. ASSUME NEW m \in Msgs, Queue(m)
      PROVE  batch'[t] = {n \in messages' : ~ExpiredAt(n, nowRead'[t])}
  BY <1>2, <1>a, <1>b DEF Queue, QueueReject, QueueStore, QueueNotify
<1>3. ASSUME NEW s \in Sessions, Attach(s) \/ Drop(s) \/ Notifier(s)
      PROVE  batch'[t] = {m \in messages' : ~ExpiredAt(m, nowRead'[t])}
  BY <1>3, <1>a DEF Attach, Drop, Notifier, NotifyLock, NotifyWriteOk, NotifyWriteFail, NotifierStop
<1>4. ASSUME NEW s \in Sessions, Handler(s)
      PROVE  batch'[t] = {m \in messages' : ~ExpiredAt(m, nowRead'[t])}
  <2>1. ASSUME s # t, pc[t] = "recvWrite", req[t] = {}, batch'[t] = batch[t], nowRead'[t] = nowRead[t],
               UNCHANGED messages
        PROVE  batch'[t] = {m \in messages' : ~ExpiredAt(m, nowRead'[t])}
    BY <2>1 DEF ClearIsSafe, ExpiredAt
  <2>2. ASSUME NEW F \in SUBSET (Msgs \ NoUuid), ReadReceive(s, F)
        PROVE  batch'[t] = {m \in messages' : ~ExpiredAt(m, nowRead'[t])}
    BY <2>2, <2>1 DEF ReadReceive
  <2>3. CASE ReceiveLock(s)
    BY <2>3, <1>b DEF ReceiveLock
  <2>4. CASE ReceiveTake(s)
    <3>1. s = t
      BY <2>4, <1>b DEF ReceiveTake, LockDiscipline
    <3> QED
      BY <3>1, <2>4 DEF ReceiveTake, Found, ExpiredAt
  <2>5. CASE ReceiveWriteOk(s) \/ ReceiveWriteFail(s)
    BY <2>5, <1>b DEF ReceiveWriteOk, ReceiveWriteFail, LockDiscipline
  <2>6. CASE BulkQueueMessages(s)
    BY <2>6, <1>b DEF BulkQueueMessages
  <2>7. CASE ReadFetch(s)
    BY <2>7, <2>1 DEF ReadFetch
  <2>8. CASE FetchLock(s)
    BY <2>8, <1>b DEF FetchLock
  <2>9. CASE FetchWrite(s)
    BY <2>9, <1>b DEF FetchWrite, LockDiscipline
  <2>10. CASE HandleDisconnect(s) \/ HandlerExit(s)
    BY <2>10, <2>1 DEF HandleDisconnect, HandlerExit
  <2> QED
    BY <1>4, <2>2, <2>3, <2>4, <2>5, <2>6, <2>7, <2>8, <2>9, <2>10 DEF Handler
<1> QED
  BY <1>1, <1>2, <1>3, <1>4 DEF Next

(* The steps that move no message between c.Messages, the batches of the   *)
(* Receives, delivered and discarded.                                      *)
Quiet ==
  /\ UNCHANGED <<messages, delivered, discarded>>
  /\ \A t \in Sessions : Held(t)' = Held(t)
  /\ Stored' = Stored

(* Only QueueMessage's first section, HandleReceive, BulkQueueMessages,     *)
(* HandleFetch and messageGC move messages.                                *)
LEMMA Moves ==
  ASSUME TypeOK, [Next]_vars
  PROVE  \/ Quiet
         \/ \E m \in Msgs : QueueStore(m)
         \/ \E s \in Sessions :
              ReceiveTake(s) \/ ReceiveWriteOk(s) \/ BulkQueueMessages(s) \/ FetchLock(s)
         \/ GcSweep
<1>a. ASSUME UNCHANGED <<messages, delivered, discarded, qpc>>,
             \A t \in Sessions : Held(t)' = Held(t)
      PROVE  Quiet
  BY <1>a DEF Quiet, Stored
<1>1. CASE Tick \/ GcStart \/ UNCHANGED vars
  <2>1. UNCHANGED handlers /\ UNCHANGED <<messages, delivered, discarded, qpc>>
    BY <1>1 DEF Tick, GcStart, vars
  <2> QED
    BY <2>1, <1>a, HeldFrame
<1>2. ASSUME NEW m \in Msgs, QueueReject(m) \/ QueueNotify(m) PROVE Quiet
  <2>1. UNCHANGED handlers /\ UNCHANGED <<messages, delivered, discarded>>
    BY <1>2 DEF QueueReject, QueueNotify
  <2>2. Stored' = Stored
    BY <1>2 DEF QueueReject, QueueNotify, Stored, TypeOK
  <2> QED
    BY <2>1, <2>2, HeldFrame DEF Quiet
<1>3. ASSUME NEW s \in Sessions, Drop(s) \/ Notifier(s) PROVE Quiet
  <2>1. UNCHANGED handlers /\ UNCHANGED <<messages, delivered, discarded, qpc>>
    BY <1>3 DEF Drop, Notifier, NotifyLock, NotifyWriteOk, NotifyWriteFail, NotifierStop
  <2> QED
    BY <2>1, <1>a, HeldFrame
<1>4. ASSUME NEW s \in Sessions, Attach(s) PROVE Quiet
  <2>1. \A t \in Sessions : Held(t)' = Held(t)
    BY <1>4 DEF Attach, Held, TypeOK
  <2> QED
    BY <1>4, <2>1, <1>a DEF Attach
<1>5. ASSUME NEW s \in Sessions, Handler(s),
             ~(ReceiveTake(s) \/ ReceiveWriteOk(s) \/ BulkQueueMessages(s) \/ FetchLock(s))
      PROVE  Quiet
  <2>1. ASSUME NEW F \in SUBSET (Msgs \ NoUuid), ReadReceive(s, F) PROVE Quiet
    <3>1. \A t \in Sessions : Held(t)' = Held(t)
      BY <2>1, HeldByHandler
    <3> QED
      BY <2>1, <3>1, <1>a DEF ReadReceive
  <2>2. CASE ReceiveLock(s) \/ ReceiveWriteFail(s) \/ ReadFetch(s) \/ FetchWrite(s)
               \/ HandleDisconnect(s) \/ HandlerExit(s)
    <3>1. \A t \in Sessions : Held(t)' = Held(t)
      BY <2>2, HeldByHandler
    <3>2. UNCHANGED <<messages, delivered, discarded, qpc>>
      BY <2>2 DEF ReceiveLock, ReceiveWriteFail, ReadFetch, FetchWrite, HandleDisconnect, HandlerExit
    <3> QED
      BY <3>1, <3>2, <1>a
  <2> QED
    BY <1>5, <2>1, <2>2 DEF Handler
<1> QED
  BY <1>1, <1>2, <1>3, <1>4, <1>5 DEF Next, Queue

(* No step puts a message in a second place. *)
LEMMA TwiceStep ==
  TypeOK /\ NothingLost /\ NothingTwice /\ ClearIsSafe /\ [Next]_vars => NothingTwice'
<1> SUFFICES ASSUME TypeOK, NothingLost, NothingTwice, ClearIsSafe, [Next]_vars PROVE NothingTwice'
  OBVIOUS
<1>1. CASE Quiet
  BY <1>1 DEF NothingTwice, Quiet
<1>2. ASSUME NEW m \in Msgs, QueueStore(m) PROVE NothingTwice'
  <2>1. m \notin Stored
    BY <1>2 DEF QueueStore, Stored
  <2>2. m \notin delivered \cup discarded /\ \A t \in Sessions : m \notin Held(t)
    BY <2>1, PendingDef DEF NothingLost
  <2>3. \A t \in Sessions : Held(t)' = Held(t)
    BY <1>2, HeldFrame DEF QueueStore
  <2> QED
    BY <1>2, <2>2, <2>3 DEF QueueStore, NothingTwice
<1>3. ASSUME NEW s \in Sessions, ReceiveTake(s) PROVE NothingTwice'
  <2>1. Found(s) \subseteq messages
    BY DEF Found
  <2>2. /\ Held(s)' = IF req[s] # {} THEN Found(s) ELSE {}
        /\ \A t \in Sessions \ {s} : Held(t)' = Held(t)
    BY <1>3, HeldByHandler
  <2>3. /\ messages' = IF req[s] # {} THEN messages \ Found(s) ELSE messages
        /\ UNCHANGED <<delivered, discarded>>
    BY <1>3 DEF ReceiveTake
  <2> QED
    BY <2>1, <2>2, <2>3 DEF NothingTwice
<1>4. ASSUME NEW s \in Sessions, ReceiveWriteOk(s) PROVE NothingTwice'
  <2>1. /\ Held(s)' = {}
        /\ \A t \in Sessions \ {s} : Held(t)' = Held(t)
        /\ Held(s) = IF req[s] # {} THEN batch[s] ELSE {}
    BY <1>4, HeldByHandler
  <2>2. CASE req[s] # {}
    BY <1>4, <2>1, <2>2 DEF ReceiveWriteOk, NothingTwice
  <2>3. CASE req[s] = {}
    <3>1. batch[s] \subseteq messages
      BY <1>4, <2>3 DEF ReceiveWriteOk, ClearIsSafe
    <3> QED
      BY <1>4, <2>1, <2>3, <3>1 DEF ReceiveWriteOk, NothingTwice
  <2> QED
    BY <2>2, <2>3
<1>5. ASSUME NEW s \in Sessions, BulkQueueMessages(s) PROVE NothingTwice'
  <2>1. /\ Held(s)' = {}
        /\ \A t \in Sessions \ {s} : Held(t)' = Held(t)
        /\ Held(s) = batch[s]
    BY <1>5, HeldByHandler
  <2> QED
    BY <1>5, <2>1 DEF BulkQueueMessages, NothingTwice
<1>6. ASSUME NEW s \in Sessions, FetchLock(s) PROVE NothingTwice'
  <2>1. \A t \in Sessions : Held(t)' = Held(t)
    BY <1>6, HeldByHandler
  <2> QED
    BY <1>6, <2>1 DEF FetchLock, NothingTwice
<1>7. CASE GcSweep
  <2>1. \A t \in Sessions : Held(t)' = Held(t)
    BY <1>7, HeldFrame DEF GcSweep
  <2> QED
    BY <1>7, <2>1 DEF GcSweep, NothingTwice
<1> QED
  BY <1>1, <1>2, <1>3, <1>4, <1>5, <1>6, <1>7, Moves

-----------------------------------------------------------------------------
(* What a step does to the mailbox: it leaves it alone, deposits one       *)
(* message or releases some. Both the refinement and NothingLost follow.   *)

(* What is still there is one of the messages with a UUID. *)
LEMMA PendingType == TypeOK => Pending \subseteq Msgs
BY DEF TypeOK, Pending, Held

(* Steps that release the messages of S and X are steps of Mailbox. *)
LEMMA ReleaseStep ==
  ASSUME TypeOK, NothingLost, NEW S, NEW X,
         S \subseteq Pending, X \subseteq Pending \ S, \A m \in X : now > Expires[m],
         Pending' = Pending \ (S \cup X),
         delivered' = delivered \cup S, discarded' = discarded \cup X,
         now' = now, Stored' = Stored
  PROVE  Box!MailboxNext /\ NothingLost'
<1>1. S \in SUBSET Msgs /\ X \in SUBSET Msgs
  BY PendingType
<1>2. Box!Release(S, X)
  BY DEF Box!Release
<1>3. NothingLost'
  BY DEF NothingLost
<1> QED
  BY <1>1, <1>2, <1>3 DEF Box!MailboxNext

(* Every step of Consumer is a step of Mailbox or leaves it alone, and no  *)
(* step loses a message.                                                   *)
LEMMA MailboxStep ==
  ASSUME TypeOK, NothingLost, NothingTwice, ClearIsSafe, ClockReadsPast, [Next]_vars
  PROVE  [Box!MailboxNext]_(Box!mailboxVars) /\ NothingLost'
<1> USE PendingDef, PendingDefNext, ConsumerAssumption
<1>1. CASE Quiet
  <2>1. Pending' = Pending
    BY <1>1 DEF Quiet
  <2>2. NothingLost'
    BY <1>1, <2>1 DEF Quiet, NothingLost
  <2>3. CASE Tick
    <3>1. Box!Advance
      BY <2>3, <2>1, <1>1 DEF Tick, Quiet, Box!Advance
    <3> QED
      BY <2>2, <3>1 DEF Box!MailboxNext
  <2>4. CASE ~Tick
    <3>1. now' = now
      <4>1. CASE GcStart \/ GcSweep \/ UNCHANGED vars
        BY <4>1 DEF GcStart, GcSweep, vars
      <4>2. ASSUME NEW m \in Msgs, Queue(m) PROVE now' = now
        BY <4>2 DEF Queue, QueueReject, QueueStore, QueueNotify
      <4>3. ASSUME NEW s \in Sessions, Attach(s) \/ Drop(s) \/ Notifier(s) PROVE now' = now
        BY <4>3 DEF Attach, Drop, Notifier, NotifyLock, NotifyWriteOk, NotifyWriteFail, NotifierStop
      <4>4. ASSUME NEW s \in Sessions, Handler(s) PROVE now' = now
        BY <4>4 DEF Handler, ReadReceive, ReceiveLock, ReceiveTake, ReceiveWriteOk, ReceiveWriteFail,
                    BulkQueueMessages, ReadFetch, FetchLock, FetchWrite, HandleDisconnect, HandlerExit
      <4> QED
        BY <2>4, <4>1, <4>2, <4>3, <4>4 DEF Next
    <3> QED
      BY <3>1, <2>1, <2>2, <1>1 DEF Quiet, Box!mailboxVars
  <2> QED
    BY <2>2, <2>3, <2>4
<1>2. ASSUME NEW m \in Msgs, QueueStore(m)
      PROVE  Box!MailboxNext /\ NothingLost'
  <2>1. m \notin Stored /\ Stored' = Stored \cup {m}
    BY <1>2 DEF QueueStore, Stored, TypeOK
  <2>2. \A t \in Sessions : Held(t)' = Held(t)
    BY <1>2, HeldFrame DEF QueueStore
  <2>3. Pending' = Pending \cup {m}
    BY <1>2, <2>2 DEF QueueStore
  <2>4. Box!Deposit(m)
    BY <1>2, <2>1, <2>3 DEF QueueStore, NothingLost, Box!Deposit
  <2>5. NothingLost'
    BY <1>2, <2>1, <2>3 DEF QueueStore, NothingLost
  <2> QED
    BY <2>4, <2>5 DEF Box!MailboxNext
<1>3. ASSUME NEW s \in Sessions, ReceiveTake(s)
      PROVE  UNCHANGED Box!mailboxVars /\ NothingLost'
  <2>1. /\ Held(s) = {}
        /\ Held(s)' = IF req[s] # {} THEN Found(s) ELSE {}
        /\ \A t \in Sessions \ {s} : Held(t)' = Held(t)
    BY <1>3, HeldByHandler
  <2>2. Found(s) \subseteq messages
    BY DEF Found
  <2>3. Pending' = Pending
    <3>1. messages' = IF req[s] # {} THEN messages \ Found(s) ELSE messages
      BY <1>3 DEF ReceiveTake
    <3>2. \A m : m \in Pending' <=> m \in Pending
      BY <2>1, <2>2, <3>1
    <3> QED
      BY <3>2
  <2>4. Stored' = Stored
    BY <1>3 DEF ReceiveTake, Stored
  <2> QED
    BY <1>3, <2>3, <2>4 DEF ReceiveTake, NothingLost, Box!mailboxVars
<1>4. ASSUME NEW s \in Sessions, ReceiveWriteOk(s)
      PROVE  Box!MailboxNext /\ NothingLost'
  <2>1. /\ Held(s)' = {}
        /\ \A t \in Sessions \ {s} : Held(t)' = Held(t)
        /\ Held(s) = IF req[s] # {} THEN batch[s] ELSE {}
    BY <1>4, HeldByHandler
  <2>2. Stored' = Stored /\ now' = now /\ delivered' = delivered \cup batch[s]
    BY <1>4 DEF ReceiveWriteOk, Stored
  <2>3. CASE req[s] # {}
    <3> DEFINE X == {}
    <3>1. messages' = messages /\ discarded' = discarded \cup X
      BY <1>4, <2>3 DEF ReceiveWriteOk
    <3>2. Pending' = Pending \ (batch[s] \cup X)
      BY <2>1, <2>3, <3>1 DEF NothingTwice
    <3>3. batch[s] \subseteq Pending /\ X \subseteq Pending \ batch[s]
      BY <2>1, <2>3
    <3>4. \A m \in X : now > Expires[m]
      OBVIOUS
    <3> HIDE DEF X
    <3> QED
      BY <2>2, <3>1, <3>2, <3>3, <3>4, ReleaseStep
  <2>4. CASE req[s] = {}
    <3> DEFINE X == messages \ batch[s]
    <3>1. messages' = {} /\ discarded' = discarded \cup X
      BY <1>4, <2>4 DEF ReceiveWriteOk
    <3>2. batch[s] = {m \in messages : ~ExpiredAt(m, nowRead[s])}
      BY <1>4, <2>4 DEF ReceiveWriteOk, ClearIsSafe
    <3>3. \A m \in X : now > Expires[m]
      BY <3>2 DEF ExpiredAt, ClockReadsPast, TypeOK
    <3>4. Pending' = Pending \ (batch[s] \cup X)
      BY <2>1, <2>4, <3>1, <3>2 DEF NothingTwice
    <3>5. batch[s] \subseteq Pending /\ X \subseteq Pending \ batch[s]
      BY <3>2
    <3> HIDE DEF X
    <3> QED
      BY <2>2, <3>1, <3>3, <3>4, <3>5, ReleaseStep
  <2> QED
    BY <2>3, <2>4
<1>5. ASSUME NEW s \in Sessions, BulkQueueMessages(s)
      PROVE  UNCHANGED Box!mailboxVars /\ NothingLost'
  <2>1. /\ Held(s)' = {}
        /\ \A t \in Sessions \ {s} : Held(t)' = Held(t)
        /\ Held(s) = batch[s]
    BY <1>5, HeldByHandler
  <2>2. Pending' = Pending
    <3>1. messages' = messages \cup batch[s]
      BY <1>5 DEF BulkQueueMessages
    <3>2. \A m : m \in Pending' <=> m \in Pending
      BY <2>1, <3>1
    <3> QED
      BY <3>2
  <2>3. Stored' = Stored
    BY <1>5 DEF BulkQueueMessages, Stored
  <2> QED
    BY <1>5, <2>2, <2>3 DEF BulkQueueMessages, NothingLost, Box!mailboxVars
<1>6. ASSUME NEW s \in Sessions, FetchLock(s)
      PROVE  Box!MailboxNext /\ NothingLost'
  <2> DEFINE S == {}
             X == {m \in messages : ExpiredAt(m, now)}
  <2>1. \A t \in Sessions : Held(t)' = Held(t)
    BY <1>6, HeldByHandler
  <2>2. messages' = messages \ X /\ discarded' = discarded \cup X /\ delivered' = delivered \cup S
    BY <1>6 DEF FetchLock
  <2>3. now' = now /\ Stored' = Stored
    BY <1>6 DEF FetchLock, Stored
  <2>4. \A m \in X : now > Expires[m]
    BY DEF ExpiredAt
  <2>5. S \subseteq Pending /\ X \subseteq Pending \ S /\ Pending' = Pending \ (S \cup X)
    BY <2>1, <2>2 DEF NothingTwice
  <2> HIDE DEF S, X
  <2> QED
    BY <2>2, <2>3, <2>4, <2>5, ReleaseStep
<1>7. ASSUME GcSweep PROVE Box!MailboxNext /\ NothingLost'
  <2> DEFINE S == {}
             X == {m \in messages : ExpiredAt(m, gcNow)}
  <2>1. \A t \in Sessions : Held(t)' = Held(t)
    BY <1>7, HeldFrame DEF GcSweep
  <2>2. messages' = messages \ X /\ discarded' = discarded \cup X /\ delivered' = delivered \cup S
    BY <1>7 DEF GcSweep
  <2>3. now' = now /\ Stored' = Stored
    BY <1>7 DEF GcSweep, Stored
  <2>4. \A m \in X : now > Expires[m]
    BY DEF ExpiredAt, ClockReadsPast, TypeOK
  <2>5. S \subseteq Pending /\ X \subseteq Pending \ S /\ Pending' = Pending \ (S \cup X)
    BY <2>1, <2>2 DEF NothingTwice
  <2> HIDE DEF S, X
  <2> QED
    BY <2>2, <2>3, <2>4, <2>5, ReleaseStep
<1> QED
  BY <1>1, <1>2, <1>3, <1>4, <1>5, <1>6, <1>7, Moves

(* The messages that were ever entered in c.Notifications, told apart by   *)
(* what became of the entry.                                               *)
Announced == notifications \cup told \cup suppressed

(* No step forgets that a message was entered in c.Notifications, and      *)
(* QueueMessage returns only after it has entered its message.             *)
LEMMA AnnouncedGrows ==
  ASSUME TypeOK, [Next]_vars
  PROVE  /\ Announced \subseteq Announced'
         /\ \A m \in Msgs : qpc'[m] = "done" => qpc[m] = "done" \/ m \in Announced'
<1> USE DEF TypeOK, Announced, Return
<1> DEFINE Goal == /\ Announced \subseteq Announced'
                   /\ \A m \in Msgs : qpc'[m] = "done" => qpc[m] = "done" \/ m \in Announced'
<1>1. CASE Tick \/ GcStart \/ GcSweep \/ UNCHANGED vars
  BY <1>1 DEF Tick, GcStart, GcSweep, vars
<1>2. ASSUME NEW m \in Msgs, Queue(m) PROVE Goal
  BY <1>2 DEF Queue, QueueReject, QueueStore, QueueNotify
<1>3. ASSUME NEW s \in Sessions, Attach(s) \/ Drop(s) PROVE Goal
  BY <1>3 DEF Attach, Drop
<1>4. ASSUME NEW s \in Sessions, Notifier(s) PROVE Goal
  BY <1>4 DEF Notifier, NotifyLock, NotifyWriteOk, NotifyWriteFail, NotifierStop
<1>5. ASSUME NEW s \in Sessions, Handler(s) PROVE Goal
  <2>1. CASE ReceiveTake(s)
    BY <2>1 DEF ReceiveTake
  <2>2. CASE FetchWrite(s)
    BY <2>2 DEF FetchWrite
  <2>3. CASE ~ReceiveTake(s) /\ ~FetchWrite(s)
    <3>1. UNCHANGED <<notifications, told, suppressed, qpc>>
      BY <1>5, <2>3 DEF Handler, ReadReceive, ReceiveLock, ReceiveWriteOk, ReceiveWriteFail,
                        BulkQueueMessages, ReadFetch, FetchLock, HandleDisconnect, HandlerExit
    <3> QED
      BY <3>1
  <2> QED
    BY <2>1, <2>2, <2>3
<1> QED
  BY <1>1, <1>2, <1>3, <1>4, <1>5 DEF Next

(* A step that brings a message into the mailbox brings one whose          *)
(* QueueMessage is not done, so the announcements stay complete.           *)
LEMMA AnnouncedStep ==
  IInv /\ [Next]_vars => AnnouncedUnlessSuppressed'
<1> SUFFICES ASSUME IInv, [Next]_vars, NEW m \in Pending', qpc'[m] = "done"
             PROVE  m \in Announced'
  BY DEF AnnouncedUnlessSuppressed, Announced
<1>1. TypeOK'
  BY TypeStep DEF IInv
<1>2. m \in Msgs
  <2>1. Pending' \subseteq Msgs
    BY <1>1 DEF TypeOK, Pending, Held
  <2> QED
    BY <2>1
<1>3. Announced \subseteq Announced' /\ (qpc[m] = "done" \/ m \in Announced')
  BY <1>2, AnnouncedGrows DEF IInv
<1>4. ASSUME qpc[m] = "done" PROVE m \in Announced
  <2>1. m \in Stored /\ Stored = Pending \cup delivered \cup discarded
    BY <1>2, <1>4 DEF Stored, IInv, NothingLost
  <2>2. [Box!MailboxNext]_(Box!mailboxVars)
    BY MailboxStep DEF IInv
  <2>3. m \in Pending
    BY <2>1, <2>2 DEF Box!MailboxNext, Box!mailboxVars, Box!Advance, Box!Deposit, Box!Release
  <2> QED
    BY <1>4, <2>3 DEF IInv, AnnouncedUnlessSuppressed, Announced
<1> QED
  BY <1>3, <1>4
-----------------------------------------------------------------------------
(* The inductive step. *)
LEMMA StepIInv == IInv /\ [Next]_vars => IInv'
BY TypeStep, LockStep, MailboxStep, TwiceStep, ClearStep, AnnouncedStep, ClockStep DEF IInv

(* Whatever the interleaving of queueing, sessions, broken connections and *)
(* garbage collection, the inductive invariant holds.                      *)
THEOREM Invariance == Spec => []IInv
BY InitIInv, StepIInv, PTL DEF Spec

(* The maps of a Consumer hold only messages with a UUID, and every        *)
(* goroutine is in one of the places the model knows.                      *)
THEOREM TypeCorrect == Spec => []TypeOK
<1>1. IInv => TypeOK
  BY DEF IInv
<1> QED
  BY <1>1, Invariance, PTL

(* No handler or notifier returns with MsgMu or NotifyMu taken, and none   *)
(* writes a response without it.                                           *)
THEOREM LocksBalanced == Spec => []LockDiscipline
<1>1. IInv => LockDiscipline
  BY DEF IInv
<1> QED
  BY <1>1, Invariance, PTL

(* No message is lost by failed writes, reconnections or the garbage       *)
(* collector.                                                              *)
THEOREM NoMessageLost == Spec => []NothingLost
<1>1. IInv => NothingLost
  BY DEF IInv
<1> QED
  BY <1>1, Invariance, PTL

(* No message is delivered twice, in whatever order the sessions of a      *)
(* consumer ask for it.                                                    *)
THEOREM NoMessageTwice == Spec => []NothingTwice
<1>1. IInv => NothingTwice
  BY DEF IInv
<1> QED
  BY <1>1, Invariance, PTL

(* The clear(c.Messages) that ends HandleReceive drops no message that its *)
(* response does not carry, unless it has expired.                         *)
THEOREM ClearSafe == Spec => []ClearIsSafe
<1>1. IInv => ClearIsSafe
  BY DEF IInv
<1> QED
  BY <1>1, Invariance, PTL

(* Only a Receive can keep a waiting message from being announced. *)
THEOREM NoSilentMessage == Spec => []AnnouncedUnlessSuppressed
<1>1. IInv => AnnouncedUnlessSuppressed
  BY DEF IInv
<1> QED
  BY <1>1, Invariance, PTL

(* A Consumer, with its locks, sessions and failed writes, implements the  *)
(* atomic mailbox of Mailbox.tla.                                          *)
THEOREM Refinement == Spec => ImplementsMailbox
<1>1. Init => Box!MailboxInit
  <2>1. ASSUME Init PROVE Pending = {}
    BY <2>1 DEF Init, Pending, Held
  <2> QED
    BY <2>1 DEF Init, Box!MailboxInit
<1>2. IInv /\ [Next]_vars => [Box!MailboxNext]_(Box!mailboxVars)
  BY MailboxStep DEF IInv
<1> QED
  BY <1>1, <1>2, Invariance, PTL DEF Spec, ImplementsMailbox, Box!MailboxSpec
=============================================================================
