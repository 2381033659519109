---------------------------- MODULE RouterProofs ----------------------------
(* Proofs about Router.tla, for any connections, MRNs, topics and messages. *)
EXTENDS Router, TLAPS

USE DEF conns, object, topics, handles, locks, outgoing, incoming, traffic, routing

Sending(c) == pc[c] \in {"sendLock", "fanOut"}
IsObject(o, m) == o \in Conns /\ obj[o] = o /\ mrn[o] = m
InFlight(x) == (\E i \in 1 .. Len(inChan) : inChan[i] = x) \/ in.msg = x

(* An object belongs to the MRN that its connections gave, and the maps    *)
(* lead from an MRN to objects of that MRN only.                           *)
Objects ==
    /\ \A c \in Conns :
          /\ obj[c] # None => IsObject(obj[c], mrn[c]) /\ mrn[c] \in Mrns /\ pc[c] \notin {"off", "lookup"}
          /\ pc[c] \notin {"off", "lookup", "gone"} => obj[c] # None
          /\ pc[c] = "lookup" => mrn[c] \in Mrns
    /\ \A m \in Mrns : edgeRouters[m] # None => IsObject(edgeRouters[m], m)
    /\ \A t \in Topics, m \in Mrns : subs[t][m] # None => IsObject(subs[t][m], m)

(* A handler works on what its request was about. *)
Requests ==
    \A c \in Conns :
        /\ pc[c] \in {"subscribe", "join", "store", "unsubscribe", "stuck"} => work[c] \in Topics
        /\ Sending(c) => /\ work[c] \in Msgs /\ source[work[c]] = SelfMrn(c)
                         /\ todo[c] \subseteq TopicsOf(work[c])

(* What is on its way in from the network came from there, and is for a    *)
(* topic that is known; only an Edge Router sends without a UUID.          *)
Arrivals ==
    /\ \A x \in Msgs : InFlight(x) => source[x] = Net /\ TopicsOf(x) \cap known # {}
    /\ in.todo \subseteq (IF in.msg = None THEN {} ELSE TopicsOf(in.msg))
    /\ listening \subseteq known
    /\ \A x \in bare : source[x] \in Mrns

(* Mailboxes belong to objects, and a subscriber has asked for its topic. *)
Mailboxes ==
    /\ \A o \in Conns : \A x \in queue[o] : obj[o] = o /\ source[x] # None
    /\ \A t \in Topics, m \in Mrns : subs[t][m] # None => t \in everSub[subs[t][m]]

(* A message with one topic is on its way in from at most one place, and   *)
(* no longer on its way once it has been queued.                           *)
OnceOnly ==
    \A x \in Msgs : ~SeveralTopics(x) =>
        /\ InFlight(x) => \A t \in TopicsOf(x) : <<x, t>> \in heard
        /\ in.msg = x => \A i \in 1 .. Len(inChan) : inChan[i] # x
        /\ \A i, j \in 1 .. Len(inChan) : inChan[i] = x /\ inChan[j] = x => i = j
        /\ \A c, d \in Conns : Sending(c) /\ Sending(d) /\ work[c] = x /\ work[d] = x => c = d
        /\ \A o \in Conns : x \in queue[o] \cup taken[o] =>
              /\ source[x] # None /\ ~InFlight(x)
              /\ \A c \in Conns : Sending(c) => work[c] # x
              /\ source[x] = Net => \A t \in TopicsOf(x) : <<x, t>> \in heard

(* handleOutgoingMessages is idle without a message, and what it found     *)
(* missing is entered by a subscriber only.                                *)
Publishing ==
    /\ out.msg = None => out = OutIdle
    /\ out.at # "look" => out.topic \in Topics
    /\ out.at = "join" /\ out.topic \in topicHandles => out.topic \in known

(* An MRN is in edgeRouters from the registration of its first connection  *)
(* on, so it is there when a token is answered and when it subscribes.     *)
Registrations ==
    /\ \A c \in Conns :
          /\ answered[c] # None => obj[c] # None /\ edgeRouters[mrn[c]] # None
          /\ pc[c] \notin {"off", "lookup", "mint", "register", "gone"} => edgeRouters[mrn[c]] # None
    /\ \A t \in Topics, m \in Mrns : subs[t][m] # None => edgeRouters[m] # None

IInv ==
    /\ TypeOK /\ Objects /\ Requests /\ Arrivals /\ Mailboxes /\ OnceOnly /\ Publishing /\ Registrations
    /\ RightMailboxes /\ ReceivedOnce /\ NilNeedsSecondRecipient /\ LockDiscipline /\ JoinedIsUsable
    /\ DropMeansSubscribed /\ NilOnlyAfterRestart
-----------------------------------------------------------------------------
(* TypeOK in three parts, which hardly depend on each other. *)
TypeConns ==
    /\ pc \in [Conns -> HandlerStates]
    /\ asks \in [Conns -> Conns \cup {OldToken, None}]
    /\ obj \in [Conns -> Conns \cup {None}]
    /\ work \in [Conns -> Topics \cup Msgs \cup {None}]
    /\ todo \in [Conns -> SUBSET Topics]
    /\ answered \in [Conns -> Conns \cup {None}]
    /\ mrn \in [Conns -> Mrns \cup {None}]
    /\ token \in [Conns -> Conns \cup {None}]

TypeMaps ==
    /\ edgeRouters \in [Mrns -> Conns \cup {None}]
    /\ subs \in [Topics -> [Mrns -> Conns \cup {None}]]
    /\ everSub \in [Conns -> SUBSET Topics]
    /\ known \subseteq Topics /\ listening \subseteq Topics
    /\ joined \subseteq Topics /\ topicHandles \subseteq Topics
    /\ requests \in 0..MaxRequests /\ subMu \in Conns \cup {None}
    /\ leaked \subseteq {"erMu", "subMu"} /\ leakedSubs \subseteq Topics

TypeTraffic ==
    /\ queue \in [Conns -> SUBSET (Msgs \ bare)] /\ taken \in [Conns -> SUBSET Msgs]
    /\ outChan \in Seq(Msgs) /\ Len(outChan) <= ChannelBufSize
    /\ out \in [msg : Msgs \cup {None}, todo : SUBSET Topics,
                at : {"look", "join", "store"}, topic : Topics \cup {None}]
    /\ inChan \in Seq(Msgs) /\ Len(inChan) <= ChannelBufSize
    /\ in \in [msg : Msgs \cup {None}, todo : SUBSET Topics]
    /\ crashed \in {"no", "nil", "race"}
    /\ source \in [Msgs -> Mrns \cup {Net, None}]
    /\ bare \subseteq Msgs /\ expired \subseteq Msgs
    /\ heard \subseteq Msgs \X Topics
    /\ published \subseteq Msgs \X Topics /\ dropped \subseteq Msgs \X Topics

(* The three parts are TypeOK. *)
LEMMA TypeParts == TypeOK <=> TypeConns /\ TypeMaps /\ TypeTraffic
  BY DEF TypeOK, TypeConns, TypeMaps, TypeTraffic

(* What a handler that is past the look-up knows of its object. *)
LEMMA SelfFacts ==
    ASSUME TypeConns, Objects, NEW c \in Conns, pc[c] \notin {"off", "lookup", "gone"}
    PROVE  /\ Self(c) \in Conns /\ obj[Self(c)] = Self(c)
           /\ SelfMrn(c) = mrn[c] /\ SelfMrn(c) \in Mrns
  BY DEF TypeConns, Objects, IsObject, Self, SelfMrn

(* The handlers' own state: what Lookup and the response read from maps    *)
(* and objects is a connection, because the maps hold nothing else.        *)
LEMMA TypeConnsStep == TypeConns /\ TypeMaps /\ Objects /\ Requests /\ [Next]_vars => TypeConns'
<1> SUFFICES ASSUME TypeConns, TypeMaps, Objects, Requests, [Next]_vars PROVE TypeConns'
  OBVIOUS
<1> USE RouterAssumption DEF TypeConns, HandlerStates, Goto, Finish, Self, SelfMrn
<1>1. ASSUME NEW c \in Conns, Refuse(c) \/ HandlerExit(c) \/ SendLock(c) \/ Register(c) PROVE TypeConns'
  BY <1>1 DEF Refuse, HandlerExit, SendLock, Register
<1>2. ASSUME NEW c \in Conns, Lookup(c) PROVE TypeConns'
  <2>1. edgeRouters[mrn[c]] \in Conns \cup {None}
    BY <1>2 DEF Lookup, Objects, TypeMaps
  <2> QED
    BY <1>2, <2>1 DEF Lookup
<1>3. ASSUME NEW c \in Conns, MintToken(c) \/ RespondOk(c) PROVE TypeConns'
  BY <1>3, SelfFacts DEF MintToken, RespondOk
<1>4. ASSUME NEW c \in Conns, SubscribeLock(c) \/ SubscribeJoin(c) \/ SubscribeStore(c) PROVE TypeConns'
  BY <1>4 DEF SubscribeLock, SubscribeJoin, SubscribeStore
<1>5. ASSUME NEW c \in Conns, HandleUnsubscribe(c) PROVE TypeConns'
  BY <1>5 DEF HandleUnsubscribe
<1>6. ASSUME NEW c \in Conns, NEW t \in Topics, FanOut(c, t) PROVE TypeConns'
  BY <1>6 DEF FanOut
<1>7. ASSUME NEW c \in Conns, NEW m \in Mrns, NEW t \in Conns \cup {OldToken, None}, Connect(c, m, t)
      PROVE TypeConns'
  BY <1>7 DEF Connect
<1>8. ASSUME NEW c \in Conns, NEW t \in Topics, Subscribe(c, t) \/ Unsubscribe(c, t) PROVE TypeConns'
  BY <1>8 DEF Subscribe, Unsubscribe, Ask
<1>9. ASSUME NEW c \in Conns, NEW x \in Msgs, NEW u \in BOOLEAN, Send(c, x, u) PROVE TypeConns'
  BY <1>9 DEF Send, TopicsOf
<1>10. ASSUME NEW c \in Conns, NEW S \in SUBSET Msgs, Receive(c, S) PROVE TypeConns'
  BY <1>10 DEF Receive
<1>11. CASE HandleOutgoingMessages
  BY <1>11 DEF HandleOutgoingMessages, TakeOutgoing, PublishLook, PublishJoin, PublishStore
<1>12. CASE HandleIncomingMessages \/ TopicHandlesRace \/ MessageGC
  BY <1>12 DEF HandleIncomingMessages, TakeIncoming, RouteIncoming, TopicHandlesRace, MessageGC
<1>13. ASSUME NEW x \in Msgs, Expire(x) \/ \E t \in Topics : HandleSubscription(t, x) PROVE TypeConns'
  BY <1>13 DEF Expire, HandleSubscription
<1>14. CASE UNCHANGED vars
  BY <1>14 DEF vars
<1> QED
  BY <1>1, <1>2, <1>3, <1>4, <1>5, <1>6, <1>7, <1>8, <1>9, <1>10, <1>11, <1>12, <1>13, <1>14
  DEF Next, HandlerStep

(* One entry of the map of subscriptions is written. *)
LEMMA SubsUpdate ==
    ASSUME TypeMaps, NEW t \in Topics, NEW m \in Mrns, NEW o \in Conns \cup {None}
    PROVE  [subs EXCEPT ![t][m] = o] \in [Topics -> [Mrns -> Conns \cup {None}]]
  BY DEF TypeMaps

(* The shared maps and locks: handlers enter their own object, under its   *)
(* MRN, for the topic of their request.                                    *)
LEMMA TypeMapsStep ==
    TypeConns /\ TypeMaps /\ Objects /\ Requests /\ Publishing /\ [Next]_vars => TypeMaps'
<1> SUFFICES ASSUME TypeConns, TypeMaps, Objects, Requests, Publishing, [Next]_vars PROVE TypeMaps'
  OBVIOUS
<1> USE RouterAssumption DEF TypeMaps
<1>1. ASSUME NEW c \in Conns,
             Refuse(c) \/ Lookup(c) \/ MintToken(c) \/ RespondOk(c) \/ HandlerExit(c) \/ SendLock(c)
      PROVE TypeMaps'
  BY <1>1 DEF Refuse, Lookup, MintToken, RespondOk, HandlerExit, SendLock
<1>2. ASSUME NEW c \in Conns, Register(c) PROVE TypeMaps'
  BY <1>2, SelfFacts DEF Register
<1>3. ASSUME NEW c \in Conns, SubscribeLock(c) \/ SubscribeJoin(c) \/ SubscribeStore(c) PROVE TypeMaps'
  <2>1. Self(c) \in Conns /\ SelfMrn(c) \in Mrns /\ work[c] \in Topics
    BY <1>3, SelfFacts DEF SubscribeLock, SubscribeJoin, SubscribeStore, Requests
  <2>2. ASSUME AddSubscriber(c, work[c])
        PROVE  /\ subs' \in [Topics -> [Mrns -> Conns \cup {None}]] /\ known' \subseteq Topics
               /\ listening' \subseteq Topics /\ everSub' \in [Conns -> SUBSET Topics]
    BY <2>1, <2>2 DEF AddSubscriber
  <2>3. CASE SubscribeLock(c)
    BY <2>2, <2>3 DEF SubscribeLock
  <2>4. CASE SubscribeJoin(c)
    BY <2>1, <2>4 DEF SubscribeJoin
  <2>5. CASE SubscribeStore(c)
    BY <2>1, <2>2, <2>5 DEF SubscribeStore
  <2> QED
    BY <1>3, <2>3, <2>4, <2>5
<1>4. ASSUME NEW c \in Conns, HandleUnsubscribe(c) PROVE TypeMaps'
  <2>1. Self(c) \in Conns /\ SelfMrn(c) \in Mrns /\ work[c] \in Topics
    BY <1>4, SelfFacts DEF HandleUnsubscribe, Requests
  <2>2. UNCHANGED subs \/ subs' = [subs EXCEPT ![work[c]][SelfMrn(c)] = None]
    BY <1>4 DEF HandleUnsubscribe
  <2>3. subs' \in [Topics -> [Mrns -> Conns \cup {None}]]
    <3>1. [subs EXCEPT ![work[c]][SelfMrn(c)] = None] \in [Topics -> [Mrns -> Conns \cup {None}]]
      BY <2>1, SubsUpdate
    <3> QED
      BY <2>2, <3>1
  <2> QED
    BY <1>4, <2>3 DEF HandleUnsubscribe
<1>5. ASSUME NEW c \in Conns, NEW t \in Topics, FanOut(c, t) PROVE TypeMaps'
  BY <1>5 DEF FanOut
<1>6. ASSUME NEW c \in Conns, NEW m \in Mrns, NEW t \in Conns \cup {OldToken, None}, Connect(c, m, t)
      PROVE TypeMaps'
  BY <1>6 DEF Connect
<1>7. ASSUME NEW c \in Conns, NEW t \in Topics, Subscribe(c, t) \/ Unsubscribe(c, t) PROVE TypeMaps'
  <2>1. requests' \in 0 .. MaxRequests
    BY <1>7 DEF Subscribe, Unsubscribe, Ask
  <2> QED
    BY <1>7, <2>1 DEF Subscribe, Unsubscribe, Ask
<1>8. ASSUME NEW c \in Conns, NEW x \in Msgs, NEW u \in BOOLEAN, Send(c, x, u) PROVE TypeMaps'
  BY <1>8 DEF Send
<1>9. ASSUME NEW c \in Conns, NEW S \in SUBSET Msgs, Receive(c, S) PROVE TypeMaps'
  BY <1>9 DEF Receive
<1>10. CASE TakeOutgoing \/ (\E t \in Topics : PublishLook(t))
  BY <1>10 DEF TakeOutgoing, PublishLook
<1>11. CASE PublishJoin \/ PublishStore
  <2>1. out.topic \in Topics
    BY <1>11 DEF PublishJoin, PublishStore, Publishing
  <2> QED
    BY <1>11, <2>1 DEF PublishJoin, PublishStore
<1>12. CASE HandleIncomingMessages \/ TopicHandlesRace \/ MessageGC
  BY <1>12 DEF HandleIncomingMessages, TakeIncoming, RouteIncoming, TopicHandlesRace, MessageGC
<1>13. ASSUME NEW x \in Msgs, Expire(x) \/ \E t \in Topics : HandleSubscription(t, x) PROVE TypeMaps'
  BY <1>13 DEF Expire, HandleSubscription
<1>14. CASE UNCHANGED vars
  BY <1>14 DEF vars
<1> QED
  BY <1>1, <1>2, <1>3, <1>4, <1>5, <1>6, <1>7, <1>8, <1>9, <1>10, <1>11, <1>12, <1>13, <1>14
  DEF Next, HandlerStep, HandleOutgoingMessages

(* TypeTraffic says in particular that no message without a UUID is in a   *)
(* mailbox: only the handler that has read it may pass it on, and it does  *)
(* not queue it.                                                           *)
LEMMA TypeTrafficStep ==
    IInv /\ TypeConns /\ TypeMaps /\ TypeTraffic /\ [Next]_vars => TypeTraffic'
<1> SUFFICES ASSUME IInv, TypeConns, TypeMaps, TypeTraffic, [Next]_vars PROVE TypeTraffic'
  OBVIOUS
<1> USE RouterAssumption DEF TypeTraffic
<1>1. ASSUME NEW c \in Conns,
             Refuse(c) \/ Lookup(c) \/ MintToken(c) \/ Register(c) \/ RespondOk(c) \/ HandlerExit(c) \/ SendLock(c)
      PROVE TypeTraffic'
  BY <1>1 DEF Refuse, Lookup, MintToken, Register, RespondOk, HandlerExit, SendLock
<1>2. ASSUME NEW c \in Conns,
             SubscribeLock(c) \/ SubscribeJoin(c) \/ SubscribeStore(c) \/ HandleUnsubscribe(c)
      PROVE TypeTraffic'
  BY <1>2 DEF SubscribeLock, SubscribeJoin, SubscribeStore, HandleUnsubscribe
<1>3. ASSUME NEW c \in Conns, NEW t \in Topics, FanOut(c, t) PROVE TypeTraffic'
  <2>1. work[c] \in Msgs
    BY <1>3 DEF FanOut, IInv, Requests, Sending
  <2>2. queue' \in [Conns -> SUBSET (Msgs \ bare)]
    BY <1>3, <2>1 DEF FanOut, QueueMessage
  <2> QED
    BY <1>3, <2>2 DEF FanOut
<1>4. ASSUME NEW c \in Conns, NEW m \in Mrns, NEW t \in Conns \cup {OldToken, None}, Connect(c, m, t)
      PROVE TypeTraffic'
  BY <1>4 DEF Connect
<1>5. ASSUME NEW c \in Conns, NEW t \in Topics, Subscribe(c, t) \/ Unsubscribe(c, t) PROVE TypeTraffic'
  BY <1>5 DEF Subscribe, Unsubscribe, Ask
<1>6. ASSUME NEW c \in Conns, NEW x \in Msgs, NEW u \in BOOLEAN, Send(c, x, u) PROVE TypeTraffic'
  <2>1. SelfMrn(c) \in Mrns
    BY <1>6, SelfFacts DEF Send, IInv
  <2>2. \A o \in Conns : x \notin queue[o]
    BY <1>6 DEF Send, IInv, Mailboxes
  <2>3. queue' \in [Conns -> SUBSET (Msgs \ bare')]
    BY <1>6, <2>2 DEF Send
  <2>4. outChan' \in Seq(Msgs) /\ Len(outChan') <= ChannelBufSize
    BY <1>6 DEF Send
  <2> QED
    BY <1>6, <2>1, <2>3, <2>4 DEF Send
<1>7. ASSUME NEW c \in Conns, NEW S \in SUBSET Msgs, Receive(c, S) PROVE TypeTraffic'
  BY <1>7, SelfFacts DEF Receive, IInv
<1>8. CASE TakeOutgoing
  <2>1. Head(outChan) \in Msgs /\ outChan' \in Seq(Msgs) /\ Len(outChan') <= ChannelBufSize
    BY <1>8 DEF TakeOutgoing
  <2>2. TopicsOf(Head(outChan)) \subseteq Topics
    BY <2>1 DEF TopicsOf
  <2> QED
    BY <1>8, <2>1, <2>2 DEF TakeOutgoing
<1>9. ASSUME NEW t \in Topics, PublishLook(t) PROVE TypeTraffic'
  <2>1. out.msg \in Msgs
    BY <1>9 DEF PublishLook, IInv, Publishing, OutIdle
  <2> QED
    BY <1>9, <2>1 DEF PublishLook, OutDone, OutAt, OutIdle
<1>10. CASE PublishJoin \/ PublishStore
  <2>1. out.msg \in Msgs /\ out.topic \in Topics
    BY <1>10 DEF PublishJoin, PublishStore, IInv, Publishing, OutIdle
  <2> QED
    BY <1>10, <2>1 DEF PublishJoin, PublishStore, OutDone, OutAt, OutIdle
<1>11. CASE TakeIncoming
  <2>1. Head(inChan) \in Msgs /\ inChan' \in Seq(Msgs) /\ Len(inChan') <= ChannelBufSize
    BY <1>11 DEF TakeIncoming
  <2>2. TopicsOf(Head(inChan)) \subseteq Topics
    BY <2>1 DEF TopicsOf
  <2> QED
    BY <1>11, <2>1, <2>2 DEF TakeIncoming, Idle
<1>12. ASSUME NEW t \in Topics, RouteIncoming(t) PROVE TypeTraffic'
  <2>1. in.msg \in Msgs
    BY <1>12 DEF RouteIncoming, IInv, Arrivals
  <2>2. in.msg \notin bare
    BY <2>1 DEF IInv, Arrivals, InFlight
  <2>3. queue' \in [Conns -> SUBSET (Msgs \ bare)]
    BY <1>12, <2>1, <2>2 DEF RouteIncoming, QueueMessage
  <2> QED
    BY <1>12, <2>3 DEF RouteIncoming, Idle
<1>13. CASE TopicHandlesRace \/ MessageGC
  BY <1>13 DEF TopicHandlesRace, MessageGC
<1>14. ASSUME NEW x \in Msgs, Expire(x) PROVE TypeTraffic'
  BY <1>14 DEF Expire
<1>15. ASSUME NEW x \in Msgs, NEW t \in Topics, HandleSubscription(t, x) PROVE TypeTraffic'
  <2>1. inChan' \in Seq(Msgs) /\ Len(inChan') <= ChannelBufSize
    BY <1>15 DEF HandleSubscription
  <2> QED
    BY <1>15, <2>1 DEF HandleSubscription
<1>16. CASE UNCHANGED vars
  BY <1>16 DEF vars
<1> QED
  BY <1>1, <1>2, <1>3, <1>4, <1>5, <1>6, <1>7, <1>8, <1>9, <1>10, <1>11, <1>12, <1>13, <1>14, <1>15,
     <1>16 DEF Next, HandlerStep, HandleOutgoingMessages, HandleIncomingMessages

(* Every step keeps the types. *)
LEMMA TypeStep == IInv /\ [Next]_vars => TypeOK'
<1> SUFFICES ASSUME IInv, [Next]_vars PROVE TypeOK'
  OBVIOUS
<1>1. TypeConns /\ TypeMaps /\ TypeTraffic
  BY TypeParts DEF IInv
<1>2. TypeConns' /\ TypeMaps' /\ TypeTraffic'
  BY <1>1, TypeConnsStep, TypeMapsStep, TypeTrafficStep DEF IInv
<1>3. TypeOK' <=> TypeConns' /\ TypeMaps' /\ TypeTraffic'
  BY DEF TypeOK, TypeConns, TypeMaps, TypeTraffic
<1> QED
  BY <1>2, <1>3

(* Which entries of the map of subscriptions a step writes. *)
LEMMA SubsWrites ==
    ASSUME TypeMaps, NEW t \in Topics, NEW m \in Mrns, NEW o \in Conns \cup {None},
           subs' = [subs EXCEPT ![t][m] = o]
    PROVE  \A u \in Topics, n \in Mrns : subs'[u][n] = IF u = t /\ n = m THEN o ELSE subs[u][n]
  BY DEF TypeMaps

(* An object is created for the MRN of the connection that creates it, and *)
(* every map is written under the MRN of the object that is entered.       *)
LEMMA ObjectsStep == IInv /\ TypeConns /\ TypeMaps /\ [Next]_vars => Objects'
<1> SUFFICES ASSUME IInv, TypeConns, TypeMaps, [Next]_vars PROVE Objects'
  OBVIOUS
<1> USE RouterAssumption DEF HandlerStates, Goto, Finish
<1>1. Objects /\ Requests
  BY DEF IInv
<1>2. ASSUME NEW c \in Conns, Refuse(c) \/ MintToken(c) \/ RespondOk(c) \/ HandlerExit(c) \/ SendLock(c)
      PROVE Objects'
  BY <1>1, <1>2 DEF TypeConns, Objects, IsObject, Refuse, MintToken, RespondOk, HandlerExit, SendLock
<1>3. ASSUME NEW c \in Conns, NEW m \in Mrns, NEW t \in Conns \cup {OldToken, None}, Connect(c, m, t)
      PROVE Objects'
  BY <1>1, <1>3 DEF TypeConns, Objects, IsObject, Connect
<1>4. ASSUME NEW c \in Conns, Lookup(c) PROVE Objects'
  BY <1>1, <1>4 DEF TypeConns, TypeMaps, Objects, IsObject, Lookup
<1>5. ASSUME NEW c \in Conns, Register(c) PROVE Objects'
  BY <1>1, <1>5, SelfFacts DEF TypeConns, TypeMaps, Objects, IsObject, Register, Self, SelfMrn
<1>6. ASSUME NEW c \in Conns, SubscribeLock(c) \/ SubscribeJoin(c) \/ SubscribeStore(c) PROVE Objects'
  <2>1. /\ Self(c) \in Conns /\ obj[Self(c)] = Self(c) /\ SelfMrn(c) = mrn[Self(c)] /\ SelfMrn(c) \in Mrns
        /\ work[c] \in Topics
    BY <1>1, <1>6, SelfFacts DEF SubscribeLock, SubscribeJoin, SubscribeStore, SelfMrn, Requests
  <2>2. ASSUME NEW u \in Topics, NEW m \in Mrns, subs'[u][m] # None
        PROVE subs'[u][m] = subs[u][m] \/ (subs'[u][m] = Self(c) /\ m = SelfMrn(c))
    <3>1. CASE AddSubscriber(c, work[c])
      BY <2>1, <3>1, SubsWrites DEF AddSubscriber
    <3>2. CASE UNCHANGED subs
      BY <3>2
    <3> QED
      BY <1>6, <3>1, <3>2 DEF SubscribeLock, SubscribeJoin, SubscribeStore
  <2>3. UNCHANGED <<obj, mrn, edgeRouters>>
    BY <1>6 DEF SubscribeLock, SubscribeJoin, SubscribeStore
  <2>4. \A d \in Conns : pc'[d] = pc[d] \/ (d = c /\ pc'[c] \notin {"off", "lookup", "gone"})
    BY <1>6 DEF TypeConns, SubscribeLock, SubscribeJoin, SubscribeStore
  <2>5. pc[c] \notin {"off", "lookup", "gone"}
    BY <1>6 DEF SubscribeLock, SubscribeJoin, SubscribeStore
  <2> QED
    BY <1>1, <2>1, <2>2, <2>3, <2>4, <2>5 DEF Objects, IsObject
<1>7. ASSUME NEW c \in Conns, HandleUnsubscribe(c) PROVE Objects'
  <2>1. \A u \in Topics, m \in Mrns : subs'[u][m] \in {subs[u][m], None}
    BY <1>7 DEF TypeMaps, HandleUnsubscribe
  <2>2. UNCHANGED <<obj, mrn, edgeRouters>>
    BY <1>7 DEF HandleUnsubscribe
  <2>3. pc[c] = "unsubscribe" /\ \A d \in Conns : pc'[d] = pc[d] \/ (d = c /\ pc'[c] \in {"stuck", "open"})
    BY <1>7 DEF TypeConns, HandleUnsubscribe
  <2> QED
    BY <1>1, <2>1, <2>2, <2>3 DEF Objects, IsObject
<1>8. ASSUME NEW c \in Conns, NEW t \in Topics, FanOut(c, t) \/ Subscribe(c, t) \/ Unsubscribe(c, t)
      PROVE Objects'
  <2>1. UNCHANGED <<obj, mrn, edgeRouters, subs>>
    BY <1>8 DEF FanOut, Subscribe, Unsubscribe, Ask
  <2>2. /\ pc[c] \in {"fanOut", "open"}
        /\ \A d \in Conns : pc'[d] = pc[d] \/ (d = c /\ pc'[c] \in {"open", "subscribe", "unsubscribe"})
    BY <1>8 DEF TypeConns, FanOut, Subscribe, Unsubscribe, Ask
  <2> QED
    BY <1>1, <2>1, <2>2 DEF Objects, IsObject
<1>9. ASSUME NEW c \in Conns, NEW x \in Msgs, NEW u \in BOOLEAN, Send(c, x, u) PROVE Objects'
  BY <1>1, <1>9 DEF TypeConns, Objects, IsObject, Send
<1>10. CASE UNCHANGED <<pc, obj, mrn, edgeRouters, subs>>
  BY <1>1, <1>10 DEF Objects, IsObject
<1>11. ASSUME NEW c \in Conns, NEW S \in SUBSET Msgs, Receive(c, S) PROVE Objects'
  BY <1>10, <1>11 DEF Receive
<1>12. CASE HandleOutgoingMessages
  BY <1>10, <1>12 DEF HandleOutgoingMessages, TakeOutgoing, PublishLook, PublishJoin, PublishStore
<1>13. CASE HandleIncomingMessages \/ TopicHandlesRace \/ MessageGC
  BY <1>10, <1>13 DEF HandleIncomingMessages, TakeIncoming, RouteIncoming, TopicHandlesRace, MessageGC
<1>14. ASSUME NEW x \in Msgs, Expire(x) \/ \E t \in Topics : HandleSubscription(t, x) PROVE Objects'
  BY <1>10, <1>14 DEF Expire, HandleSubscription
<1>15. CASE UNCHANGED vars
  BY <1>10, <1>15 DEF vars
<1> QED
  BY <1>2, <1>3, <1>4, <1>5, <1>6, <1>7, <1>8, <1>9, <1>11, <1>12, <1>13, <1>14, <1>15
  DEF Next, HandlerStep

(* What is left of a channel when its first element has been taken. *)
LEMMA TailFacts ==
    ASSUME NEW S, NEW s \in Seq(S), s # <<>>
    PROVE  /\ Len(s) \in Nat /\ 1 \in 1 .. Len(s) /\ Head(s) = s[1] /\ Len(Tail(s)) = Len(s) - 1
           /\ \A i \in 1 .. Len(Tail(s)) : i + 1 \in 1 .. Len(s) /\ Tail(s)[i] = s[i + 1]
  OBVIOUS

(* A handler takes up a request with what it is about, and keeps that      *)
(* until it has answered; nobody sends a message for the second time.      *)
LEMMA RequestsStep == IInv /\ TypeConns /\ TypeTraffic /\ [Next]_vars => Requests'
<1> SUFFICES ASSUME IInv, TypeConns, TypeTraffic, [Next]_vars PROVE Requests'
  OBVIOUS
<1> USE RouterAssumption DEF Goto, Finish, Requests, Sending, Self, SelfMrn
<1>1. Objects /\ Requests
  BY DEF IInv
<1>2. ASSUME NEW c \in Conns, Refuse(c) \/ MintToken(c) \/ Register(c) \/ RespondOk(c) \/ HandlerExit(c)
      PROVE Requests'
  BY <1>1, <1>2 DEF TypeConns, Refuse, MintToken, Register, RespondOk, HandlerExit
<1>3. ASSUME NEW c \in Conns, NEW m \in Mrns, NEW t \in Conns \cup {OldToken, None}, Connect(c, m, t)
      PROVE Requests'
  BY <1>1, <1>3 DEF TypeConns, Objects, IsObject, Connect
<1>4. ASSUME NEW c \in Conns, Lookup(c) PROVE Requests'
  BY <1>1, <1>4 DEF TypeConns, Lookup
<1>5. ASSUME NEW c \in Conns, SubscribeLock(c) PROVE Requests'
  BY <1>1, <1>5 DEF TypeConns, SubscribeLock
<1>6. ASSUME NEW c \in Conns, SubscribeJoin(c) PROVE Requests'
  BY <1>1, <1>6 DEF TypeConns, SubscribeJoin
<1>7. ASSUME NEW c \in Conns, SubscribeStore(c) \/ HandleUnsubscribe(c) PROVE Requests'
  BY <1>1, <1>7 DEF TypeConns, SubscribeStore, HandleUnsubscribe
<1>8. ASSUME NEW c \in Conns, SendLock(c) PROVE Requests'
  BY <1>1, <1>8 DEF TypeConns, SendLock
<1>9. ASSUME NEW c \in Conns, NEW t \in Topics, FanOut(c, t) PROVE Requests'
  BY <1>1, <1>9 DEF TypeConns, FanOut
<1>10. ASSUME NEW c \in Conns, NEW t \in Topics, Subscribe(c, t) \/ Unsubscribe(c, t) PROVE Requests'
  BY <1>1, <1>10 DEF TypeConns, Subscribe, Unsubscribe, Ask
<1>11. ASSUME NEW c \in Conns, NEW x \in Msgs, NEW u \in BOOLEAN, Send(c, x, u) PROVE Requests'
  <2>1. \A d \in Conns : Sending(d) => source[work[d]] # None
    BY <1>1, SelfFacts
  <2>2. /\ source[x] = None /\ source' = [source EXCEPT ![x] = SelfMrn(c)] /\ UNCHANGED <<obj, mrn>>
        /\ pc' = [pc EXCEPT ![c] = IF Recipients[x] # {} THEN "sendLock" ELSE "fanOut"]
        /\ work' = [work EXCEPT ![c] = x] /\ todo' = [todo EXCEPT ![c] = TopicsOf(x)]
    BY <1>11 DEF Send
  <2> QED
    BY <1>1, <2>1, <2>2 DEF TypeConns, TypeTraffic
<1>12. ASSUME NEW x \in Msgs, NEW t \in Topics, HandleSubscription(t, x) PROVE Requests'
  <2>1. \A c \in Conns : Sending(c) => work[c] # x
    BY <1>1, <1>12, SelfFacts DEF HandleSubscription
  <2>2. UNCHANGED <<pc, obj, mrn, work, todo>> /\ source' = [source EXCEPT ![x] = Net]
    BY <1>12 DEF HandleSubscription
  <2> QED
    BY <1>1, <2>1, <2>2 DEF TypeTraffic
<1>13. CASE UNCHANGED <<pc, obj, mrn, work, todo, source>>
  BY <1>1, <1>13
<1>14. ASSUME NEW c \in Conns, NEW S \in SUBSET Msgs, Receive(c, S) PROVE Requests'
  BY <1>13, <1>14 DEF Receive
<1>15. CASE HandleOutgoingMessages
  BY <1>13, <1>15 DEF HandleOutgoingMessages, TakeOutgoing, PublishLook, PublishJoin, PublishStore
<1>16. CASE HandleIncomingMessages \/ TopicHandlesRace \/ MessageGC
  BY <1>13, <1>16 DEF HandleIncomingMessages, TakeIncoming, RouteIncoming, TopicHandlesRace, MessageGC
<1>17. ASSUME NEW x \in Msgs, Expire(x) PROVE Requests'
  BY <1>13, <1>17 DEF Expire
<1>18. CASE UNCHANGED vars
  BY <1>13, <1>18 DEF vars
<1> QED
  BY <1>2, <1>3, <1>4, <1>5, <1>6, <1>7, <1>8, <1>9, <1>10, <1>11, <1>12, <1>14, <1>15, <1>16, <1>17,
     <1>18 DEF Next, HandlerStep

(* Only what the network has sent is put on incomingChannel, for a topic   *)
(* that is read and so known; known topics stay known.                     *)
LEMMA ArrivalsStep == IInv /\ TypeConns /\ TypeMaps /\ TypeTraffic /\ [Next]_vars => Arrivals'
<1> SUFFICES ASSUME IInv, TypeConns, TypeMaps, TypeTraffic, [Next]_vars PROVE Arrivals'
  OBVIOUS
<1> USE RouterAssumption
<1>1. Arrivals /\ Objects
  BY DEF IInv
<1>2. CASE UNCHANGED <<inChan, in, source, bare>> /\ known \subseteq known' /\ listening' \subseteq known'
  BY <1>1, <1>2 DEF Arrivals, InFlight
<1>3. listening \subseteq known
  BY <1>1 DEF Arrivals
<1>4. ASSUME NEW c \in Conns,
             Refuse(c) \/ Lookup(c) \/ MintToken(c) \/ Register(c) \/ RespondOk(c) \/ HandlerExit(c) \/ SendLock(c)
      PROVE Arrivals'
  BY <1>2, <1>3, <1>4 DEF Refuse, Lookup, MintToken, Register, RespondOk, HandlerExit, SendLock
<1>5. ASSUME NEW c \in Conns,
             SubscribeLock(c) \/ SubscribeJoin(c) \/ SubscribeStore(c) \/ HandleUnsubscribe(c)
      PROVE Arrivals'
  BY <1>2, <1>3, <1>5 DEF SubscribeLock, SubscribeJoin, SubscribeStore, AddSubscriber, HandleUnsubscribe
<1>6. ASSUME NEW c \in Conns, NEW t \in Topics, FanOut(c, t) \/ Subscribe(c, t) \/ Unsubscribe(c, t)
      PROVE Arrivals'
  BY <1>2, <1>3, <1>6 DEF FanOut, Subscribe, Unsubscribe, Ask
<1>7. ASSUME NEW c \in Conns, NEW m \in Mrns, NEW t \in Conns \cup {OldToken, None}, Connect(c, m, t)
      PROVE Arrivals'
  BY <1>2, <1>3, <1>7 DEF Connect
<1>8. ASSUME NEW c \in Conns, NEW x \in Msgs, NEW u \in BOOLEAN, Send(c, x, u) PROVE Arrivals'
  <2>1. SelfMrn(c) \in Mrns
    BY <1>1, <1>8, SelfFacts DEF Send
  <2>2. source' = [source EXCEPT ![x] = SelfMrn(c)] /\ source[x] = None /\ bare' \subseteq bare \cup {x}
    BY <1>8 DEF Send
  <2>3. UNCHANGED <<inChan, in, known, listening>>
    BY <1>8 DEF Send
  <2> QED
    BY <1>1, <2>1, <2>2, <2>3 DEF Arrivals, InFlight, TypeTraffic
<1>9. ASSUME NEW c \in Conns, NEW S \in SUBSET Msgs, Receive(c, S) PROVE Arrivals'
  BY <1>2, <1>3, <1>9 DEF Receive
<1>10. CASE HandleOutgoingMessages
  BY <1>2, <1>3, <1>10 DEF HandleOutgoingMessages, TakeOutgoing, PublishLook, PublishJoin, PublishStore
<1>11. CASE TakeIncoming
  <2>1. /\ Head(inChan) \in Msgs /\ inChan' = Tail(inChan) /\ Head(inChan) = inChan[1] /\ 1 \in 1 .. Len(inChan)
        /\ \A i \in 1 .. Len(inChan') : i + 1 \in 1 .. Len(inChan) /\ inChan'[i] = inChan[i + 1]
    BY <1>11, TailFacts DEF TakeIncoming, TypeTraffic
  <2>2. \A x \in Msgs : InFlight(x)' => InFlight(x)
    BY <1>11, <2>1 DEF TakeIncoming, InFlight, Idle
  <2> QED
    BY <1>1, <1>11, <2>1, <2>2 DEF TakeIncoming, Arrivals, Idle
<1>12. ASSUME NEW t \in Topics, RouteIncoming(t) PROVE Arrivals'
  BY <1>1, <1>12 DEF RouteIncoming, Arrivals, InFlight, TypeTraffic, Idle
<1>13. CASE TopicHandlesRace \/ MessageGC
  BY <1>2, <1>3, <1>13 DEF TopicHandlesRace, MessageGC
<1>14. ASSUME NEW x \in Msgs, Expire(x) PROVE Arrivals'
  BY <1>2, <1>3, <1>14 DEF Expire
<1>15. ASSUME NEW x \in Msgs, NEW t \in Topics, HandleSubscription(t, x) PROVE Arrivals'
  BY <1>1, <1>15 DEF HandleSubscription, Arrivals, InFlight, TypeTraffic
<1>16. CASE UNCHANGED vars
  BY <1>2, <1>3, <1>16 DEF vars
<1> QED
  BY <1>4, <1>5, <1>6, <1>7, <1>8, <1>9, <1>10, <1>11, <1>12, <1>13, <1>14, <1>15, <1>16
  DEF Next, HandlerStep, HandleIncomingMessages

(* A message is put into mailboxes of subscribers of one of its topics,    *)
(* which are objects, and not into those of its sender's MRN. Its sender   *)
(* is settled before, and neither it nor the MRN of an object changes.     *)
LEMMA MailboxesStep ==
    IInv /\ TypeConns /\ TypeMaps /\ TypeTraffic /\ [Next]_vars => Mailboxes' /\ RightMailboxes'
<1> SUFFICES ASSUME IInv, TypeConns, TypeMaps, TypeTraffic, [Next]_vars
             PROVE  Mailboxes' /\ RightMailboxes'
  OBVIOUS
<1> USE RouterAssumption
<1>1. Mailboxes /\ RightMailboxes /\ Objects /\ Requests /\ Arrivals
  BY DEF IInv
<1> DEFINE
      Right(o, x) == /\ obj[o] = o /\ source[x] # None
                     /\ everSub[o] \cap TopicsOf(x) # {} /\ mrn[o] # source[x]
      Stable == /\ \A o \in Conns : obj[o] = o => obj'[o] = o /\ mrn'[o] = mrn[o]
                /\ \A o \in Conns : everSub[o] \subseteq everSub'[o]
                /\ \A x \in Msgs : source[x] # None => source'[x] = source[x]
      QueuedRight == \A o \in Conns : \A x \in queue'[o] : x \in queue[o] \/ (x \in Msgs /\ Right(o, x))
      AskedFor == \A t \in Topics, m \in Mrns :
                     subs'[t][m] \notin {None, subs[t][m]} => t \in everSub'[subs'[t][m]]
<1>2. ASSUME Stable, QueuedRight, AskedFor PROVE Mailboxes' /\ RightMailboxes'
  <2>1. \A o \in Conns : \A x \in queue'[o] : x \in Msgs /\ Right(o, x)
    BY <1>1, <1>2 DEF Mailboxes, RightMailboxes, TypeTraffic
  <2>2. Mailboxes'
    BY <1>1, <1>2, <2>1 DEF Mailboxes, TypeMaps
  <2>3. RightMailboxes'
    BY <1>1, <1>2, <2>1 DEF RightMailboxes
  <2> QED
    BY <2>2, <2>3
<1> HIDE DEF Stable, QueuedRight, AskedFor
<1>3. CASE UNCHANGED <<obj, mrn, subs, everSub, queue, source>>
  BY <1>2, <1>3 DEF Stable, QueuedRight, AskedFor
<1>4. ASSUME NEW c \in Conns,
             \/ Refuse(c) \/ MintToken(c) \/ Register(c) \/ RespondOk(c) \/ HandlerExit(c) \/ SendLock(c)
             \/ SubscribeJoin(c)
      PROVE  Mailboxes' /\ RightMailboxes'
  BY <1>3, <1>4 DEF Refuse, MintToken, Register, RespondOk, HandlerExit, SendLock, SubscribeJoin
<1>5. ASSUME NEW c \in Conns, NEW m \in Mrns, NEW t \in Conns \cup {OldToken, None}, Connect(c, m, t)
      PROVE  Mailboxes' /\ RightMailboxes'
  <2>1. Stable
    BY <1>1, <1>5 DEF Connect, Objects, IsObject, TypeConns, Stable
  <2> QED
    BY <1>2, <1>5, <2>1 DEF Connect, QueuedRight, AskedFor
<1>6. ASSUME NEW c \in Conns, Lookup(c) PROVE Mailboxes' /\ RightMailboxes'
  <2>1. Stable
    BY <1>1, <1>6 DEF Lookup, Objects, TypeConns, Stable
  <2> QED
    BY <1>2, <1>6, <2>1 DEF Lookup, QueuedRight, AskedFor
<1>7. ASSUME NEW c \in Conns, SubscribeLock(c) \/ SubscribeStore(c) PROVE Mailboxes' /\ RightMailboxes'
  <2>1. Self(c) \in Conns /\ SelfMrn(c) \in Mrns /\ work[c] \in Topics
    BY <1>1, <1>7, SelfFacts DEF SubscribeLock, SubscribeStore, Requests
  <2>2. UNCHANGED <<obj, mrn, queue, source>>
    BY <1>7 DEF SubscribeLock, SubscribeStore
  <2>3. CASE AddSubscriber(c, work[c])
    <3>1. everSub' = [everSub EXCEPT ![Self(c)] = @ \cup {work[c]}]
      BY <2>3 DEF AddSubscriber
    <3>2. subs' = [subs EXCEPT ![work[c]][SelfMrn(c)] = Self(c)]
      BY <2>3 DEF AddSubscriber
    <3>3. \A u \in Topics, n \in Mrns :
             subs'[u][n] = IF u = work[c] /\ n = SelfMrn(c) THEN Self(c) ELSE subs[u][n]
      BY <2>1, <3>2, SubsWrites DEF TypeMaps
    <3>4. Stable /\ QueuedRight
      BY <2>1, <2>2, <3>1 DEF TypeMaps, Stable, QueuedRight
    <3>5. AskedFor
      BY <2>1, <3>1, <3>3 DEF TypeMaps, AskedFor
    <3> QED
      BY <1>2, <3>4, <3>5
  <2> QED
    BY <1>3, <1>7, <2>2, <2>3 DEF SubscribeLock, SubscribeStore
<1>8. ASSUME NEW c \in Conns, HandleUnsubscribe(c) PROVE Mailboxes' /\ RightMailboxes'
  <2>1. AskedFor
    BY <1>8 DEF HandleUnsubscribe, TypeMaps, AskedFor
  <2> QED
    BY <1>2, <1>8, <2>1 DEF HandleUnsubscribe, Stable, QueuedRight
<1>9. ASSUME NEW c \in Conns, NEW t \in Topics, FanOut(c, t) PROVE Mailboxes' /\ RightMailboxes'
  <2>1. /\ work[c] \in Msgs /\ source[work[c]] = SelfMrn(c) /\ SelfMrn(c) \in Mrns
        /\ t \in TopicsOf(work[c])
    BY <1>1, <1>9, SelfFacts DEF FanOut, Requests, Sending
  <2>2. ASSUME NEW o \in Conns, NEW x \in queue'[o], x \notin queue[o]
        PROVE  x = work[c] /\ o \in Subscribers(t) /\ mrn[o] # SelfMrn(c)
    BY <1>9, <2>2 DEF FanOut, QueueMessage
  <2>3. QueuedRight
    BY <1>1, <2>1, <2>2 DEF Subscribers, Objects, IsObject, Mailboxes, QueuedRight
  <2> QED
    BY <1>2, <1>9, <2>3 DEF FanOut, Stable, AskedFor
<1>10. ASSUME NEW t \in Topics, RouteIncoming(t) PROVE Mailboxes' /\ RightMailboxes'
  <2>1. in.msg \in Msgs /\ source[in.msg] = Net /\ t \in TopicsOf(in.msg)
    BY <1>1, <1>10 DEF RouteIncoming, Arrivals, InFlight, TypeTraffic
  <2>2. ASSUME NEW o \in Conns, NEW x \in queue'[o], x \notin queue[o]
        PROVE  x = in.msg /\ o \in Subscribers(t)
    BY <1>10, <2>2 DEF RouteIncoming, QueueMessage
  <2>3. QueuedRight
    BY <1>1, <2>1, <2>2 DEF Subscribers, Objects, IsObject, Mailboxes, QueuedRight
  <2> QED
    BY <1>2, <1>10, <2>3 DEF RouteIncoming, Stable, AskedFor
<1>11. ASSUME NEW c \in Conns, NEW x \in Msgs, NEW u \in BOOLEAN, Send(c, x, u)
       PROVE  Mailboxes' /\ RightMailboxes'
  BY <1>2, <1>11 DEF Send, Stable, QueuedRight, AskedFor, TypeTraffic
<1>12. ASSUME NEW x \in Msgs, NEW t \in Topics, HandleSubscription(t, x) PROVE Mailboxes' /\ RightMailboxes'
  BY <1>2, <1>12 DEF HandleSubscription, Stable, QueuedRight, AskedFor, TypeTraffic
<1>13. ASSUME NEW c \in Conns, NEW S \in SUBSET Msgs, Receive(c, S) PROVE Mailboxes' /\ RightMailboxes'
  BY <1>2, <1>13 DEF Receive, Stable, QueuedRight, AskedFor, TypeTraffic
<1>14. CASE MessageGC
  BY <1>2, <1>14 DEF MessageGC, Stable, QueuedRight, AskedFor
<1>15. ASSUME NEW c \in Conns, NEW t \in Topics, Subscribe(c, t) \/ Unsubscribe(c, t)
       PROVE  Mailboxes' /\ RightMailboxes'
  BY <1>3, <1>15 DEF Subscribe, Unsubscribe, Ask
<1>16. CASE HandleOutgoingMessages \/ TakeIncoming \/ TopicHandlesRace
  BY <1>3, <1>16
  DEF HandleOutgoingMessages, TakeOutgoing, PublishLook, PublishJoin, PublishStore, TakeIncoming, TopicHandlesRace
<1>17. ASSUME NEW x \in Msgs, Expire(x) PROVE Mailboxes' /\ RightMailboxes'
  BY <1>3, <1>17 DEF Expire
<1>18. CASE UNCHANGED vars
  BY <1>3, <1>18 DEF vars
<1> QED
  BY <1>4, <1>5, <1>6, <1>7, <1>8, <1>9, <1>10, <1>11, <1>12, <1>13, <1>14, <1>15, <1>16, <1>17, <1>18
  DEF Next, HandlerStep, HandleIncomingMessages

(* What a channel holds after a send on it. *)
LEMMA AppendFacts ==
    ASSUME NEW S, NEW s \in Seq(S), NEW e \in S
    PROVE  /\ Len(s) \in Nat /\ Len(Append(s, e)) = Len(s) + 1
           /\ \A i \in 1 .. Len(s) : Append(s, e)[i] = s[i]
           /\ Append(s, e)[Len(s) + 1] = e
  OBVIOUS

(* A message with one topic is handed over whole: by the handler that has  *)
(* read it, to all subscribers in one step, or by the goroutine of its     *)
(* topic, once, to incomingChannel, from where it is routed in one step.   *)
LEMMA OnceOnlyStep == IInv /\ TypeConns /\ TypeMaps /\ TypeTraffic /\ [Next]_vars => OnceOnly'
<1> SUFFICES ASSUME IInv, TypeConns, TypeMaps, TypeTraffic, [Next]_vars,
                    NEW x \in Msgs, ~SeveralTopics(x)
             PROVE  /\ (InFlight(x) => \A t \in TopicsOf(x) : <<x, t>> \in heard)'
                    /\ (in.msg = x => \A i \in 1 .. Len(inChan) : inChan[i] # x)'
                    /\ (\A i, j \in 1 .. Len(inChan) : inChan[i] = x /\ inChan[j] = x => i = j)'
                    /\ (\A c, d \in Conns : Sending(c) /\ Sending(d) /\ work[c] = x /\ work[d] = x => c = d)'
                    /\ (\A o \in Conns : x \in queue[o] \cup taken[o] =>
                           /\ source[x] # None /\ ~InFlight(x)
                           /\ \A c \in Conns : Sending(c) => work[c] # x
                           /\ source[x] = Net => \A t \in TopicsOf(x) : <<x, t>> \in heard)'
  BY DEF OnceOnly
<1> DEFINE
      Fans(c) == Sending(c) /\ work[c] = x
      Heard == \A t \in TopicsOf(x) : <<x, t>> \in heard
      Got(o) == x \in queue[o] \cup taken[o]
      Once == /\ InFlight(x) => Heard
              /\ in.msg = x => \A i \in 1 .. Len(inChan) : inChan[i] # x
              /\ \A i, j \in 1 .. Len(inChan) : inChan[i] = x /\ inChan[j] = x => i = j
              /\ \A c, d \in Conns : Fans(c) /\ Fans(d) => c = d
              /\ \A o \in Conns : Got(o) =>
                    /\ source[x] # None /\ ~InFlight(x) /\ (source[x] = Net => Heard)
                    /\ \A c \in Conns : ~Fans(c)
<1>1. SUFFICES Once'
  OBVIOUS
<1> USE RouterAssumption
<1>2. Once
  BY DEF IInv, OnceOnly
<1>3. /\ InFlight(x) => source[x] = Net
      /\ \A c \in Conns : Fans(c) => source[x] \in Mrns
  BY SelfFacts DEF IInv, Arrivals, Requests, Sending
<1>4. \A t, u \in TopicsOf(x) : t = u
  BY DEF SeveralTopics
<1> HIDE DEF Once
<1>5. ASSUME UNCHANGED <<inChan, in, heard, source>>,
             \A c \in Conns : Fans(c)' => Fans(c), \A o \in Conns : Got(o)' => Got(o)
      PROVE  Once'
  BY <1>2, <1>5 DEF Once, InFlight
<1> HIDE DEF Fans, Got
<1>6. CASE UNCHANGED <<pc, work, inChan, in, heard, source, queue, taken>>
  BY <1>5, <1>6 DEF Fans, Got, Sending
<1>7. ASSUME NEW c \in Conns,
             Refuse(c) \/ Lookup(c) \/ MintToken(c) \/ Register(c) \/ RespondOk(c) \/ HandlerExit(c) \/ SendLock(c)
      PROVE Once'
  <2>1. \A d \in Conns : Fans(d)' => Fans(d)
    BY <1>7
    DEF TypeConns, Refuse, Lookup, MintToken, Register, RespondOk, HandlerExit, SendLock, Goto, Fans, Sending
  <2> QED
    BY <1>5, <1>7, <2>1 DEF Refuse, Lookup, MintToken, Register, RespondOk, HandlerExit, SendLock, Got
<1>8. ASSUME NEW c \in Conns, NEW m \in Mrns, NEW t \in Conns \cup {OldToken, None}, Connect(c, m, t)
      PROVE Once'
  <2>1. \A d \in Conns : Fans(d)' => Fans(d)
    BY <1>8 DEF TypeConns, Connect, Goto, Fans, Sending
  <2> QED
    BY <1>5, <1>8, <2>1 DEF Connect, Got
<1>9. ASSUME NEW c \in Conns,
             SubscribeLock(c) \/ SubscribeJoin(c) \/ SubscribeStore(c) \/ HandleUnsubscribe(c)
      PROVE Once'
  <2>1. \A d \in Conns : Fans(d)' => Fans(d)
    BY <1>9
    DEF TypeConns, SubscribeLock, SubscribeJoin, SubscribeStore, HandleUnsubscribe, Goto, Finish, Fans, Sending
  <2> QED
    BY <1>5, <1>9, <2>1 DEF SubscribeLock, SubscribeJoin, SubscribeStore, HandleUnsubscribe, Got
<1>10. ASSUME NEW c \in Conns, NEW t \in Topics, Subscribe(c, t) \/ Unsubscribe(c, t) PROVE Once'
  <2>1. \A d \in Conns : Fans(d)' => Fans(d)
    BY <1>10 DEF TypeConns, Subscribe, Unsubscribe, Ask, Goto, Fans, Sending
  <2> QED
    BY <1>5, <1>10, <2>1 DEF Subscribe, Unsubscribe, Ask, Got
<1>11. ASSUME NEW c \in Conns, NEW t \in Topics, FanOut(c, t) PROVE Once'
  <2>1. \A d \in Conns : Fans(d)' => Fans(d)
    BY <1>11 DEF TypeConns, FanOut, Goto, Finish, Fans, Sending
  <2>2. UNCHANGED <<inChan, in, heard, source, taken>>
    BY <1>11 DEF FanOut
  <2>3. CASE work[c] # x
    <3>1. \A o \in Conns : Got(o)' => Got(o)
      BY <1>11, <2>2, <2>3 DEF FanOut, QueueMessage, Got
    <3> QED
      BY <1>5, <2>1, <2>2, <3>1
  <2>4. CASE work[c] = x
    <3>1. Fans(c) /\ todo[c] \subseteq TopicsOf(x) /\ t \in todo[c]
      BY <1>11, <2>4 DEF FanOut, IInv, Requests, Fans, Sending
    <3>2. todo'[c] = {}
      BY <1>4, <1>11, <3>1 DEF FanOut, TypeConns
    <3>3. pc'[c] = "open"
      BY <1>11, <3>2 DEF FanOut, Finish, Goto, TypeConns
    <3>4. \A d \in Conns : ~Fans(d)'
      BY <1>2, <2>1, <3>1, <3>3 DEF Once, Fans, Sending
    <3> QED
      BY <1>2, <1>3, <2>2, <3>1, <3>4 DEF Once, InFlight
  <2> QED
    BY <2>3, <2>4
<1>12. ASSUME NEW c \in Conns, NEW y \in Msgs, NEW u \in BOOLEAN, Send(c, y, u) PROVE Once'
  <2>1. /\ source[y] = None /\ source' = [source EXCEPT ![y] = SelfMrn(c)]
        /\ UNCHANGED <<inChan, in, heard, queue, taken>>
    BY <1>12 DEF Send
  <2>2. \A d \in Conns \ {c} : Fans(d)' <=> Fans(d)
    BY <1>12 DEF TypeConns, Send, Goto, Fans, Sending
  <2>3. Fans(c)' => y = x
    BY <1>12 DEF TypeConns, Send, Fans
  <2>4. CASE y = x
    <3>1. ~InFlight(x) /\ (\A d \in Conns : ~Fans(d)) /\ (\A o \in Conns : ~Got(o))
      BY <1>2, <1>3, <2>1, <2>4 DEF Once
    <3> QED
      BY <1>2, <2>1, <2>2, <3>1 DEF Once, InFlight, Got
  <2>5. CASE y # x
    BY <1>2, <2>1, <2>2, <2>3, <2>5 DEF Once, InFlight, Got, TypeTraffic
  <2> QED
    BY <2>4, <2>5
<1>13. CASE TakeIncoming
  <2>1. /\ Head(inChan) = inChan[1] /\ 1 \in 1 .. Len(inChan)
        /\ \A i \in 1 .. Len(inChan') : i \in Nat /\ i + 1 \in 1 .. Len(inChan) /\ inChan'[i] = inChan[i + 1]
    BY <1>13, TailFacts DEF TakeIncoming, TypeTraffic
  <2>2. in'.msg = Head(inChan) \/ in'.msg = None
    BY <1>13 DEF TakeIncoming, Idle
  <2>3. UNCHANGED <<heard, source, pc, work, queue, taken>>
    BY <1>13 DEF TakeIncoming
  <2>4. InFlight(x)' => InFlight(x)
    BY <2>1, <2>2 DEF InFlight
  <2>5. in'.msg = x => \A i \in 1 .. Len(inChan') : inChan'[i] # x
    BY <1>2, <2>1, <2>2 DEF Once
  <2>6. \A i, j \in 1 .. Len(inChan') : inChan'[i] = x /\ inChan'[j] = x => i = j
    BY <1>2, <2>1 DEF Once
  <2>7. UNCHANGED Heard /\ \A c \in Conns : UNCHANGED <<Fans(c), Got(c)>>
    BY <2>3 DEF Fans, Got, Sending
  <2> QED
    BY <1>2, <2>3, <2>4, <2>5, <2>6, <2>7 DEF Once
<1>14. ASSUME NEW t \in Topics, RouteIncoming(t) PROVE Once'
  <2>1. UNCHANGED <<inChan, heard, source, pc, work, taken>>
    BY <1>14 DEF RouteIncoming
  <2>2. in'.msg = in.msg \/ in'.msg = None
    BY <1>14 DEF RouteIncoming, Idle
  <2>3. InFlight(x)' => InFlight(x)
    BY <2>1, <2>2 DEF InFlight
  <2>4. \A c \in Conns : Fans(c)' <=> Fans(c)
    BY <2>1 DEF Fans, Sending
  <2>5. CASE \A o \in Conns : Got(o)' => Got(o)
    BY <1>2, <2>1, <2>2, <2>3, <2>4, <2>5 DEF Once
  <2>6. CASE \E o \in Conns : Got(o)' /\ ~Got(o)
    <3>1. in.msg = x /\ t \in known
      BY <1>14, <2>1, <2>6 DEF RouteIncoming, QueueMessage, Got
    <3>2. in.todo = {t}
      BY <1>4, <1>14, <3>1 DEF RouteIncoming, IInv, Arrivals
    <3>3. in'.msg = None
      BY <1>14, <3>1, <3>2 DEF RouteIncoming, Idle
    <3>4. InFlight(x) /\ ~InFlight(x)'
      BY <1>2, <2>1, <3>1, <3>3 DEF Once, InFlight
    <3> QED
      BY <1>2, <1>3, <2>1, <2>4, <3>3, <3>4 DEF Once
  <2> QED
    BY <2>5, <2>6
<1>15. ASSUME NEW y \in Msgs, NEW t \in Topics, HandleSubscription(t, y) PROVE Once'
  <2>1. /\ t \in TopicsOf(y) /\ <<y, t>> \notin heard /\ source[y] \notin Mrns
        /\ inChan' = Append(inChan, y) /\ source' = [source EXCEPT ![y] = Net]
        /\ heard' = heard \cup {<<y, t>>} /\ UNCHANGED <<in, pc, work, queue, taken>>
    BY <1>15 DEF HandleSubscription
  <2>2. /\ Len(inChan) \in Nat /\ Len(inChan') = Len(inChan) + 1
        /\ \A i \in 1 .. Len(inChan) : inChan'[i] = inChan[i]
        /\ inChan'[Len(inChan) + 1] = y
    BY <2>1, AppendFacts DEF TypeTraffic
  <2>3. \A i \in 1 .. Len(inChan') : inChan'[i] = x =>
           (i \in 1 .. Len(inChan) /\ inChan[i] = x) \/ (i = Len(inChan) + 1 /\ y = x)
    BY <2>2
  <2>4. \A c \in Conns : (Fans(c)' <=> Fans(c)) /\ (Got(c)' <=> Got(c))
    BY <2>1 DEF Fans, Got, Sending
  <2>5. Heard => Heard'
    BY <2>1
  <2>6. CASE y # x
    <3>1. source'[x] = source[x] /\ (InFlight(x)' => InFlight(x))
      BY <2>1, <2>3, <2>6 DEF InFlight, TypeTraffic
    <3> QED
      BY <1>2, <2>1, <2>3, <2>4, <2>5, <2>6, <3>1 DEF Once
  <2>7. CASE y = x
    <3>1. ~Heard /\ Heard'
      BY <1>4, <2>1, <2>7
    <3>2. ~InFlight(x) /\ \A o \in Conns : ~Got(o)
      BY <1>2, <2>1, <2>7, <3>1 DEF Once, TypeTraffic
    <3> QED
      BY <1>2, <2>1, <2>3, <2>4, <3>1, <3>2 DEF Once, InFlight
  <2> QED
    BY <2>6, <2>7
<1>16. ASSUME NEW c \in Conns, NEW S \in SUBSET Msgs, Receive(c, S) PROVE Once'
  <2>1. \A o \in Conns : Got(o)' => Got(o)
    BY <1>16 DEF Receive, Got, TypeTraffic
  <2> QED
    BY <1>5, <1>16, <2>1 DEF Receive, Fans, Sending
<1>17. CASE MessageGC
  <2>1. \A o \in Conns : Got(o)' => Got(o)
    BY <1>17 DEF MessageGC, Got
  <2> QED
    BY <1>5, <1>17, <2>1 DEF MessageGC, Fans, Sending
<1>18. CASE HandleOutgoingMessages \/ TopicHandlesRace
  BY <1>6, <1>18
  DEF HandleOutgoingMessages, TakeOutgoing, PublishLook, PublishJoin, PublishStore, TopicHandlesRace
<1>19. ASSUME NEW y \in Msgs, Expire(y) PROVE Once'
  BY <1>6, <1>19 DEF Expire
<1>20. CASE UNCHANGED vars
  BY <1>6, <1>20 DEF vars
<1> QED
  BY <1>7, <1>8, <1>9, <1>10, <1>11, <1>12, <1>13, <1>14, <1>15, <1>16, <1>17, <1>18, <1>19, <1>20
  DEF Next, HandlerStep, HandleIncomingMessages

(* No goroutine but handleOutgoingMessages changes what it is about, and a *)
(* topic gets its handle meanwhile only by a subscription to it.           *)
LEMMA PublishingStep == IInv /\ TypeConns /\ TypeMaps /\ TypeTraffic /\ [Next]_vars => Publishing'
<1> SUFFICES ASSUME IInv, TypeConns, TypeMaps, TypeTraffic, [Next]_vars PROVE Publishing'
  OBVIOUS
<1> USE RouterAssumption
<1>1. Publishing
  BY DEF IInv
<1>2. ASSUME UNCHANGED out, known \subseteq known',
             topicHandles' \subseteq topicHandles \cup known'
      PROVE  Publishing'
  BY <1>1, <1>2 DEF Publishing
<1>3. ASSUME NEW c \in Conns,
             \/ Refuse(c) \/ Lookup(c) \/ MintToken(c) \/ Register(c) \/ RespondOk(c) \/ HandlerExit(c)
             \/ SubscribeJoin(c) \/ HandleUnsubscribe(c) \/ SendLock(c)
      PROVE Publishing'
  BY <1>2, <1>3
  DEF Refuse, Lookup, MintToken, Register, RespondOk, HandlerExit, SubscribeJoin, HandleUnsubscribe, SendLock
<1>4. ASSUME NEW c \in Conns, SubscribeLock(c) \/ SubscribeStore(c) PROVE Publishing'
  BY <1>2, <1>4 DEF SubscribeLock, SubscribeStore, AddSubscriber
<1>5. ASSUME NEW c \in Conns, NEW t \in Topics, FanOut(c, t) \/ Subscribe(c, t) \/ Unsubscribe(c, t)
      PROVE Publishing'
  BY <1>2, <1>5 DEF FanOut, Subscribe, Unsubscribe, Ask
<1>6. ASSUME NEW c \in Conns, NEW m \in Mrns, NEW t \in Conns \cup {OldToken, None}, Connect(c, m, t)
      PROVE Publishing'
  BY <1>2, <1>6 DEF Connect
<1>7. ASSUME NEW c \in Conns, NEW x \in Msgs, NEW u \in BOOLEAN, Send(c, x, u) PROVE Publishing'
  BY <1>2, <1>7 DEF Send
<1>8. ASSUME NEW c \in Conns, NEW S \in SUBSET Msgs, Receive(c, S) PROVE Publishing'
  BY <1>2, <1>8 DEF Receive
<1>9. CASE TakeOutgoing
  <2>1. Head(outChan) \in Msgs
    BY <1>9 DEF TakeOutgoing, TypeTraffic
  <2> QED
    BY <1>9, <2>1 DEF TakeOutgoing, Publishing
<1>10. ASSUME NEW t \in Topics, PublishLook(t) PROVE Publishing'
  BY <1>1, <1>10 DEF PublishLook, OutDone, OutAt, OutIdle, Publishing, TypeTraffic
<1>11. CASE PublishJoin
  BY <1>1, <1>11 DEF PublishJoin, OutDone, OutAt, OutIdle, Publishing, TypeTraffic
<1>12. CASE PublishStore
  BY <1>1, <1>12 DEF PublishStore, OutDone, OutAt, OutIdle, Publishing, TypeTraffic
<1>13. CASE HandleIncomingMessages \/ TopicHandlesRace \/ MessageGC
  BY <1>2, <1>13 DEF HandleIncomingMessages, TakeIncoming, RouteIncoming, TopicHandlesRace, MessageGC
<1>14. ASSUME NEW x \in Msgs, Expire(x) \/ \E t \in Topics : HandleSubscription(t, x) PROVE Publishing'
  BY <1>2, <1>14 DEF Expire, HandleSubscription
<1>15. CASE UNCHANGED vars
  BY <1>2, <1>15 DEF vars
<1> QED
  BY <1>3, <1>4, <1>5, <1>6, <1>7, <1>8, <1>9, <1>10, <1>11, <1>12, <1>13, <1>14, <1>15
  DEF Next, HandlerStep, HandleOutgoingMessages

(* A topic that is joined gets its handle from whoever joined it, and one  *)
(* that is found joined has its handle already, or a handler is about to   *)
(* enter it, with the subscription for which it joined.                    *)
LEMMA HandlesStep ==
    IInv /\ TypeConns /\ TypeMaps /\ TypeTraffic /\ [Next]_vars => JoinedIsUsable' /\ DropMeansSubscribed'
<1> SUFFICES ASSUME IInv, TypeConns, TypeMaps, TypeTraffic, [Next]_vars
             PROVE  JoinedIsUsable' /\ DropMeansSubscribed'
  OBVIOUS
<1> USE RouterAssumption
<1> DEFINE Storing(t) == \E c \in Conns : pc[c] = "store" /\ work[c] = t
           Publishes(t) == out.at = "store" /\ out.topic = t
<1>1. /\ \A t \in joined : t \in topicHandles \/ Publishes(t) \/ Storing(t)
      /\ \A d \in dropped : d[2] \in known \/ Storing(d[2])
  BY DEF IInv, JoinedIsUsable, StoringHandle, DropMeansSubscribed
<1>2. SUFFICES /\ \A t \in joined' : t \in topicHandles' \/ Publishes(t)' \/ Storing(t)'
               /\ \A d \in dropped' : d[2] \in known' \/ Storing(d[2])'
  BY DEF JoinedIsUsable, StoringHandle, DropMeansSubscribed
<1> DEFINE Goal == /\ \A t \in joined' : t \in topicHandles' \/ Publishes(t)' \/ Storing(t)'
                   /\ \A d \in dropped' : d[2] \in known' \/ Storing(d[2])'
<1>3. SUFFICES Goal
  OBVIOUS
<1>4. ASSUME UNCHANGED <<joined, topicHandles, dropped, known, out>>,
             \A t : Storing(t) => Storing(t)'
      PROVE  Goal
  BY <1>1, <1>4
<1> HIDE DEF Goal, Storing
<1>5. CASE UNCHANGED <<joined, topicHandles, dropped, known, out, pc, work>>
  BY <1>4, <1>5 DEF Storing
<1>6. ASSUME NEW c \in Conns,
             \/ Refuse(c) \/ Lookup(c) \/ MintToken(c) \/ Register(c) \/ RespondOk(c) \/ HandlerExit(c)
             \/ HandleUnsubscribe(c) \/ SendLock(c)
      PROVE Goal
  <2>1. \A t : Storing(t) => Storing(t)'
    BY <1>6
    DEF TypeConns, Refuse, Lookup, MintToken, Register, RespondOk, HandlerExit, HandleUnsubscribe, SendLock,
        Goto, Finish, Storing
  <2> QED
    BY <1>4, <1>6, <2>1
    DEF Refuse, Lookup, MintToken, Register, RespondOk, HandlerExit, HandleUnsubscribe, SendLock
<1>7. ASSUME NEW c \in Conns, NEW m \in Mrns, NEW t \in Conns \cup {OldToken, None}, Connect(c, m, t)
      PROVE Goal
  <2>1. \A u : Storing(u) => Storing(u)'
    BY <1>7 DEF TypeConns, Connect, Goto, Storing
  <2> QED
    BY <1>4, <1>7, <2>1 DEF Connect
<1>8. ASSUME NEW c \in Conns, NEW t \in Topics, FanOut(c, t) \/ Subscribe(c, t) \/ Unsubscribe(c, t)
      PROVE Goal
  <2>1. \A u : Storing(u) => Storing(u)'
    BY <1>8 DEF TypeConns, FanOut, Subscribe, Unsubscribe, Ask, Goto, Finish, Storing
  <2> QED
    BY <1>4, <1>8, <2>1 DEF FanOut, Subscribe, Unsubscribe, Ask
<1>9. ASSUME NEW c \in Conns, NEW x \in Msgs, NEW u \in BOOLEAN, Send(c, x, u) PROVE Goal
  <2>1. \A t : Storing(t) => Storing(t)'
    BY <1>9 DEF TypeConns, Send, Goto, Storing
  <2> QED
    BY <1>4, <1>9, <2>1 DEF Send
<1>10. ASSUME NEW c \in Conns, SubscribeLock(c) PROVE Goal
  <2>1. \A t : Storing(t) => Storing(t)'
    BY <1>10 DEF TypeConns, SubscribeLock, Goto, Finish, Storing
  <2>2. UNCHANGED <<joined, topicHandles, dropped, out>> /\ known \subseteq known'
    BY <1>10 DEF SubscribeLock, AddSubscriber
  <2> QED
    BY <1>1, <2>1, <2>2 DEF Goal
<1>11. ASSUME NEW c \in Conns, SubscribeJoin(c) PROVE Goal
  <2>1. \A t : Storing(t) => Storing(t)'
    BY <1>11 DEF TypeConns, SubscribeJoin, Goto, Finish, Storing
  <2>2. \A t : t = work[c] /\ t \notin joined => Storing(t)'
    BY <1>11 DEF TypeConns, SubscribeJoin, Goto, Storing
  <2>3. UNCHANGED <<topicHandles, dropped, known, out>> /\ joined' = joined \cup {work[c]}
    BY <1>11 DEF SubscribeJoin
  <2> QED
    BY <1>1, <2>1, <2>2, <2>3 DEF Goal
<1>12. ASSUME NEW c \in Conns, SubscribeStore(c) PROVE Goal
  <2>1. \A t : Storing(t) => Storing(t)' \/ t = work[c]
    BY <1>12 DEF TypeConns, SubscribeStore, Goto, Finish, Storing
  <2>2. /\ UNCHANGED <<joined, dropped, out>> /\ known' = known \cup {work[c]}
        /\ topicHandles' = topicHandles \cup {work[c]}
    BY <1>12 DEF SubscribeStore, AddSubscriber
  <2> QED
    BY <1>1, <2>1, <2>2 DEF Goal
<1>13. CASE TakeOutgoing
  <2>1. out.at = "look" /\ UNCHANGED <<joined, topicHandles, dropped, known, pc, work>>
    BY <1>13 DEF TakeOutgoing, IInv, Publishing, OutIdle
  <2> QED
    BY <1>1, <2>1 DEF Goal, Storing
<1>14. ASSUME NEW t \in Topics, PublishLook(t) PROVE Goal
  <2>1. out.at = "look" /\ UNCHANGED <<joined, topicHandles, dropped, known, pc, work>>
    BY <1>14 DEF PublishLook
  <2> QED
    BY <1>1, <2>1 DEF Goal, Storing
<1>15. CASE PublishJoin
  <2>1. out.at = "join" /\ UNCHANGED <<topicHandles, known, pc, work>> /\ joined' = joined \cup {out.topic}
    BY <1>15 DEF PublishJoin
  <2>2. \A t : t = out.topic /\ t \notin joined => Publishes(t)' /\ UNCHANGED dropped
    BY <1>15 DEF PublishJoin, OutAt
  <2>3. out.topic \in joined => dropped' = dropped \cup {<<out.msg, out.topic>>}
    BY <1>15 DEF PublishJoin
  <2>4. out.topic \in joined => out.topic \in known \/ Storing(out.topic)
    BY <1>1, <2>1 DEF IInv, Publishing
  <2>5. \A t : Storing(t)' <=> Storing(t)
    BY <2>1 DEF Storing
  <2> QED
    BY <1>1, <2>1, <2>2, <2>3, <2>4, <2>5 DEF Goal
<1>16. CASE PublishStore
  <2>1. /\ out.at = "store" /\ topicHandles' = topicHandles \cup {out.topic}
        /\ UNCHANGED <<joined, dropped, known, pc, work>>
    BY <1>16 DEF PublishStore
  <2> QED
    BY <1>1, <2>1 DEF Goal, Storing
<1>17. CASE HandleIncomingMessages \/ TopicHandlesRace \/ MessageGC
  BY <1>5, <1>17 DEF HandleIncomingMessages, TakeIncoming, RouteIncoming, TopicHandlesRace, MessageGC
<1>18. ASSUME NEW x \in Msgs, Expire(x) \/ \E t \in Topics : HandleSubscription(t, x) PROVE Goal
  BY <1>5, <1>18 DEF Expire, HandleSubscription
<1>19. ASSUME NEW c \in Conns, NEW S \in SUBSET Msgs, Receive(c, S) PROVE Goal
  BY <1>5, <1>19 DEF Receive
<1>20. CASE UNCHANGED vars
  BY <1>5, <1>20 DEF vars
<1> QED
  BY <1>6, <1>7, <1>8, <1>9, <1>10, <1>11, <1>12, <1>13, <1>14, <1>15, <1>16, <1>17, <1>18, <1>19, <1>20
  DEF Next, HandlerStep, HandleOutgoingMessages

(* edgeRouters never loses an MRN, and a handler enters its own before it  *)
(* answers or subscribes; so every token that was given out, and every     *)
(* subscription, belongs to an MRN that is in the map.                     *)
LEMMA RegistrationsStep ==
    IInv /\ TypeConns /\ TypeMaps /\ [Next]_vars => Registrations' /\ NilOnlyAfterRestart'
<1> SUFFICES ASSUME IInv, TypeConns, TypeMaps, [Next]_vars
             PROVE  Registrations' /\ NilOnlyAfterRestart'
  OBVIOUS
<1> USE RouterAssumption DEF Goto, Finish
<1>1. Registrations /\ NilOnlyAfterRestart /\ Objects /\ Requests
  BY DEF IInv
<1> DEFINE
      Early == {"off", "lookup", "mint", "register", "gone"}
      Kept == /\ \A m \in Mrns : edgeRouters[m] # None => edgeRouters'[m] # None
              /\ \A c \in Conns : obj[c] # None => obj'[c] # None /\ mrn'[c] = mrn[c]
      Answers == \A c \in Conns : answered'[c] = answered[c] \/ (obj'[c] # None /\ edgeRouters'[mrn'[c]] # None)
      Past == \A c \in Conns : pc'[c] \in Early \/ pc[c] \notin Early \/ edgeRouters'[mrn'[c]] # None
      Subs == \A t \in Topics, m \in Mrns :
                 subs'[t][m] \in {None, subs[t][m]} \/ edgeRouters'[m] # None
      Asking == \A c \in Conns : pc'[c] = "lookup" /\ asks'[c] \in Conns =>
                   \/ edgeRouters'[mrn'[c]] # None
                   \/ pc[c] = "lookup" /\ asks[c] \in Conns /\ mrn'[c] = mrn[c]
<1>2. ASSUME Kept, Answers, Past, Subs, Asking PROVE Registrations' /\ NilOnlyAfterRestart'
  <2>1. \A c \in Conns : /\ obj[c] # None => mrn[c] \in Mrns
                         /\ pc[c] \notin Early => obj[c] # None
                         /\ pc[c] = "lookup" => mrn[c] \in Mrns
    BY <1>1 DEF Objects
  <2>2. Registrations'
    BY <1>1, <1>2, <2>1 DEF Registrations
  <2>3. NilOnlyAfterRestart'
    BY <1>1, <1>2, <2>1 DEF NilOnlyAfterRestart
  <2> QED
    BY <2>2, <2>3
<1> HIDE DEF Kept, Answers, Past, Subs, Asking
<1>3. ASSUME UNCHANGED <<asks, obj, answered, mrn, edgeRouters, subs>>,
             \A c \in Conns : /\ pc'[c] \in Early \/ pc[c] \notin Early
                              /\ pc'[c] = "lookup" => pc[c] = "lookup"
      PROVE  Registrations' /\ NilOnlyAfterRestart'
  BY <1>2, <1>3 DEF Kept, Answers, Past, Subs, Asking
<1>4. CASE UNCHANGED <<pc, asks, obj, answered, mrn, edgeRouters, subs>>
  BY <1>3, <1>4
<1>5. ASSUME NEW c \in Conns, Refuse(c) \/ MintToken(c) \/ HandlerExit(c) \/ SubscribeJoin(c) \/ SendLock(c)
      PROVE  Registrations' /\ NilOnlyAfterRestart'
  BY <1>3, <1>5 DEF TypeConns, Refuse, MintToken, HandlerExit, SubscribeJoin, SendLock
<1>6. ASSUME NEW c \in Conns, NEW m \in Mrns, NEW t \in Conns \cup {OldToken, None}, Connect(c, m, t)
      PROVE  Registrations' /\ NilOnlyAfterRestart'
  <2>1. Kept
    BY <1>1, <1>6 DEF Connect, Objects, TypeConns, Kept
  <2>2. Answers /\ Past /\ Subs
    BY <1>6 DEF Connect, TypeConns, Answers, Past, Subs
  <2>3. Asking
    BY <1>1, <1>6 DEF Connect, Registrations, TypeConns, Asking
  <2> QED
    BY <1>2, <2>1, <2>2, <2>3
<1>7. ASSUME NEW c \in Conns, Lookup(c) PROVE Registrations' /\ NilOnlyAfterRestart'
  <2>1. Kept /\ Answers /\ Past /\ Subs
    BY <1>1, <1>7 DEF Lookup, Objects, TypeConns, TypeMaps, Kept, Answers, Past, Subs
  <2>2. Asking
    BY <1>7 DEF Lookup, TypeConns, Asking
  <2> QED
    BY <1>2, <2>1, <2>2
<1>8. ASSUME NEW c \in Conns, Register(c) PROVE Registrations' /\ NilOnlyAfterRestart'
  <2>1. Self(c) \in Conns /\ SelfMrn(c) = mrn[c] /\ mrn[c] \in Mrns
    BY <1>1, <1>8, SelfFacts DEF Register
  <2>2. Kept /\ Answers /\ Subs /\ Asking
    BY <1>8, <2>1 DEF Register, TypeConns, TypeMaps, Kept, Answers, Subs, Asking
  <2>3. Past
    BY <1>8, <2>1 DEF Register, TypeConns, TypeMaps, Past
  <2> QED
    BY <1>2, <2>2, <2>3
<1>9. ASSUME NEW c \in Conns, RespondOk(c) PROVE Registrations' /\ NilOnlyAfterRestart'
  <2>1. obj[c] # None /\ edgeRouters[mrn[c]] # None
    BY <1>1, <1>9 DEF RespondOk, Objects, Registrations
  <2>2. Kept /\ Answers /\ Past /\ Subs /\ Asking
    BY <1>9, <2>1 DEF RespondOk, TypeConns, Kept, Answers, Past, Subs, Asking
  <2> QED
    BY <1>2, <2>2
<1>10. ASSUME NEW c \in Conns, SubscribeLock(c) \/ SubscribeStore(c) PROVE Registrations' /\ NilOnlyAfterRestart'
  <2>1. /\ Self(c) \in Conns /\ SelfMrn(c) = mrn[c] /\ mrn[c] \in Mrns /\ work[c] \in Topics
        /\ edgeRouters[mrn[c]] # None
    BY <1>1, <1>10, SelfFacts DEF SubscribeLock, SubscribeStore, Registrations, Requests
  <2>2. UNCHANGED <<asks, obj, answered, mrn, edgeRouters>>
    BY <1>10 DEF SubscribeLock, SubscribeStore
  <2>3. \A d \in Conns : (pc'[d] \in Early \/ pc[d] \notin Early) /\ (pc'[d] = "lookup" => pc[d] = "lookup")
    BY <1>10 DEF SubscribeLock, SubscribeStore, TypeConns
  <2>4. CASE AddSubscriber(c, work[c])
    <3>1. subs' = [subs EXCEPT ![work[c]][SelfMrn(c)] = Self(c)]
      BY <2>4 DEF AddSubscriber
    <3>2. Subs
      BY <2>1, <2>2, <3>1 DEF TypeMaps, Subs
    <3> QED
      BY <1>2, <2>2, <2>3, <3>2 DEF Kept, Answers, Past, Asking
  <2>5. CASE UNCHANGED subs
    BY <1>3, <2>2, <2>3, <2>5
  <2> QED
    BY <1>10, <2>4, <2>5 DEF SubscribeLock, SubscribeStore
<1>11. ASSUME NEW c \in Conns, HandleUnsubscribe(c) PROVE Registrations' /\ NilOnlyAfterRestart'
  <2>1. Subs
    BY <1>11 DEF HandleUnsubscribe, TypeMaps, Subs
  <2> QED
    BY <1>2, <1>11, <2>1 DEF HandleUnsubscribe, TypeConns, Kept, Answers, Past, Asking
<1>12. ASSUME NEW c \in Conns, NEW t \in Topics, FanOut(c, t) \/ Subscribe(c, t) \/ Unsubscribe(c, t)
       PROVE  Registrations' /\ NilOnlyAfterRestart'
  <2>1. \A d \in Conns : (pc'[d] \in Early \/ pc[d] \notin Early) /\ (pc'[d] = "lookup" => pc[d] = "lookup")
    BY <1>12 DEF FanOut, Subscribe, Unsubscribe, Ask, TypeConns
  <2> QED
    BY <1>3, <1>12, <2>1 DEF FanOut, Subscribe, Unsubscribe, Ask
<1>13. ASSUME NEW c \in Conns, NEW x \in Msgs, NEW u \in BOOLEAN, Send(c, x, u)
       PROVE  Registrations' /\ NilOnlyAfterRestart'
  BY <1>3, <1>13 DEF Send, TypeConns
<1>14. ASSUME NEW c \in Conns, NEW S \in SUBSET Msgs, Receive(c, S) PROVE Registrations' /\ NilOnlyAfterRestart'
  BY <1>4, <1>14 DEF Receive
<1>15. CASE HandleOutgoingMessages
  BY <1>4, <1>15 DEF HandleOutgoingMessages, TakeOutgoing, PublishLook, PublishJoin, PublishStore
<1>16. CASE HandleIncomingMessages \/ TopicHandlesRace \/ MessageGC
  BY <1>4, <1>16 DEF HandleIncomingMessages, TakeIncoming, RouteIncoming, TopicHandlesRace, MessageGC
<1>17. ASSUME NEW x \in Msgs, Expire(x) \/ \E t \in Topics : HandleSubscription(t, x)
       PROVE  Registrations' /\ NilOnlyAfterRestart'
  BY <1>4, <1>17 DEF Expire, HandleSubscription
<1>18. CASE UNCHANGED vars
  BY <1>4, <1>18 DEF vars
<1> QED
  BY <1>5, <1>6, <1>7, <1>8, <1>9, <1>10, <1>11, <1>12, <1>13, <1>14, <1>15, <1>16, <1>17, <1>18
  DEF Next, HandlerStep

(* subMu is taken on the way into, and given back on every way out of, the *)
(* sections that hold it; only FanOut leaves locks behind, and only for a  *)
(* message without a UUID.                                                 *)
LEMMA LockStep == IInv /\ TypeConns /\ TypeMaps /\ [Next]_vars => LockDiscipline'
<1> SUFFICES ASSUME IInv, TypeConns, TypeMaps, [Next]_vars PROVE LockDiscipline'
  OBVIOUS
<1> USE RouterAssumption DEF Goto, Finish
<1> DEFINE Inside(c) == pc[c] \in {"join", "store", "stuck"}
<1>1. /\ \A c \in Conns : subMu = c <=> Inside(c)
      /\ leaked # {} \/ leakedSubs # {} => bare # {}
  BY DEF IInv, LockDiscipline
<1>2. ASSUME UNCHANGED <<subMu, leaked, leakedSubs>>, bare \subseteq bare',
             \A c \in Conns : Inside(c)' <=> Inside(c)
      PROVE  LockDiscipline'
  BY <1>1, <1>2 DEF LockDiscipline
<1>3. CASE UNCHANGED <<pc, subMu, leaked, leakedSubs, bare>>
  BY <1>2, <1>3
<1>4. ASSUME NEW c \in Conns,
             Refuse(c) \/ Lookup(c) \/ MintToken(c) \/ Register(c) \/ RespondOk(c) \/ HandlerExit(c) \/ SendLock(c)
      PROVE LockDiscipline'
  BY <1>2, <1>4 DEF TypeConns, Refuse, Lookup, MintToken, Register, RespondOk, HandlerExit, SendLock
<1>5. ASSUME NEW c \in Conns, SubscribeLock(c) \/ HandleUnsubscribe(c) PROVE LockDiscipline'
  <2>1. subMu = None /\ UNCHANGED <<leaked, leakedSubs, bare>>
    BY <1>5 DEF SubscribeLock, HandleUnsubscribe, SubMuWritable
  <2>2. \A d \in Conns : ~Inside(d)
    BY <1>1, <2>1
  <2>3. \A d \in Conns \ {c} : ~Inside(d)'
    BY <1>5, <2>2 DEF TypeConns, SubscribeLock, HandleUnsubscribe
  <2>4. (subMu' = c /\ Inside(c)') \/ (subMu' = None /\ ~Inside(c)')
    BY <1>5, <2>1 DEF TypeConns, SubscribeLock, HandleUnsubscribe
  <2> QED
    BY <1>1, <2>1, <2>3, <2>4 DEF LockDiscipline
<1>6. ASSUME NEW c \in Conns, SubscribeJoin(c) \/ SubscribeStore(c) PROVE LockDiscipline'
  <2>1. subMu = c /\ UNCHANGED <<leaked, leakedSubs, bare>>
    BY <1>1, <1>6 DEF SubscribeJoin, SubscribeStore
  <2>2. \A d \in Conns \ {c} : ~Inside(d)'
    BY <1>1, <1>6, <2>1 DEF TypeConns, SubscribeJoin, SubscribeStore
  <2>3. (subMu' = c /\ Inside(c)') \/ (subMu' = None /\ ~Inside(c)')
    BY <1>6, <2>1 DEF TypeConns, SubscribeJoin, SubscribeStore
  <2> QED
    BY <1>1, <2>1, <2>2, <2>3 DEF LockDiscipline
<1>7. ASSUME NEW c \in Conns, NEW t \in Topics, FanOut(c, t) PROVE LockDiscipline'
  <2>1. \A d \in Conns : Inside(d)' <=> Inside(d)
    BY <1>7 DEF TypeConns, FanOut
  <2>2. UNCHANGED <<subMu, bare>> /\ (work[c] \in bare \/ UNCHANGED <<leaked, leakedSubs>>)
    BY <1>7 DEF FanOut
  <2> QED
    BY <1>1, <2>1, <2>2 DEF LockDiscipline
<1>8. ASSUME NEW c \in Conns, NEW t \in Topics, Subscribe(c, t) \/ Unsubscribe(c, t) PROVE LockDiscipline'
  BY <1>2, <1>8 DEF TypeConns, Subscribe, Unsubscribe, Ask
<1>9. ASSUME NEW c \in Conns, NEW m \in Mrns, NEW t \in Conns \cup {OldToken, None}, Connect(c, m, t)
      PROVE LockDiscipline'
  BY <1>2, <1>9 DEF TypeConns, Connect
<1>10. ASSUME NEW c \in Conns, NEW x \in Msgs, NEW u \in BOOLEAN, Send(c, x, u) PROVE LockDiscipline'
  BY <1>2, <1>10 DEF TypeConns, Send
<1>11. ASSUME NEW c \in Conns, NEW S \in SUBSET Msgs, Receive(c, S) PROVE LockDiscipline'
  BY <1>3, <1>11 DEF Receive
<1>12. CASE HandleOutgoingMessages
  BY <1>3, <1>12 DEF HandleOutgoingMessages, TakeOutgoing, PublishLook, PublishJoin, PublishStore
<1>13. CASE HandleIncomingMessages \/ TopicHandlesRace \/ MessageGC
  BY <1>3, <1>13 DEF HandleIncomingMessages, TakeIncoming, RouteIncoming, TopicHandlesRace, MessageGC
<1>14. ASSUME NEW x \in Msgs, Expire(x) \/ \E t \in Topics : HandleSubscription(t, x) PROVE LockDiscipline'
  BY <1>3, <1>14 DEF Expire, HandleSubscription
<1>15. CASE UNCHANGED vars
  BY <1>3, <1>15 DEF vars
<1> QED
  BY <1>4, <1>5, <1>6, <1>7, <1>8, <1>9, <1>10, <1>11, <1>12, <1>13, <1>14, <1>15 DEF Next, HandlerStep

(* A step that ends the process by a nil subscription has found a topic of *)
(* the message that is not known, besides the one it came for, which is.   *)
LEMMA NilStep == IInv /\ TypeTraffic /\ [Next]_vars => NilNeedsSecondRecipient'
<1> SUFFICES ASSUME IInv, TypeTraffic, [Next]_vars, crashed' = "nil" PROVE SeveralTopics(in'.msg)
  BY DEF NilNeedsSecondRecipient
<1> USE RouterAssumption
<1>1. ASSUME NEW t \in Topics, RouteIncoming(t), crashed = "no" PROVE SeveralTopics(in'.msg)
  <2>1. t \in in.todo /\ t \notin known /\ in' = in
    BY <1>1 DEF RouteIncoming
  <2>2. in.msg \in Msgs /\ t \in TopicsOf(in.msg) /\ TopicsOf(in.msg) \cap known # {}
    BY <2>1 DEF IInv, Arrivals, InFlight, TypeTraffic
  <2> QED
    BY <2>1, <2>2 DEF SeveralTopics
<1>2. CASE UNCHANGED vars
  BY <1>2 DEF vars, IInv, NilNeedsSecondRecipient
<1>3. ASSUME NEW c \in Conns,
             \/ Refuse(c) \/ Lookup(c) \/ MintToken(c) \/ Register(c) \/ RespondOk(c) \/ HandlerExit(c)
             \/ SubscribeLock(c) \/ SubscribeJoin(c) \/ SubscribeStore(c) \/ HandleUnsubscribe(c) \/ SendLock(c)
      PROVE UNCHANGED crashed
  BY <1>3
  DEF Refuse, Lookup, MintToken, Register, RespondOk, HandlerExit, SubscribeLock, SubscribeJoin, SubscribeStore,
      HandleUnsubscribe, SendLock
<1>4. ASSUME NEW c \in Conns, NEW m \in Mrns, NEW t \in Conns \cup {OldToken, None}, Connect(c, m, t)
      PROVE UNCHANGED crashed
  BY <1>4 DEF Connect
<1>5. ASSUME NEW c \in Conns, NEW t \in Topics, Subscribe(c, t) \/ Unsubscribe(c, t) \/ FanOut(c, t)
      PROVE UNCHANGED crashed
  BY <1>5 DEF Subscribe, Unsubscribe, Ask, FanOut
<1>6. ASSUME NEW c \in Conns, NEW x \in Msgs, NEW u \in BOOLEAN, Send(c, x, u) PROVE UNCHANGED crashed
  BY <1>6 DEF Send
<1>7. ASSUME NEW c \in Conns, NEW S \in SUBSET Msgs, Receive(c, S) PROVE UNCHANGED crashed
  BY <1>7 DEF Receive
<1>8. ASSUME HandleOutgoingMessages \/ TakeIncoming \/ MessageGC PROVE UNCHANGED crashed
  BY <1>8
  DEF HandleOutgoingMessages, TakeOutgoing, PublishLook, PublishJoin, PublishStore, TakeIncoming, MessageGC
<1>9. ASSUME NEW x \in Msgs, Expire(x) \/ \E t \in Topics : HandleSubscription(t, x) PROVE UNCHANGED crashed
  BY <1>9 DEF Expire, HandleSubscription
<1>10. CASE TopicHandlesRace
  BY <1>10 DEF TopicHandlesRace
<1>11. CASE Next
  <2>1. crashed = "no"
    BY <1>11 DEF Next
  <2>2. \/ UNCHANGED crashed
        \/ TopicHandlesRace
        \/ \E t \in Topics : RouteIncoming(t)
    BY <1>3, <1>4, <1>5, <1>6, <1>7, <1>8, <1>9, <1>11 DEF Next, HandlerStep, HandleIncomingMessages
  <2> QED
    BY <1>1, <1>10, <2>1, <2>2
<1> QED
  BY <1>2, <1>11

(* What is queued is still on its way, and so nobody has received it; what *)
(* is received leaves the mailbox.                                         *)
LEMMA ReceivedOnceStep == IInv /\ TypeConns /\ TypeTraffic /\ [Next]_vars => ReceivedOnce'
<1> SUFFICES ASSUME IInv, TypeConns, TypeTraffic, [Next]_vars,
                    NEW o \in Conns, NEW x \in queue'[o] \cap taken'[o], ~SeveralTopics(x)
             PROVE  FALSE
  BY DEF ReceivedOnce
<1> USE RouterAssumption
<1>1. x \notin queue[o] \cap taken[o]
  BY DEF IInv, ReceivedOnce
<1>2. CASE queue'[o] \subseteq queue[o] /\ taken'[o] = taken[o]
  BY <1>1, <1>2
<1>3. ASSUME NEW c \in Conns, NEW t \in Topics, FanOut(c, t) PROVE FALSE
  <2>1. UNCHANGED taken /\ (queue'[o] \subseteq queue[o] \cup {work[c]})
    BY <1>3 DEF FanOut, QueueMessage
  <2>2. work[c] \in Msgs /\ Sending(c)
    BY <1>3 DEF FanOut, Sending, IInv, Requests
  <2>3. x = work[c] => x \notin taken[o]
    BY <2>2 DEF IInv, OnceOnly
  <2> QED
    BY <1>1, <2>1, <2>3
<1>4. ASSUME NEW t \in Topics, RouteIncoming(t) PROVE FALSE
  <2>1. UNCHANGED taken /\ (queue'[o] \subseteq queue[o] \cup {in.msg}) /\ t \in in.todo
    BY <1>4 DEF RouteIncoming, QueueMessage
  <2>2. in.msg \in Msgs /\ InFlight(in.msg)
    BY <2>1 DEF InFlight, IInv, Arrivals, TypeTraffic
  <2>3. x = in.msg => x \notin taken[o]
    BY <2>2 DEF IInv, OnceOnly
  <2> QED
    BY <1>1, <2>1, <2>3
<1>5. ASSUME NEW c \in Conns, NEW S \in SUBSET Msgs, Receive(c, S) PROVE FALSE
  BY <1>1, <1>5 DEF Receive, TypeTraffic
<1>6. CASE MessageGC
  BY <1>2, <1>6 DEF MessageGC
<1>7. CASE UNCHANGED <<queue, taken>>
  BY <1>2, <1>7
<1>8. ASSUME NEW c \in Conns,
             \/ Refuse(c) \/ Lookup(c) \/ MintToken(c) \/ Register(c) \/ RespondOk(c) \/ HandlerExit(c)
             \/ SubscribeLock(c) \/ SubscribeJoin(c) \/ SubscribeStore(c) \/ HandleUnsubscribe(c) \/ SendLock(c)
      PROVE FALSE
  BY <1>7, <1>8
  DEF Refuse, Lookup, MintToken, Register, RespondOk, HandlerExit, SubscribeLock, SubscribeJoin, SubscribeStore,
      HandleUnsubscribe, SendLock
<1>9. ASSUME NEW c \in Conns, NEW m \in Mrns, NEW t \in Conns \cup {OldToken, None}, Connect(c, m, t) PROVE FALSE
  BY <1>7, <1>9 DEF Connect
<1>10. ASSUME NEW c \in Conns, NEW t \in Topics, Subscribe(c, t) \/ Unsubscribe(c, t) PROVE FALSE
  BY <1>7, <1>10 DEF Subscribe, Unsubscribe, Ask
<1>11. ASSUME NEW c \in Conns, NEW y \in Msgs, NEW u \in BOOLEAN, Send(c, y, u) PROVE FALSE
  BY <1>7, <1>11 DEF Send
<1>12. CASE HandleOutgoingMessages \/ TakeIncoming \/ TopicHandlesRace \/ UNCHANGED vars
  BY <1>7, <1>12
  DEF HandleOutgoingMessages, TakeOutgoing, PublishLook, PublishJoin, PublishStore, TakeIncoming, TopicHandlesRace, vars
<1>13. ASSUME NEW y \in Msgs, Expire(y) \/ \E t \in Topics : HandleSubscription(t, y) PROVE FALSE
  BY <1>7, <1>13 DEF Expire, HandleSubscription
<1> QED
  BY <1>3, <1>4, <1>5, <1>6, <1>8, <1>9, <1>10, <1>11, <1>12, <1>13 DEF Next, HandlerStep, HandleIncomingMessages

(* At first nobody is connected, nothing is subscribed or on its way. *)
LEMMA InitIInv == Init => IInv
<1> SUFFICES ASSUME Init PROVE IInv
  OBVIOUS
<1> USE RouterAssumption DEF Init
<1>1. TypeOK
  BY DEF TypeOK, HandlerStates, OutIdle, Idle
<1>2. Objects /\ Requests
  BY DEF Objects, Requests, Sending
<1>3. \A x \in Msgs : ~InFlight(x)
  BY DEF InFlight, Idle
<1>4. Arrivals
  BY <1>3 DEF Arrivals, Idle
<1>5. Mailboxes /\ RightMailboxes /\ ReceivedOnce
  BY DEF Mailboxes, RightMailboxes, ReceivedOnce
<1>6. OnceOnly
  BY <1>3 DEF OnceOnly, Sending, Idle
<1>7. Publishing /\ Registrations
  BY DEF Publishing, Registrations, OutIdle
<1>8. NilNeedsSecondRecipient /\ LockDiscipline /\ NilOnlyAfterRestart
  BY DEF NilNeedsSecondRecipient, LockDiscipline, NilOnlyAfterRestart
<1>9. JoinedIsUsable /\ DropMeansSubscribed
  BY DEF JoinedIsUsable, DropMeansSubscribed
<1> QED
  BY <1>1, <1>2, <1>4, <1>5, <1>6, <1>7, <1>8, <1>9 DEF IInv

(* Every reachable state of the Router satisfies the inductive invariant,  *)
(* whose parts rely on each other: what is queued on whose objects they    *)
(* are, what is received once on where a message can still be.             *)
THEOREM Invariance == Spec => []IInv
<1>1. IInv /\ [Next]_vars => IInv'
  <2> SUFFICES ASSUME IInv, [Next]_vars PROVE IInv'
    OBVIOUS
  <2>1. TypeConns /\ TypeMaps /\ TypeTraffic
    BY TypeParts DEF IInv
  <2>2. TypeOK' /\ Objects' /\ Requests' /\ Arrivals'
    BY <2>1, TypeStep, ObjectsStep, RequestsStep, ArrivalsStep
  <2>3. Mailboxes' /\ RightMailboxes' /\ OnceOnly' /\ ReceivedOnce'
    BY <2>1, MailboxesStep, OnceOnlyStep, ReceivedOnceStep
  <2>4. Publishing' /\ JoinedIsUsable' /\ DropMeansSubscribed'
    BY <2>1, PublishingStep, HandlesStep
  <2>5. Registrations' /\ NilOnlyAfterRestart' /\ LockDiscipline' /\ NilNeedsSecondRecipient'
    BY <2>1, RegistrationsStep, LockStep, NilStep
  <2> QED
    BY <2>2, <2>3, <2>4, <2>5 DEF IInv
<1> QED
  BY InitIInv, <1>1, PTL DEF Spec

(* The Router's maps, mailboxes and channels hold what they are made for,  *)
(* and in particular no mailbox holds a message without a UUID.            *)
THEOREM TypeCorrect == Spec => []TypeOK
<1>1. IInv => TypeOK
  BY DEF IInv
<1> QED
  BY <1>1, Invariance, PTL

(* Messages reach subscribers of their topics and never the Edge Router    *)
(* that sent them, by handleSend or back from the network.                 *)
THEOREM DeliveredRightly == Spec => []RightMailboxes
<1>1. IInv => RightMailboxes
  BY DEF IInv
<1> QED
  BY <1>1, Invariance, PTL

(* A message with one topic is not queued again for an Edge Router that    *)
(* has received it: handleSend, handleSubscription and                     *)
(* handleIncomingMessages together deliver it at most once.                *)
THEOREM DeliveredOnce == Spec => []ReceivedOnce
<1>1. IInv => ReceivedOnce
  BY DEF IInv
<1> QED
  BY <1>1, Invariance, PTL

(* The nil dereference that ends handleIncomingMessages, and with it the   *)
(* process, needs a message with a second topic.                           *)
THEOREM NilIsRare == Spec => []NilNeedsSecondRecipient
<1>1. IInv => NilNeedsSecondRecipient
  BY DEF IInv
<1> QED
  BY <1>1, Invariance, PTL

(* subMu is held exactly by the handler inside handleSubscribe or          *)
(* handleUnsubscribe, and only a message without a UUID leaves locks.      *)
THEOREM LocksHeld == Spec => []LockDiscipline
<1>1. IInv => LockDiscipline
  BY DEF IInv
<1> QED
  BY <1>1, Invariance, PTL

(* No topic is lost by the two unsynchronised ways to join it.             *)
THEOREM JoinedUsable == Spec => []JoinedIsUsable
<1>1. IInv => JoinedIsUsable
  BY DEF IInv
<1> QED
  BY <1>1, Invariance, PTL

(* handleOutgoingMessages loses a message on a topic only to a handler     *)
(* that has just joined the topic for a subscriber.                        *)
THEOREM DroppedOnlyWhenSubscribed == Spec => []DropMeansSubscribed
<1>1. IInv => DropMeansSubscribed
  BY DEF IInv
<1> QED
  BY <1>1, Invariance, PTL

(* An Edge Router that reconnects with a token of this Router finds an     *)
(* object under its MRN.                                                   *)
THEOREM NilObjectNeedsRestart == Spec => []NilOnlyAfterRestart
<1>1. IInv => NilOnlyAfterRestart
  BY DEF IInv
<1> QED
  BY <1>1, Invariance, PTL

(* Subscriptions hold the object that edgeRouters leads to, as long as no  *)
(* Edge Router of that MRN has connected without its token.                *)
THEOREM StaleNeedsFreshConnect == Spec => []StaleOnlyAfterFreshConnect
<1>1. IInv => StaleOnlyAfterFreshConnect
  BY RouterAssumption DEF IInv, Objects, IsObject, Registrations, StaleOnlyAfterFreshConnect, ObjectsOf
<1> QED
  BY <1>1, Invariance, PTL
=============================================================================
