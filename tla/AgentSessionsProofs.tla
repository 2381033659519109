------------------------- MODULE AgentSessionsProofs -------------------------
(* Proofs about AgentSessions.tla, for any connections, MRNs, subjects and *)
(* messages.                                                               *)
EXTENDS AgentSessions, TLAPS

USE DEF conns, agent, registry, topics, channel, traffic

(* Where a handler has an Agent, and where the Agent has a token as well. *)
Serving ==
    {"register", "mint", "store", "respond", "open", "subscribe", "setDirect", "clearDirect",
     "fanOut", "bye", "forget"}
Minted == Serving \ {"register", "mint"}

(* An Agent is called after the connection that created it, which is one   *)
(* of its own connections.                                                 *)
Owners ==
    \A c \in Conns :
        /\ pc[c] \in Serving => agentOf[c] # None
        /\ pc[c] \in {"off", "lookup"} => agentOf[c] = None
        /\ agentOf[c] # None => agentOf[agentOf[c]] = agentOf[c]
        /\ pc[c] = "register" => agentOf[c] = c /\ mrn[c] \in Mrns

(* What is in the maps and in the responses leads to an Agent from what    *)
(* belongs to it: a token that one of its connections has drawn, its MRN.  *)
Entries ==
    /\ \A t \in Conns : agents[t] # None => agentOf[t] = agents[t]
    /\ \A a \in Conns : token[a] # None => /\ agentOf[token[a]] = a
                                           /\ pc[token[a]] \notin {"off", "lookup", "register", "mint"}
    /\ \A c \in Conns : pc[c] \in Minted => token[agentOf[c]] # None
    /\ \A c \in Conns : answered[c] # None => agentOf[c] # None
    /\ \A m \in Mrns : mrnToAgent[m] # None => agentOf[mrnToAgent[m]] = mrnToAgent[m] /\ mrn[mrnToAgent[m]] = m

(* A name that is no Agent's has nothing that an Agent has. *)
OnlyAgents ==
    \A a \in Conns : agentOf[a] # a => ~direct[a] /\ everSub[a] = {} /\ queue[a] = {} /\ a \notin left

(* Direct messages are wanted only after the router was asked for them,    *)
(* and the subscribers of a subject have subscribed to it.                 *)
Wanted ==
    /\ \A a \in Conns : direct[a] => mrn[a] \in Mrns /\ asked[mrn[a]] # "never"
    /\ \A c \in Conns : pc[c] = "setDirect" => mrn[agentOf[c]] \in Mrns /\ asked[mrn[agentOf[c]]] # "never"
    /\ \A s \in Subjects : \A a \in subs[s] : s \in everSub[a]

(* A message on its way to the mailboxes has the source it was given: the  *)
(* MRN of the Agent that sends it, or none for one of the router.          *)
InHand ==
    /\ \A c \in Conns : pc[c] = "fanOut" => work[c] \in Msgs /\ source[work[c]] = mrn[agentOf[c]]
                                            /\ mrn[agentOf[c]] \in Mrns
    /\ incoming.to # {} => incoming.msg \in Msgs /\ source[incoming.msg] = NoMrn /\ Recipients[incoming.msg] = {}
    /\ \A a \in incoming.to : Subject[incoming.msg] \in everSub[a]
    /\ \A a \in Conns : \A x \in queue[a] : source[x] # None

(* The first Subscribe is on the channel, or the handler that forwards it  *)
(* holds subMu.                                                            *)
Upstream ==
    /\ \A c \in Conns : pc[c] = "subscribe" <=> subMu = c
    /\ \A c \in Conns : pc[c] = "subscribe" => work[c] \in Subjects
    /\ \A s \in Subjects : subs[s] # {} => s \in known
    /\ \A s \in known : asked[s] = "subscribe" \/ \E c \in Conns : subMu = c /\ work[c] = s

(* The newest token of an Agent is stored or about to be, and so is every  *)
(* one that the connection that drew it was answered with.                 *)
Tokens ==
    /\ \A a \in Conns \ left : token[a] # None => agents[token[a]] = a \/ pc[token[a]] = "store"
    /\ \A c \in Conns : answered[c] = c => agents[c] = agentOf[c] \/ agentOf[c] \in left

(* An Agent with one connection is left by it. *)
Leavers ==
    \A a \in left : (\A c \in Conns \ {a} : agentOf[c] # a) => pc[a] = "gone" /\ agents[a] = None

IInv == /\ TypeOK /\ Owners /\ Entries /\ OnlyAgents /\ Wanted /\ InHand /\ Upstream /\ Tokens /\ Leavers
        /\ NoMisdelivery

-----------------------------------------------------------------------------
(* TypeOK in four parts. *)
TypeConns ==
    /\ pc \in [Conns -> HandlerStates]
    /\ asks \in [Conns -> Conns \cup {None}]
    /\ agentOf \in [Conns -> Conns \cup {None}]
    /\ work \in [Conns -> Subjects \cup Msgs \cup {None}]
    /\ answered \in [Conns -> Conns \cup {None}]

TypeAgents ==
    /\ mrn \in [Conns -> Mrns \cup {NoMrn}]
    /\ token \in [Conns -> Conns \cup {None}]
    /\ direct \in [Conns -> BOOLEAN]
    /\ agents \in [Conns -> Conns \cup {None}]
    /\ mrnToAgent \in [Mrns -> Conns \cup {None}]
    /\ left \subseteq Conns

TypeTopics ==
    /\ subs \in [Subjects -> SUBSET Conns]
    /\ known \subseteq Subjects
    /\ subMu \in Conns \cup {None}
    /\ out \in 0..ChannelBufSize
    /\ asked \in [Subjects \cup Mrns -> {"never", "subscribe", "unsubscribe"}]
    /\ everSub \in [Conns -> SUBSET Subjects]

TypeTraffic ==
    /\ queue \in [Conns -> SUBSET Msgs]
    /\ incoming \in [msg : Msgs \cup {None}, to : SUBSET Conns]
    /\ source \in [Msgs -> Mrns \cup {NoMrn, None}]
    /\ expired \subseteq Msgs

(* The four parts are TypeOK. *)
LEMMA TypeParts == TypeOK <=> TypeConns /\ TypeAgents /\ TypeTopics /\ TypeTraffic
  BY DEF TypeOK, TypeConns, TypeAgents, TypeTopics, TypeTraffic

(* A handler that has an Agent knows which. *)
LEMMA ServingSelf ==
    ASSUME TypeConns, Owners, NEW c \in Conns, pc[c] \in Serving
    PROVE  Self(c) \in Conns /\ agentOf[c] \in Conns
  BY DEF TypeConns, Owners, Self

(* A handler that has drawn a token finds one in its Agent. *)
LEMMA MintedToken ==
    ASSUME TypeConns, TypeAgents, Owners, Entries, NEW c \in Conns, pc[c] \in Minted
    PROVE  Self(c) \in Conns /\ token[Self(c)] \in Conns
<1>1. Self(c) \in Conns /\ Self(c) = agentOf[c]
  BY ServingSelf DEF Minted, Self
<1> QED
  BY <1>1 DEF TypeAgents, Entries

(* What the handlers hold. *)
LEMMA TypeConnsStep ==
    TypeConns /\ TypeAgents /\ Owners /\ [Next]_vars => TypeConns'
<1> SUFFICES ASSUME TypeConns, TypeAgents, Owners, [Next]_vars PROVE TypeConns'
  OBVIOUS
<1>1. ASSUME NEW c \in Conns, NEW p \in HandlerStates, Goto(c, p) PROVE pc' \in [Conns -> HandlerStates]
  BY <1>1 DEF Goto, TypeConns
<1>2. CASE UNCHANGED conns
  BY <1>2 DEF TypeConns
<1>3. ASSUME NEW c \in Conns, NEW p \in HandlerStates, Goto(c, p), UNCHANGED <<asks, agentOf, work, answered>>
      PROVE  TypeConns'
  BY <1>1, <1>3 DEF TypeConns
<1>4. ASSUME NEW c \in Conns, Refuse(c) PROVE TypeConns'
  BY <1>3, <1>4 DEF Refuse, HandlerStates
<1>5. ASSUME NEW c \in Conns, NEW m \in Mrns \cup {NoMrn}, NEW t \in Conns \cup {None}, Connect(c, m, t)
      PROVE  TypeConns'
  <2>1. pc' \in [Conns -> HandlerStates]
    BY <1>1, <1>5 DEF Connect, HandlerStates
  <2> QED
    BY <1>5, <2>1 DEF Connect, TypeConns
<1>6. ASSUME NEW c \in Conns, Lookup(c) PROVE TypeConns'
  <2>1. pc' \in [Conns -> HandlerStates]
    BY <1>1, <1>6 DEF Lookup, HandlerStates
  <2>2. agentOf' \in [Conns -> Conns \cup {None}]
    BY <1>6 DEF Lookup, TypeConns, TypeAgents
  <2> QED
    BY <1>6, <2>1, <2>2 DEF Lookup, TypeConns
<1>7. ASSUME NEW c \in Conns, Register(c) \/ MintToken(c) \/ StoreToken(c) PROVE TypeConns'
  BY <1>3, <1>7 DEF Register, MintToken, StoreToken, HandlerStates
<1>8. ASSUME NEW c \in Conns, RespondOk(c) PROVE TypeConns'
  <2>1. pc' \in [Conns -> HandlerStates]
    BY <1>1, <1>8 DEF RespondOk, HandlerStates
  <2>2. Self(c) \in Conns
    BY <1>8, ServingSelf DEF RespondOk, Serving
  <2> QED
    BY <1>8, <2>1, <2>2 DEF RespondOk, TypeConns, TypeAgents
<1>9. ASSUME NEW c \in Conns, RespondFail(c) \/ HandlerExit(c) \/ Disconnect(c) PROVE TypeConns'
  BY <1>3, <1>9 DEF RespondFail, HandlerExit, Disconnect, HandlerStates
<1>10. ASSUME NEW c \in Conns, NEW w \in Subjects \cup Msgs \cup {None}, NEW p \in HandlerStates, Goto(c, p),
              work' = [work EXCEPT ![c] = w], UNCHANGED <<asks, agentOf, answered>>
       PROVE  TypeConns'
  BY <1>1, <1>10 DEF TypeConns
<1>11. ASSUME NEW c \in Conns, NEW s \in Subjects, SubscribeSubject(c, s) PROVE TypeConns'
  BY <1>2, <1>10, <1>11 DEF SubscribeSubject, HandlerStates
<1>12. ASSUME NEW c \in Conns, ForwardSubscribe(c) \/ SendFanOut(c) PROVE TypeConns'
  BY <1>10, <1>12 DEF ForwardSubscribe, SendFanOut, HandlerStates
<1>13. ASSUME NEW c \in Conns, SubscribeDirect(c) \/ SetDirect(c) \/ UnsubscribeDirect(c) \/ ClearDirect(c)
       PROVE  TypeConns'
  BY <1>3, <1>13 DEF SubscribeDirect, SetDirect, UnsubscribeDirect, ClearDirect, HandlerStates
<1>14. ASSUME NEW c \in Conns, NEW x \in Msgs, Send(c, x) PROVE TypeConns'
  BY <1>10, <1>14 DEF Send, HandlerStates
<1>15. ASSUME NEW c \in Conns, ForgetMrn(c) \/ ForgetToken(c) PROVE TypeConns'
  BY <1>3, <1>15 DEF ForgetMrn, ForgetToken, HandlerStates
<1>16. ASSUME NEW c \in Conns, (\E s \in Subjects : UnsubscribeSubject(c, s)) \/ \E S \in SUBSET Msgs : Receive(c, S)
       PROVE  TypeConns'
  BY <1>2, <1>16 DEF UnsubscribeSubject, Receive
<1>17. CASE Router \/ (\E x \in Msgs : Expire(x)) \/ MessageGC
  BY <1>2, <1>17 DEF Router, Arrive, QueueIncoming, HandleNotify, Drain, Expire, MessageGC
<1>18. CASE UNCHANGED vars
  BY <1>2, <1>18 DEF vars
<1> QED
  BY <1>4, <1>5, <1>6, <1>7, <1>8, <1>9, <1>11, <1>12, <1>13, <1>14, <1>15, <1>16, <1>17, <1>18
  DEF Next, HandlerStep, ConnectStep, Request

(* The Agents and the maps that lead to them. *)
LEMMA TypeAgentsStep ==
    TypeConns /\ TypeAgents /\ Owners /\ Entries /\ [Next]_vars => TypeAgents'
<1> SUFFICES ASSUME TypeConns, TypeAgents, Owners, Entries, [Next]_vars PROVE TypeAgents'
  OBVIOUS
<1> USE DEF TypeAgents
<1>1. CASE UNCHANGED <<agent, registry, left>>
  BY <1>1
<1>2. ASSUME NEW c \in Conns, NEW m \in Mrns \cup {NoMrn}, NEW t \in Conns \cup {None}, Connect(c, m, t)
      PROVE  TypeAgents'
  BY <1>2 DEF Connect
<1>3. ASSUME NEW c \in Conns, Register(c) PROVE TypeAgents'
  BY <1>3 DEF Register
<1>4. ASSUME NEW c \in Conns, MintToken(c) PROVE TypeAgents'
  BY <1>4 DEF MintToken
<1>5. ASSUME NEW c \in Conns, StoreToken(c) PROVE TypeAgents'
  <2>1. Self(c) \in Conns
    BY <1>5, ServingSelf DEF StoreToken, Serving
  <2> QED
    BY <1>5, <2>1 DEF StoreToken
<1>6. ASSUME NEW c \in Conns, SetDirect(c) \/ ClearDirect(c) PROVE TypeAgents'
  BY <1>6 DEF SetDirect, ClearDirect
<1>7. ASSUME NEW c \in Conns, ForgetMrn(c) PROVE TypeAgents'
  BY <1>7 DEF ForgetMrn
<1>8. ASSUME NEW c \in Conns, ForgetToken(c) PROVE TypeAgents'
  <2>1. Self(c) \in Conns
    BY <1>8, ServingSelf DEF ForgetToken, Serving
  <2> QED
    BY <1>8, <2>1 DEF ForgetToken
<1>9. ASSUME NEW c \in Conns, Refuse(c) \/ Lookup(c) \/ RespondOk(c) \/ RespondFail(c) \/ ForwardSubscribe(c)
                              \/ SendFanOut(c) \/ Request(c)
      PROVE  TypeAgents'
  BY <1>1, <1>9 DEF Refuse, Lookup, RespondOk, RespondFail, ForwardSubscribe, SendFanOut, Request, SubscribeSubject,
     UnsubscribeSubject, SubscribeDirect, UnsubscribeDirect, Send, Receive, Disconnect, HandlerExit
<1>10. CASE Router \/ (\E x \in Msgs : Expire(x)) \/ MessageGC
  BY <1>1, <1>10 DEF Router, Arrive, QueueIncoming, HandleNotify, Drain, Expire, MessageGC
<1>11. CASE UNCHANGED vars
  BY <1>1, <1>11 DEF vars
<1> QED
  BY <1>2, <1>3, <1>4, <1>5, <1>6, <1>7, <1>8, <1>9, <1>10, <1>11 DEF Next, HandlerStep, ConnectStep

(* The subscriptions and the channel to the router. *)
LEMMA TypeTopicsStep ==
    /\ TypeConns /\ TypeAgents /\ TypeTopics /\ Owners /\ Upstream /\ [Next]_vars
    => TypeTopics'
<1> SUFFICES ASSUME TypeConns, TypeAgents, TypeTopics, Owners, Upstream, [Next]_vars PROVE TypeTopics'
  OBVIOUS
<1> USE SessionsAssumption
<1>1. CASE UNCHANGED <<topics, channel>>
  BY <1>1 DEF TypeTopics
<1>2. ASSUME Enqueue PROVE out' \in 0 .. ChannelBufSize
  BY <1>2 DEF Enqueue, TypeTopics
<1>3. ASSUME NEW c \in Conns, NEW s \in Subjects, SubscribeSubject(c, s) PROVE TypeTopics'
  <2>1. Self(c) \in Conns
    BY <1>3, ServingSelf DEF SubscribeSubject, Serving
  <2> QED
    BY <1>3, <2>1 DEF SubscribeSubject, TypeTopics
<1>4. ASSUME NEW c \in Conns, NEW s \in Subjects, UnsubscribeSubject(c, s) PROVE TypeTopics'
  BY <1>4 DEF UnsubscribeSubject, TypeTopics
<1>5. ASSUME NEW c \in Conns, ForwardSubscribe(c) PROVE TypeTopics'
  <2>1. out' \in 0 .. ChannelBufSize
    BY <1>2, <1>5 DEF ForwardSubscribe
  <2>2. asked' \in [Subjects \cup Mrns -> {"never", "subscribe", "unsubscribe"}]
    BY <1>5 DEF ForwardSubscribe, TypeTopics
  <2> QED
    BY <1>5, <2>1, <2>2 DEF ForwardSubscribe, TypeTopics
<1>6. ASSUME NEW c \in Conns, SubscribeDirect(c) \/ UnsubscribeDirect(c) PROVE TypeTopics'
  <2>1. out' \in 0 .. ChannelBufSize
    BY <1>2, <1>6 DEF SubscribeDirect, UnsubscribeDirect
  <2>2. asked' \in [Subjects \cup Mrns -> {"never", "subscribe", "unsubscribe"}]
    BY <1>6 DEF SubscribeDirect, UnsubscribeDirect, TypeTopics
  <2> QED
    BY <1>6, <2>1, <2>2 DEF SubscribeDirect, UnsubscribeDirect, TypeTopics
<1>7. ASSUME NEW c \in Conns, NEW x \in Msgs, Send(c, x) PROVE TypeTopics'
  BY <1>2, <1>7 DEF Send, TypeTopics
<1>8. CASE HandleNotify
  BY <1>2, <1>8 DEF HandleNotify, TypeTopics
<1>9. CASE Drain
  BY <1>9 DEF Drain, TypeTopics
<1>10. ASSUME NEW c \in Conns, NEW S \in SUBSET Msgs, Receive(c, S) PROVE TypeTopics'
  BY <1>1, <1>10 DEF Receive
<1>11. ASSUME NEW c \in Conns,
              Refuse(c) \/ ConnectStep(c) \/ SetDirect(c) \/ ClearDirect(c) \/ SendFanOut(c) \/ ForgetMrn(c)
              \/ ForgetToken(c) \/ Disconnect(c) \/ HandlerExit(c)
              \/ \E m \in Mrns \cup {NoMrn}, t \in Conns \cup {None} : Connect(c, m, t)
       PROVE  TypeTopics'
  BY <1>1, <1>11 DEF Refuse, ConnectStep, Lookup, Register, MintToken, StoreToken, RespondOk, RespondFail, SetDirect,
     ClearDirect, SendFanOut, ForgetMrn, ForgetToken, Disconnect, HandlerExit, Connect
<1>12. CASE (\E x \in Msgs : Arrive(x) \/ Expire(x)) \/ (\E a \in Conns : QueueIncoming(a)) \/ MessageGC
  BY <1>1, <1>12 DEF Arrive, QueueIncoming, Expire, MessageGC
<1>13. CASE UNCHANGED vars
  BY <1>1, <1>13 DEF vars
<1> QED
  BY <1>3, <1>4, <1>5, <1>6, <1>7, <1>8, <1>9, <1>10, <1>11, <1>12, <1>13 DEF Next, HandlerStep, Request, Router

(* The mailboxes and the messages on their way to them. *)
LEMMA TypeTrafficStep ==
    /\ TypeConns /\ TypeAgents /\ TypeTopics /\ TypeTraffic /\ Owners /\ InHand /\ [Next]_vars
    => TypeTraffic'
<1> SUFFICES ASSUME TypeConns, TypeAgents, TypeTopics, TypeTraffic, Owners, InHand, [Next]_vars
             PROVE  TypeTraffic'
  OBVIOUS
<1> USE SessionsAssumption
<1>1. CASE UNCHANGED traffic
  BY <1>1 DEF TypeTraffic
<1>2. ASSUME NEW x \in Msgs, NEW to, Deliver(x, to) PROVE queue' \in [Conns -> SUBSET Msgs]
  BY <1>2 DEF Deliver, TypeTraffic
<1>3. ASSUME NEW c \in Conns, NEW x \in Msgs, Send(c, x) PROVE TypeTraffic'
  <2>1. Self(c) \in Conns
    BY <1>3, ServingSelf DEF Send, Serving
  <2> QED
    BY <1>3, <2>1 DEF Send, TypeTraffic, TypeAgents
<1>4. ASSUME NEW c \in Conns, SendFanOut(c) PROVE TypeTraffic'
  <2>1. work[c] \in Msgs
    BY <1>4 DEF SendFanOut, InHand
  <2>2. queue' \in [Conns -> SUBSET Msgs]
    BY <1>2, <1>4, <2>1 DEF SendFanOut
  <2> QED
    BY <1>4, <2>2 DEF SendFanOut, TypeTraffic
<1>5. ASSUME NEW x \in Msgs, Arrive(x) PROVE TypeTraffic'
  <2>1. queue' \in [Conns -> SUBSET Msgs]
    BY <1>2, <1>5 DEF Arrive, TypeTraffic
  <2>2. incoming' \in [msg : Msgs \cup {None}, to : SUBSET Conns]
    <3>1. subs[Subject[x]] \in SUBSET Conns
      BY DEF TypeTopics
    <3> QED
      BY <1>5, <3>1 DEF Arrive, TypeTraffic, Idle
  <2> QED
    BY <1>5, <2>1, <2>2 DEF Arrive, TypeTraffic
<1>6. ASSUME NEW a \in Conns, QueueIncoming(a) PROVE TypeTraffic'
  <2>1. incoming.msg \in Msgs /\ incoming.to \in SUBSET Conns
    BY <1>6 DEF QueueIncoming, InHand, TypeTraffic
  <2>2. queue' \in [Conns -> SUBSET Msgs]
    BY <1>2, <1>6, <2>1 DEF QueueIncoming
  <2>3. incoming' \in [msg : Msgs \cup {None}, to : SUBSET Conns]
    BY <1>6, <2>1 DEF QueueIncoming, Idle
  <2> QED
    BY <1>6, <2>2, <2>3 DEF QueueIncoming, TypeTraffic
<1>7. ASSUME NEW c \in Conns, NEW S \in SUBSET Msgs, Receive(c, S) PROVE TypeTraffic'
  BY <1>7 DEF Receive, TypeTraffic
<1>8. ASSUME NEW x \in Msgs, Expire(x) PROVE TypeTraffic'
  BY <1>8 DEF Expire, TypeTraffic
<1>9. CASE MessageGC
  BY <1>9 DEF MessageGC, TypeTraffic
<1>10. ASSUME NEW c \in Conns,
              Refuse(c) \/ ConnectStep(c) \/ ForwardSubscribe(c) \/ SetDirect(c) \/ ClearDirect(c) \/ ForgetMrn(c)
              \/ ForgetToken(c) \/ Disconnect(c) \/ HandlerExit(c) \/ SubscribeDirect(c) \/ UnsubscribeDirect(c)
              \/ (\E s \in Subjects : SubscribeSubject(c, s) \/ UnsubscribeSubject(c, s))
              \/ \E m \in Mrns \cup {NoMrn}, t \in Conns \cup {None} : Connect(c, m, t)
       PROVE  TypeTraffic'
  BY <1>1, <1>10 DEF Refuse, ConnectStep, Lookup, Register, MintToken, StoreToken, RespondOk, RespondFail, SetDirect,
     ForwardSubscribe, ClearDirect, ForgetMrn, ForgetToken, Disconnect, HandlerExit, SubscribeDirect, UnsubscribeDirect,
     SubscribeSubject, UnsubscribeSubject, Connect
<1>11. CASE HandleNotify \/ Drain
  BY <1>1, <1>11 DEF HandleNotify, Drain
<1>12. CASE UNCHANGED vars
  BY <1>1, <1>12 DEF vars
<1> QED
  BY <1>3, <1>4, <1>5, <1>6, <1>7, <1>8, <1>9, <1>10, <1>11, <1>12 DEF Next, HandlerStep, Request, Router

-----------------------------------------------------------------------------
(* A handler that has stored its token goes on, or none moves. *)
Later == Minted \ {"store"}
GoesOn == \/ UNCHANGED pc
          \/ \E c \in Conns : pc[c] \in Later /\ \E p \in Later \cup {"gone"} : Goto(c, p)

(* The steps by which handlers get Agents and tokens, those that change    *)
(* what tokens and MRNs lead to, and all the others.                       *)
LEMMA StepKinds ==
    ASSUME [Next]_vars
    PROVE  \/ \E c \in Conns : \E m \in Mrns \cup {NoMrn}, t \in Conns \cup {None} : Connect(c, m, t)
           \/ \E c \in Conns : Refuse(c) \/ Lookup(c) \/ Register(c) \/ MintToken(c) \/ StoreToken(c)
           \/ \E c \in Conns : RespondOk(c) \/ ForgetMrn(c) \/ ForgetToken(c)
           \/ GoesOn /\ UNCHANGED <<agentOf, answered, mrn, token, registry, left>>
<1> DEFINE Rest == GoesOn /\ UNCHANGED <<agentOf, answered, mrn, token, registry, left>>
<1> USE DEF GoesOn, Later, Minted, Serving
<1>1. ASSUME NEW c \in Conns, RespondFail(c) \/ SetDirect(c) \/ ClearDirect(c) \/ ForwardSubscribe(c) \/ SendFanOut(c)
      PROVE  Rest
  BY <1>1 DEF RespondFail, SetDirect, ClearDirect, ForwardSubscribe, SendFanOut
<1>2. ASSUME NEW c \in Conns, SubscribeDirect(c) \/ UnsubscribeDirect(c) \/ Disconnect(c) \/ HandlerExit(c)
      PROVE  Rest
  BY <1>2 DEF SubscribeDirect, UnsubscribeDirect, Disconnect, HandlerExit
<1>3. ASSUME NEW c \in Conns, NEW s \in Subjects, SubscribeSubject(c, s) \/ UnsubscribeSubject(c, s) PROVE Rest
  BY <1>3 DEF SubscribeSubject, UnsubscribeSubject
<1>4. ASSUME NEW c \in Conns, (\E x \in Msgs : Send(c, x)) \/ \E S \in SUBSET Msgs : Receive(c, S) PROVE Rest
  BY <1>4 DEF Send, Receive
<1>5. CASE Router \/ (\E x \in Msgs : Expire(x)) \/ MessageGC \/ UNCHANGED vars
  BY <1>5 DEF Router, Arrive, QueueIncoming, HandleNotify, Drain, Expire, MessageGC, vars
<1> HIDE DEF Rest
<1> QED
  BY <1>1, <1>2, <1>3, <1>4, <1>5 DEF Next, HandlerStep, ConnectStep, Request, Rest

(* Agents are created and come back to in Lookup alone. *)
LEMMA OwnersStep ==
    TypeConns /\ TypeAgents /\ Owners /\ Entries /\ [Next]_vars => Owners'
<1> SUFFICES ASSUME TypeConns, TypeAgents, Owners, Entries, [Next]_vars PROVE Owners'
  OBVIOUS
<1> USE SessionsAssumption
<1>1. ASSUME NEW c \in Conns, NEW p, UNCHANGED <<agentOf, mrn>>, pc[c] \in Serving, Goto(c, p),
             p \notin {"off", "lookup", "register"}
      PROVE  Owners'
  BY <1>1 DEF Owners, Goto, TypeConns
<1>2. CASE UNCHANGED <<pc, agentOf, mrn>>
  BY <1>2 DEF Owners
<1>3. ASSUME NEW c \in Conns, Refuse(c) PROVE Owners'
  BY <1>3 DEF Refuse, Goto, Owners, TypeConns, Serving
<1>4. ASSUME NEW c \in Conns, NEW m \in Mrns \cup {NoMrn}, NEW t \in Conns \cup {None}, Connect(c, m, t)
      PROVE  Owners'
  BY <1>4 DEF Connect, Goto, Owners, TypeConns, TypeAgents, Serving
<1>5. ASSUME NEW c \in Conns, Lookup(c) PROVE Owners'
  <2>1. PICK a \in Conns : /\ agentOf' = [agentOf EXCEPT ![c] = a] /\ (a = c \/ agentOf[a] = a)
                           /\ \/ Goto(c, "mint")
                              \/ Goto(c, "register") /\ a = c /\ mrn[c] \in Mrns
    <3> DEFINE saved == IF asks[c] = None THEN None ELSE agents[asks[c]]
    <3>1. CASE saved # None
      <4>1. saved \in Conns /\ agentOf[asks[c]] = saved /\ asks[c] \in Conns
        BY <3>1 DEF TypeConns, TypeAgents, Entries
      <4>2. agentOf[saved] = saved
        BY <4>1 DEF Owners
      <4>3. agentOf' = [agentOf EXCEPT ![c] = saved] /\ Goto(c, "mint")
        BY <1>5, <3>1 DEF Lookup
      <4> HIDE DEF saved
      <4> QED
        BY <4>1, <4>2, <4>3
    <3>2. CASE saved = None
      <4>1. agentOf' = [agentOf EXCEPT ![c] = c] /\ Goto(c, IF mrn[c] # NoMrn THEN "register" ELSE "mint")
        BY <1>5, <3>2 DEF Lookup
      <4> HIDE DEF saved
      <4> QED
        BY <4>1 DEF TypeAgents
    <3> QED
      BY <3>1, <3>2
  <2>2. UNCHANGED mrn /\ agentOf[c] = None
    BY <1>5 DEF Lookup, Owners
  <2>3. \A d \in Conns : agentOf'[d] = IF d = c THEN a ELSE agentOf[d]
    BY <2>1 DEF TypeConns
  <2>4. \A d \in Conns : pc'[d] = pc[d] \/ (d = c /\ pc'[d] \in {"mint", "register"})
    BY <2>1 DEF TypeConns, Goto
  <2>5. pc'[c] = "mint" \/ (pc'[c] = "register" /\ a = c /\ mrn[c] \in Mrns)
    BY <2>1 DEF TypeConns, Goto
  <2>6. ASSUME NEW d \in Conns, d # c
        PROVE  /\ pc'[d] \in Serving => agentOf'[d] # None
               /\ pc'[d] \in {"off", "lookup"} => agentOf'[d] = None
               /\ agentOf'[d] # None => agentOf'[agentOf'[d]] = agentOf'[d]
               /\ pc'[d] = "register" => agentOf'[d] = d /\ mrn'[d] \in Mrns
    BY <2>2, <2>3, <2>4, <2>6 DEF Owners, TypeConns
  <2>7. agentOf'[c] = a /\ a # None /\ agentOf'[a] = a
    BY <2>1, <2>3
  <2> QED
    BY <2>2, <2>5, <2>6, <2>7 DEF Owners
<1>6. ASSUME NEW c \in Conns, Register(c) \/ MintToken(c) \/ StoreToken(c) PROVE Owners'
  BY <1>1, <1>6 DEF Register, MintToken, StoreToken, Serving
<1>7. ASSUME NEW c \in Conns, RespondOk(c) \/ ForgetMrn(c) \/ ForgetToken(c) PROVE Owners'
  BY <1>1, <1>7 DEF RespondOk, ForgetMrn, ForgetToken, Serving
<1>8. CASE GoesOn /\ UNCHANGED <<agentOf, mrn>>
  BY <1>1, <1>2, <1>8 DEF GoesOn, Later, Minted, Serving
<1> QED
  BY <1>3, <1>4, <1>5, <1>6, <1>7, <1>8, StepKinds

(* Tokens lead to the Agent whose connection drew them, MRNs to an Agent   *)
(* that bears them.                                                        *)
LEMMA EntriesStep ==
    TypeConns /\ TypeAgents /\ Owners /\ Entries /\ [Next]_vars => Entries'
<1> SUFFICES ASSUME TypeConns, TypeAgents, Owners, Entries, [Next]_vars PROVE Entries'
  OBVIOUS
<1> USE SessionsAssumption
<1> DEFINE E1 == \A t \in Conns : agents[t] # None => agentOf[t] = agents[t]
           E2 == \A a \in Conns : token[a] # None => /\ agentOf[token[a]] = a
                                                     /\ pc[token[a]] \notin {"off", "lookup", "register", "mint"}
           E3 == \A c \in Conns : pc[c] \in Minted => token[agentOf[c]] # None
           E4 == \A c \in Conns : answered[c] # None => agentOf[c] # None
           E5 == \A m \in Mrns : mrnToAgent[m] # None =>
                     agentOf[mrnToAgent[m]] = mrnToAgent[m] /\ mrn[mrnToAgent[m]] = m
<1>1. E1 /\ E2 /\ E3 /\ E4 /\ E5
  BY DEF Entries
<1>2. ASSUME E1', E2', E3', E4', E5' PROVE Entries'
  BY <1>2 DEF Entries
<1>3. ASSUME UNCHANGED <<agentOf, agents>> PROVE E1'
  BY <1>1, <1>3
<1>4. ASSUME UNCHANGED <<agentOf, answered>> PROVE E4'
  BY <1>1, <1>4
<1>5. ASSUME UNCHANGED <<agentOf, mrn, mrnToAgent>> PROVE E5'
  BY <1>1, <1>5
<1>6. ASSUME NEW c \in Conns, NEW p, Goto(c, p), p \notin {"off", "lookup", "register", "mint"}, pc[c] # "off",
             UNCHANGED <<agentOf, token>>, p \in Minted => pc[c] \in Minted
      PROVE  E2' /\ E3'
  BY <1>1, <1>6 DEF Goto, TypeConns, TypeAgents
<1>7. ASSUME NEW c \in Conns, Refuse(c) PROVE Entries'
  <2>1. E2' /\ E3'
    BY <1>1, <1>7 DEF Refuse, Goto, TypeConns, TypeAgents, Minted, Serving
  <2> QED
    BY <1>2, <1>3, <1>4, <1>5, <1>7, <2>1 DEF Refuse
<1>8. ASSUME NEW c \in Conns, NEW m \in Mrns \cup {NoMrn}, NEW t \in Conns \cup {None}, Connect(c, m, t)
      PROVE  Entries'
  <2>1. E2' /\ E3'
    BY <1>1, <1>8 DEF Connect, Goto, TypeConns, TypeAgents, Minted, Serving
  <2>2. \A d \in Conns : agentOf[d] = d => mrn'[d] = mrn[d]
    BY <1>8 DEF Connect, TypeAgents, Owners
  <2>3. E5'
    BY <1>1, <1>8, <2>2 DEF Connect, TypeAgents
  <2> QED
    BY <1>2, <1>3, <1>4, <1>8, <2>1, <2>3 DEF Connect
<1>9. ASSUME NEW c \in Conns, Lookup(c) PROVE Entries'
  <2>1. /\ agentOf[c] = None /\ UNCHANGED <<answered, mrn, token, agents, mrnToAgent>>
        /\ \A d \in Conns \ {c} : agentOf'[d] = agentOf[d] /\ pc'[d] = pc[d]
        /\ pc'[c] \in {"register", "mint"} /\ pc[c] = "lookup"
    BY <1>9 DEF Lookup, Owners, Goto, TypeConns
  <2>2. E1'
    BY <1>1, <2>1 DEF TypeAgents
  <2>3. E2'
    BY <1>1, <2>1 DEF TypeAgents
  <2>4. E3'
    BY <1>1, <2>1 DEF Minted
  <2>5. E4'
    BY <1>1, <2>1
  <2>6. E5'
    BY <1>1, <2>1 DEF TypeAgents
  <2> QED
    BY <1>2, <2>2, <2>3, <2>4, <2>5, <2>6
<1>10. ASSUME NEW c \in Conns, Register(c) PROVE Entries'
  <2>1. agentOf[c] = c /\ mrn[c] \in Mrns
    BY <1>10 DEF Register, Owners
  <2>2. E5'
    BY <1>1, <1>10, <2>1 DEF Register, TypeAgents
  <2>3. E2' /\ E3'
    BY <1>1, <1>10 DEF Register, Goto, TypeConns, TypeAgents, Minted, Serving
  <2> QED
    BY <1>2, <1>3, <1>4, <1>10, <2>2, <2>3 DEF Register
<1>11. ASSUME NEW c \in Conns, MintToken(c) PROVE Entries'
  <2>1. Self(c) \in Conns /\ Self(c) = agentOf[c] /\ pc[c] = "mint"
    BY <1>11, ServingSelf DEF MintToken, Serving, Self
  <2>2. /\ \A a \in Conns : token'[a] = IF a = agentOf[c] THEN c ELSE token[a]
        /\ \A d \in Conns : pc'[d] = IF d = c THEN "store" ELSE pc[d]
        /\ UNCHANGED <<agentOf, answered, mrn, agents, mrnToAgent>>
    BY <1>11, <2>1 DEF MintToken, Goto, TypeConns, TypeAgents
  <2>3. E2'
    BY <1>1, <2>1, <2>2 DEF TypeAgents
  <2>4. E3'
    <3> SUFFICES ASSUME NEW d \in Conns, pc'[d] \in Minted PROVE token'[agentOf[d]] # None
      BY <2>2
    <3>1. agentOf[d] \in Conns
      <4>1. pc[d] \in Serving
        BY <2>1, <2>2 DEF Minted, Serving
      <4> QED
        BY <4>1, ServingSelf
    <3> QED
      BY <1>1, <2>2, <3>1
  <2> QED
    BY <1>2, <1>3, <1>4, <1>5, <2>2, <2>3, <2>4
<1>12. ASSUME NEW c \in Conns, StoreToken(c) PROVE Entries'
  <2>1. Self(c) \in Conns /\ token[Self(c)] \in Conns /\ Self(c) = agentOf[c]
    BY <1>12, MintedToken DEF StoreToken, Minted, Serving, Self
  <2>2. E1'
    BY <1>1, <1>12, <2>1 DEF StoreToken, TypeAgents
  <2>3. E2' /\ E3'
    BY <1>6, <1>12 DEF StoreToken, Minted, Serving
  <2> QED
    BY <1>2, <1>4, <1>5, <1>12, <2>2, <2>3 DEF StoreToken
<1>13. ASSUME NEW c \in Conns, RespondOk(c) PROVE Entries'
  <2>1. agentOf[c] # None
    BY <1>13, ServingSelf DEF RespondOk, Serving
  <2>2. E4'
    BY <1>1, <1>13, <2>1 DEF RespondOk, TypeConns
  <2>3. E2' /\ E3'
    BY <1>6, <1>13 DEF RespondOk, Minted, Serving
  <2> QED
    BY <1>2, <1>3, <1>5, <1>13, <2>2, <2>3 DEF RespondOk
<1>14. ASSUME NEW c \in Conns, ForgetMrn(c) PROVE Entries'
  <2>1. E5'
    BY <1>1, <1>14 DEF ForgetMrn
  <2>2. E2' /\ E3'
    BY <1>6, <1>14 DEF ForgetMrn, Minted, Serving
  <2> QED
    BY <1>2, <1>3, <1>4, <1>14, <2>1, <2>2 DEF ForgetMrn
<1>15. ASSUME NEW c \in Conns, ForgetToken(c) PROVE Entries'
  <2>1. E1'
    BY <1>1, <1>15 DEF ForgetToken, TypeAgents
  <2>2. E2' /\ E3'
    BY <1>6, <1>15 DEF ForgetToken, Minted, Serving
  <2> QED
    BY <1>2, <1>4, <1>5, <1>15, <2>1, <2>2 DEF ForgetToken
<1>16. CASE GoesOn /\ UNCHANGED <<agentOf, answered, mrn, token, registry>>
  <2>1. CASE UNCHANGED pc
    BY <1>1, <1>2, <1>16, <2>1
  <2>2. ASSUME NEW c \in Conns, NEW p \in Later \cup {"gone"}, pc[c] \in Later, Goto(c, p) PROVE E2' /\ E3'
    BY <1>6, <1>16, <2>2 DEF Later, Minted, Serving
  <2> QED
    BY <1>2, <1>3, <1>4, <1>5, <1>16, <2>1, <2>2 DEF GoesOn
<1> QED
  BY <1>7, <1>8, <1>9, <1>10, <1>11, <1>12, <1>13, <1>14, <1>15, <1>16, StepKinds

(* A connection keeps its Agent, and an Agent its MRN. *)
LEMMA AgentsStay ==
    ASSUME TypeConns, TypeAgents, Owners, [Next]_vars
    PROVE  \A c \in Conns : agentOf[c] # None =>
               /\ agentOf'[c] = agentOf[c] /\ mrn'[c] = mrn[c]
               /\ agentOf[c] \in Conns /\ mrn'[agentOf[c]] = mrn[agentOf[c]]
<1> DEFINE Stay == \A c \in Conns : agentOf[c] # None => agentOf'[c] = agentOf[c] /\ mrn'[c] = mrn[c]
<1>1. \A c \in Conns : agentOf[c] # None => agentOf[c] \in Conns /\ agentOf[agentOf[c]] # None
  BY SessionsAssumption DEF TypeConns, Owners
<1>2. ASSUME UNCHANGED <<agentOf, mrn>> PROVE Stay
  BY <1>2
<1>3. ASSUME NEW c \in Conns, NEW m \in Mrns \cup {NoMrn}, NEW t \in Conns \cup {None}, Connect(c, m, t)
      PROVE  Stay
  BY <1>3 DEF Connect, TypeAgents, Owners
<1>4. ASSUME NEW c \in Conns, Lookup(c) PROVE Stay
  BY <1>4 DEF Lookup, TypeConns, Owners
<1>5. ASSUME NEW c \in Conns, Refuse(c) \/ Register(c) \/ MintToken(c) \/ StoreToken(c) \/ RespondOk(c)
                              \/ ForgetMrn(c) \/ ForgetToken(c)
      PROVE  Stay
  BY <1>2, <1>5 DEF Refuse, Register, MintToken, StoreToken, RespondOk, ForgetMrn, ForgetToken
<1>6. Stay
  BY <1>2, <1>3, <1>4, <1>5, StepKinds
<1> QED
  BY <1>1, <1>6

-----------------------------------------------------------------------------
(* No handler enters or leaves a place where it works on a request. *)
Working == {"subscribe", "setDirect", "fanOut"}
SameWork == /\ UNCHANGED work
            /\ \A c \in Conns : pc'[c] = pc[c] \/ (pc[c] \notin Working /\ pc'[c] \notin Working)

(* The steps of subscribing, of sending and receiving, and all the others. *)
LEMMA WorkKinds ==
    ASSUME TypeConns, [Next]_vars
    PROVE  \/ \E c \in Conns, s \in Subjects : SubscribeSubject(c, s) \/ UnsubscribeSubject(c, s)
           \/ \E c \in Conns : \/ ForwardSubscribe(c) \/ SubscribeDirect(c) \/ UnsubscribeDirect(c)
                               \/ SetDirect(c) \/ ClearDirect(c) \/ SendFanOut(c) \/ ForgetToken(c)
           \/ \E c \in Conns, x \in Msgs : Send(c, x)
           \/ \E c \in Conns, S \in SUBSET Msgs : Receive(c, S)
           \/ (\E x \in Msgs : Arrive(x)) \/ (\E a \in Conns : QueueIncoming(a)) \/ MessageGC
           \/ SameWork /\ UNCHANGED <<direct, topics, asked, queue, incoming, source, left>>
<1> DEFINE Rest == SameWork /\ UNCHANGED <<direct, topics, asked, queue, incoming, source, left>>
<1>1. ASSUME NEW c \in Conns, NEW p, pc[c] \notin Working, p \notin Working, Goto(c, p), UNCHANGED work
      PROVE  SameWork
  BY <1>1 DEF SameWork, Goto, TypeConns
<1>2. ASSUME UNCHANGED <<pc, work>> PROVE SameWork
  BY <1>2 DEF SameWork
<1>3. ASSUME NEW c \in Conns, Refuse(c) \/ Lookup(c) \/ Register(c) \/ MintToken(c) \/ StoreToken(c) PROVE Rest
  BY <1>1, <1>3 DEF Refuse, Lookup, Register, MintToken, StoreToken, Working
<1>4. ASSUME NEW c \in Conns, RespondOk(c) \/ RespondFail(c) \/ ForgetMrn(c) \/ Disconnect(c) \/ HandlerExit(c)
      PROVE  Rest
  BY <1>1, <1>4 DEF RespondOk, RespondFail, ForgetMrn, Disconnect, HandlerExit, Working
<1>5. ASSUME NEW c \in Conns, NEW m \in Mrns \cup {NoMrn}, NEW t \in Conns \cup {None}, Connect(c, m, t)
      PROVE  Rest
  BY <1>1, <1>5 DEF Connect, Working
<1>6. CASE HandleNotify \/ Drain \/ (\E x \in Msgs : Expire(x)) \/ UNCHANGED vars
  BY <1>2, <1>6 DEF HandleNotify, Drain, Expire, vars
<1> HIDE DEF Rest
<1> QED
  BY <1>3, <1>4, <1>5, <1>6 DEF Next, HandlerStep, ConnectStep, Request, Router, Rest

(* Whom a message to recipients is for, and whom a message on a subject. *)
LEMMA TargetsAreAgents ==
    ASSUME TypeAgents, TypeTopics, Entries, Wanted, NEW x \in Msgs
    PROVE  /\ \A a \in DirectTargets(x) : a \in Conns /\ direct[a] /\ mrn[a] \in Recipients[x]
           /\ \A a \in subs[Subject[x]] : a \in Conns /\ Subject[x] \in everSub[a]
<1> USE SessionsAssumption
<1>1. ASSUME NEW a \in DirectTargets(x) PROVE a \in Conns /\ direct[a] /\ mrn[a] \in Recipients[x]
  <2>1. PICK m \in Recipients[x] : a = mrnToAgent[m] /\ a # None /\ direct[a]
    BY <1>1 DEF DirectTargets
  <2>2. m \in Mrns
    OBVIOUS
  <2> QED
    BY <2>1, <2>2 DEF TypeAgents, Entries
<1>2. ASSUME NEW a \in subs[Subject[x]] PROVE a \in Conns /\ Subject[x] \in everSub[a]
  BY <1>2 DEF TypeTopics, Wanted
<1> QED
  BY <1>1, <1>2

(* Only what handlers call their Agent and what the maps lead to gets      *)
(* flags, subscriptions and messages.                                      *)
LEMMA OnlyAgentsStep ==
    /\ TypeConns /\ TypeAgents /\ TypeTopics /\ TypeTraffic /\ Owners /\ Entries /\ OnlyAgents /\ Wanted
    /\ InHand /\ [Next]_vars
    => OnlyAgents'
<1> SUFFICES ASSUME TypeConns, TypeAgents, TypeTopics, TypeTraffic, Owners, Entries, OnlyAgents, Wanted, InHand,
                    [Next]_vars, NEW a \in Conns, agentOf'[a] # a
             PROVE  ~direct'[a] /\ everSub'[a] = {} /\ queue'[a] = {} /\ a \notin left'
  BY DEF OnlyAgents
<1> DEFINE Goal == ~direct'[a] /\ everSub'[a] = {} /\ queue'[a] = {} /\ a \notin left'
<1>1. agentOf[a] # a /\ ~direct[a] /\ everSub[a] = {} /\ queue[a] = {} /\ a \notin left
  <2>1. agentOf[a] # a
    BY AgentsStay, SessionsAssumption
  <2> QED
    BY <2>1 DEF OnlyAgents
<1>2. ASSUME NEW c \in Conns, pc[c] \in Serving PROVE Self(c) \in Conns /\ Self(c) # a
  <2>1. Self(c) \in Conns /\ Self(c) = agentOf[c]
    BY <1>2, ServingSelf DEF Self
  <2> QED
    BY <1>1, <1>2, <2>1 DEF Owners
<1>3. ASSUME NEW x, NEW to, Deliver(x, to), a \notin to PROVE queue'[a] = {}
  BY <1>1, <1>3 DEF Deliver
<1>4. ASSUME NEW x \in Msgs PROVE a \notin DirectTargets(x) /\ a \notin subs[Subject[x]]
  BY <1>1, TargetsAreAgents
<1>5. CASE UNCHANGED <<direct, everSub, queue, left>>
  BY <1>1, <1>5
<1>6. ASSUME NEW c \in Conns, NEW s \in Subjects, SubscribeSubject(c, s) PROVE Goal
  <2>1. Self(c) # a
    BY <1>2, <1>6 DEF SubscribeSubject, Serving
  <2> QED
    BY <1>1, <1>6, <2>1 DEF SubscribeSubject, TypeTopics
<1>7. ASSUME NEW c \in Conns, SetDirect(c) \/ ClearDirect(c) PROVE Goal
  <2>1. Self(c) # a
    BY <1>2, <1>7 DEF SetDirect, ClearDirect, Serving
  <2> QED
    BY <1>1, <1>7, <2>1 DEF SetDirect, ClearDirect, TypeAgents
<1>8. ASSUME NEW c \in Conns, ForgetToken(c) PROVE Goal
  <2>1. Self(c) # a
    BY <1>2, <1>8 DEF ForgetToken, Serving
  <2> QED
    BY <1>1, <1>8, <2>1 DEF ForgetToken
<1>9. ASSUME NEW c \in Conns, SendFanOut(c) PROVE Goal
  <2>1. work[c] \in Msgs
    BY <1>9 DEF SendFanOut, InHand
  <2>2. queue'[a] = {}
    BY <1>3, <1>4, <1>9, <2>1 DEF SendFanOut
  <2> QED
    BY <1>1, <1>9, <2>2 DEF SendFanOut
<1>10. ASSUME NEW x \in Msgs, Arrive(x) PROVE Goal
  <2>1. queue'[a] = {}
    BY <1>1, <1>3, <1>4, <1>10 DEF Arrive
  <2> QED
    BY <1>1, <1>10, <2>1 DEF Arrive
<1>11. ASSUME NEW b \in Conns, QueueIncoming(b) PROVE Goal
  <2>1. b # a
    BY <1>1, <1>11 DEF QueueIncoming, InHand
  <2>2. queue'[a] = {}
    BY <1>3, <1>11, <2>1 DEF QueueIncoming
  <2> QED
    BY <1>1, <1>11, <2>2 DEF QueueIncoming
<1>12. ASSUME NEW c \in Conns, NEW S \in SUBSET Msgs, Receive(c, S) PROVE Goal
  BY <1>1, <1>12 DEF Receive, TypeTraffic
<1>13. CASE MessageGC
  BY <1>1, <1>13 DEF MessageGC
<1>14. ASSUME NEW c \in Conns, ForwardSubscribe(c) \/ SubscribeDirect(c) \/ UnsubscribeDirect(c)
                               \/ (\E s \in Subjects : UnsubscribeSubject(c, s)) \/ \E x \in Msgs : Send(c, x)
       PROVE  Goal
  BY <1>5, <1>14 DEF ForwardSubscribe, SubscribeDirect, UnsubscribeDirect, UnsubscribeSubject, Send
<1> QED
  BY <1>5, <1>6, <1>7, <1>8, <1>9, <1>10, <1>11, <1>12, <1>13, <1>14, WorkKinds

(* What was asked of the router once stays asked or is taken back. *)
LEMMA AskedStays ==
    ASSUME TypeConns, TypeTopics, [Next]_vars
    PROVE  \A y \in Subjects \cup Mrns : asked[y] # "never" => asked'[y] # "never"
<1> DEFINE Goal == \A y \in Subjects \cup Mrns : asked[y] # "never" => asked'[y] # "never"
<1>1. ASSUME UNCHANGED asked PROVE Goal
  BY <1>1
<1>2. ASSUME NEW z, NEW v \in {"subscribe", "unsubscribe"}, asked' = [asked EXCEPT ![z] = v] PROVE Goal
  BY <1>2 DEF TypeTopics
<1>3. ASSUME NEW c \in Conns, ForwardSubscribe(c) \/ SubscribeDirect(c) \/ UnsubscribeDirect(c) PROVE Goal
  BY <1>2, <1>3 DEF ForwardSubscribe, SubscribeDirect, UnsubscribeDirect
<1>4. ASSUME NEW c \in Conns,
             \/ SetDirect(c) \/ ClearDirect(c) \/ SendFanOut(c) \/ ForgetToken(c)
             \/ (\E s \in Subjects : SubscribeSubject(c, s) \/ UnsubscribeSubject(c, s))
             \/ (\E x \in Msgs : Send(c, x)) \/ \E S \in SUBSET Msgs : Receive(c, S)
      PROVE  Goal
  BY <1>1, <1>4 DEF SetDirect, ClearDirect, SendFanOut, ForgetToken, SubscribeSubject, UnsubscribeSubject, Send, Receive
<1>5. ASSUME (\E x \in Msgs : Arrive(x)) \/ (\E a \in Conns : QueueIncoming(a)) \/ MessageGC PROVE Goal
  BY <1>1, <1>5 DEF Arrive, QueueIncoming, MessageGC
<1> HIDE DEF Goal
<1>6. Goal
  BY <1>1, <1>3, <1>4, <1>5, WorkKinds
<1> QED
  BY <1>6 DEF Goal

(* Subscriptions are never forgotten. *)
LEMMA EverSubStays ==
    ASSUME TypeConns, TypeTopics, [Next]_vars
    PROVE  \A a \in Conns : everSub[a] \subseteq everSub'[a]
<1> DEFINE Goal == \A a \in Conns : everSub[a] \subseteq everSub'[a]
<1>1. ASSUME UNCHANGED everSub PROVE Goal
  BY <1>1
<1>2. ASSUME NEW c \in Conns, NEW s \in Subjects, SubscribeSubject(c, s) PROVE Goal
  BY <1>2 DEF SubscribeSubject, TypeTopics
<1>3. ASSUME NEW c \in Conns,
             \/ SetDirect(c) \/ ClearDirect(c) \/ SendFanOut(c) \/ ForgetToken(c)
             \/ ForwardSubscribe(c) \/ SubscribeDirect(c) \/ UnsubscribeDirect(c)
             \/ (\E s \in Subjects : UnsubscribeSubject(c, s))
             \/ (\E x \in Msgs : Send(c, x)) \/ \E S \in SUBSET Msgs : Receive(c, S)
      PROVE  Goal
  BY <1>1, <1>3 DEF SetDirect, ClearDirect, SendFanOut, ForgetToken, ForwardSubscribe, SubscribeDirect,
     UnsubscribeDirect, UnsubscribeSubject, Send, Receive
<1>4. ASSUME (\E x \in Msgs : Arrive(x)) \/ (\E a \in Conns : QueueIncoming(a)) \/ MessageGC PROVE Goal
  BY <1>1, <1>4 DEF Arrive, QueueIncoming, MessageGC
<1> HIDE DEF Goal
<1>5. Goal
  BY <1>1, <1>2, <1>3, <1>4, WorkKinds
<1> QED
  BY <1>5 DEF Goal

(* The flag for direct messages follows the request, and a subscriber is   *)
(* entered when it subscribes.                                             *)
LEMMA WantedStep ==
    /\ TypeConns /\ TypeAgents /\ TypeTopics /\ Owners /\ OnlyAgents /\ Wanted /\ [Next]_vars
    => Wanted'
<1> SUFFICES ASSUME TypeConns, TypeAgents, TypeTopics, Owners, OnlyAgents, Wanted, [Next]_vars PROVE Wanted'
  OBVIOUS
<1> USE SessionsAssumption
<1> DEFINE Ready(a) == mrn[a] \in Mrns /\ asked[mrn[a]] # "never"
           W1 == \A a \in Conns : direct[a] => Ready(a)
           W2 == \A c \in Conns : pc[c] = "setDirect" => Ready(agentOf[c])
           W3 == \A s \in Subjects : \A a \in subs[s] : s \in everSub[a]
<1>1. W1 /\ W2 /\ W3
  BY DEF Wanted
<1>2. ASSUME W1', W2', W3' PROVE Wanted'
  BY <1>2 DEF Wanted
<1>3. \A a \in Conns : agentOf[a] # None /\ Ready(a) => Ready(a)'
  BY AgentsStay, AskedStays
<1>4. \A c \in Conns : agentOf[c] # None =>
          agentOf[c] \in Conns /\ agentOf[agentOf[c]] # None /\ agentOf'[c] = agentOf[c]
  BY AgentsStay DEF Owners
<1>5. \A a \in Conns : direct[a] => Ready(a)'
  BY <1>1, <1>3 DEF OnlyAgents
<1>6. \A c \in Conns : pc[c] = "setDirect" => agentOf'[c] = agentOf[c] /\ \A a : a = agentOf[c] => Ready(a)'
  BY <1>1, <1>3, <1>4 DEF Owners, Serving
<1>7. ASSUME UNCHANGED direct PROVE W1'
  BY <1>5, <1>7
<1>8. ASSUME \A c \in Conns : pc'[c] = "setDirect" => pc[c] = "setDirect" PROVE W2'
  BY <1>6, <1>8
<1>9. ASSUME \A s \in Subjects : subs'[s] \subseteq subs[s] PROVE W3'
  BY <1>1, <1>9, EverSubStays DEF TypeTopics
<1>10. ASSUME NEW c \in Conns, NEW p, Goto(c, p), p # "setDirect" PROVE W2'
  BY <1>8, <1>10 DEF Goto, TypeConns
<1> HIDE DEF W1, W2, W3
<1>11. ASSUME NEW c \in Conns, NEW s \in Subjects, SubscribeSubject(c, s) PROVE Wanted'
  <2>1. Self(c) \in Conns
    BY <1>11, ServingSelf DEF SubscribeSubject, Serving
  <2>2. W3'
    BY <1>1, <1>11, <2>1 DEF SubscribeSubject, TypeTopics, W3
  <2>3. W2'
    BY <1>8, <1>10, <1>11 DEF SubscribeSubject
  <2> QED
    BY <1>2, <1>7, <1>11, <2>2, <2>3 DEF SubscribeSubject
<1>12. ASSUME NEW c \in Conns, NEW s \in Subjects, UnsubscribeSubject(c, s) PROVE Wanted'
  BY <1>2, <1>7, <1>8, <1>9, <1>12 DEF UnsubscribeSubject, TypeTopics
<1>13. ASSUME NEW c \in Conns, SubscribeDirect(c) PROVE Wanted'
  <2>1. Self(c) \in Conns /\ Self(c) = agentOf[c] /\ mrn[agentOf[c]] \in Mrns
    BY <1>13, ServingSelf DEF SubscribeDirect, Serving, TypeAgents, Self
  <2>2. asked'[mrn[agentOf[c]]] = "subscribe" /\ UNCHANGED <<agentOf, mrn>>
    BY <1>13, <2>1 DEF SubscribeDirect, TypeTopics
  <2>3. \A d \in Conns : pc'[d] = "setDirect" => d = c \/ pc[d] = "setDirect"
    BY <1>13 DEF SubscribeDirect, Goto, TypeConns
  <2>4. W2'
    BY <1>6, <2>1, <2>2, <2>3 DEF W2
  <2> QED
    BY <1>2, <1>7, <1>9, <1>13, <2>4 DEF SubscribeDirect
<1>14. ASSUME NEW c \in Conns, SetDirect(c) PROVE Wanted'
  <2>1. Self(c) \in Conns /\ Self(c) = agentOf[c] /\ UNCHANGED <<agentOf, mrn, asked>> /\ Ready(agentOf[c])
    BY <1>1, <1>14, ServingSelf DEF SetDirect, Serving, Self, W2
  <2>2. W1'
    BY <1>5, <1>14, <2>1 DEF SetDirect, TypeAgents, W1
  <2> QED
    BY <1>2, <1>9, <1>10, <1>14, <2>2 DEF SetDirect
<1>15. ASSUME NEW c \in Conns, ClearDirect(c) PROVE Wanted'
  <2>1. \A a \in Conns : direct'[a] => direct[a]
    BY <1>15 DEF ClearDirect, TypeAgents
  <2>2. W1'
    BY <1>5, <2>1 DEF W1
  <2> QED
    BY <1>2, <1>9, <1>10, <1>15, <2>2 DEF ClearDirect
<1>16. ASSUME NEW c \in Conns, ForwardSubscribe(c) \/ UnsubscribeDirect(c) \/ SendFanOut(c) \/ ForgetToken(c)
                               \/ \E x \in Msgs : Send(c, x)
       PROVE  Wanted'
  BY <1>2, <1>7, <1>9, <1>10, <1>16 DEF ForwardSubscribe, UnsubscribeDirect, SendFanOut, ForgetToken, Send
<1>17. CASE \/ \E c \in Conns, S \in SUBSET Msgs : Receive(c, S)
            \/ (\E x \in Msgs : Arrive(x)) \/ (\E a \in Conns : QueueIncoming(a)) \/ MessageGC
  BY <1>2, <1>7, <1>8, <1>9, <1>17 DEF Receive, Arrive, QueueIncoming, MessageGC
<1>18. CASE SameWork /\ UNCHANGED <<direct, topics>>
  BY <1>2, <1>7, <1>8, <1>9, <1>18 DEF SameWork, Working
<1> QED
  BY <1>11, <1>12, <1>13, <1>14, <1>15, <1>16, <1>17, <1>18, WorkKinds

(* A message keeps the source it has got. *)
LEMMA SourceStays ==
    ASSUME TypeConns, TypeTraffic, [Next]_vars
    PROVE  \A x \in Msgs : source[x] # None => source'[x] = source[x]
<1> DEFINE Goal == \A x \in Msgs : source[x] # None => source'[x] = source[x]
<1>1. ASSUME UNCHANGED source PROVE Goal
  BY <1>1
<1>2. ASSUME NEW x \in Msgs, (\E c \in Conns : Send(c, x)) \/ Arrive(x) PROVE Goal
  BY <1>2 DEF Send, Arrive, TypeTraffic
<1>3. ASSUME NEW c \in Conns,
             \/ SetDirect(c) \/ ClearDirect(c) \/ SendFanOut(c) \/ ForgetToken(c)
             \/ ForwardSubscribe(c) \/ SubscribeDirect(c) \/ UnsubscribeDirect(c)
             \/ (\E s \in Subjects : SubscribeSubject(c, s) \/ UnsubscribeSubject(c, s))
             \/ \E S \in SUBSET Msgs : Receive(c, S)
      PROVE  Goal
  BY <1>1, <1>3 DEF SetDirect, ClearDirect, SendFanOut, ForgetToken, ForwardSubscribe, SubscribeDirect,
     UnsubscribeDirect, SubscribeSubject, UnsubscribeSubject, Receive
<1>4. ASSUME (\E a \in Conns : QueueIncoming(a)) \/ MessageGC PROVE Goal
  BY <1>1, <1>4 DEF QueueIncoming, MessageGC
<1> HIDE DEF Goal
<1>5. Goal
  BY <1>1, <1>2, <1>3, <1>4, WorkKinds
<1> QED
  BY <1>5 DEF Goal

(* A message that is sent gets its sender's MRN as its source before it is *)
(* handed to local Agents, and one from the router gets none.              *)
LEMMA InHandStep ==
    /\ TypeConns /\ TypeAgents /\ TypeTopics /\ TypeTraffic /\ Owners /\ Wanted /\ InHand /\ [Next]_vars
    => InHand'
<1> SUFFICES ASSUME TypeConns, TypeAgents, TypeTopics, TypeTraffic, Owners, Wanted, InHand, [Next]_vars
             PROVE  InHand'
  OBVIOUS
<1> USE SessionsAssumption
<1> DEFINE Own(c) == work[c] \in Msgs /\ source[work[c]] = mrn[agentOf[c]] /\ mrn[agentOf[c]] \in Mrns
           H1 == \A c \in Conns : pc[c] = "fanOut" => Own(c)
           H2 == incoming.to # {} => /\ incoming.msg \in Msgs /\ source[incoming.msg] = NoMrn
                                     /\ Recipients[incoming.msg] = {}
           H3 == \A a \in incoming.to : Subject[incoming.msg] \in everSub[a]
           H4 == \A a \in Conns : \A x \in queue[a] : source[x] # None
<1>1. H1 /\ H2 /\ H3 /\ H4
  BY DEF InHand
<1>2. ASSUME H1', H2', H3', H4' PROVE InHand'
  BY <1>2 DEF InHand
<1>3. \A a \in Conns : \A x \in queue[a] : x \in Msgs /\ source'[x] # None
  BY <1>1, SourceStays DEF TypeTraffic
<1>4. ASSUME NEW c \in Conns, pc[c] = "fanOut", work'[c] = work[c] PROVE Own(c)'
  <2>1. Own(c) /\ agentOf[c] # None
    BY <1>1, <1>4 DEF Owners, Serving
  <2>2. agentOf'[c] = agentOf[c] /\ mrn'[agentOf[c]] = mrn[agentOf[c]]
    BY <2>1, AgentsStay
  <2>3. source'[work[c]] = source[work[c]]
    BY <2>1, SourceStays
  <2> QED
    BY <1>4, <2>1, <2>2, <2>3
<1>5. ASSUME \A c \in Conns : pc'[c] = "fanOut" => pc[c] = "fanOut" /\ work'[c] = work[c] PROVE H1'
  BY <1>4, <1>5
<1>6. ASSUME UNCHANGED incoming PROVE H2' /\ H3'
  <2>1. H2'
    BY <1>1, <1>6, SourceStays
  <2>2. H3'
    BY <1>1, <1>6, EverSubStays DEF TypeTraffic
  <2> QED
    BY <2>1, <2>2
<1>7. ASSUME \A a \in Conns : queue'[a] \subseteq queue[a] PROVE H4'
  BY <1>3, <1>7
<1>8. ASSUME NEW x \in Msgs, NEW to, Deliver(x, to), source'[x] # None PROVE H4'
  BY <1>3, <1>8 DEF Deliver
<1>9. ASSUME NEW c \in Conns, NEW p, Goto(c, p), p # "fanOut",
             \A d \in Conns \ {c} : work'[d] = work[d]
      PROVE  H1'
  BY <1>5, <1>9 DEF Goto, TypeConns
<1> HIDE DEF H1, H2, H3, H4
<1>10. ASSUME NEW c \in Conns, NEW x \in Msgs, Send(c, x) PROVE InHand'
  <2>1. Self(c) \in Conns /\ Self(c) = agentOf[c] /\ mrn[agentOf[c]] \in Mrns
    BY <1>10, ServingSelf DEF Send, Serving, TypeAgents, Self
  <2>2. Own(c)'
    BY <1>10, <2>1 DEF Send, TypeConns, TypeTraffic
  <2>3. \A d \in Conns \ {c} : pc'[d] = pc[d] /\ work'[d] = work[d]
    BY <1>10 DEF Send, Goto, TypeConns
  <2>4. H1'
    BY <1>4, <2>2, <2>3 DEF H1
  <2> QED
    BY <1>2, <1>6, <1>7, <1>10, <2>4 DEF Send
<1>11. ASSUME NEW c \in Conns, SendFanOut(c) PROVE InHand'
  <2>1. work[c] \in Msgs /\ source[work[c]] \in Mrns
    BY <1>1, <1>11 DEF SendFanOut, H1
  <2>2. H4'
    BY <1>8, <1>11, <2>1 DEF SendFanOut
  <2>3. H1'
    BY <1>9, <1>11 DEF SendFanOut, TypeConns
  <2> QED
    BY <1>2, <1>6, <1>11, <2>2, <2>3 DEF SendFanOut
<1>12. ASSUME NEW x \in Msgs, Arrive(x) PROVE InHand'
  <2>1. source'[x] = NoMrn /\ UNCHANGED <<pc, work, everSub>>
    BY <1>12 DEF Arrive, TypeTraffic
  <2>2. H1'
    BY <1>5, <2>1
  <2>3. H4'
    BY <1>7, <1>8, <1>12, <2>1 DEF Arrive
  <2>4. H2' /\ H3'
    <3>1. CASE UNCHANGED incoming
      BY <1>6, <3>1
    <3>2. CASE Recipients[x] = {} /\ incoming' = Idle
      BY <3>2 DEF Idle, H2, H3
    <3>3. CASE Recipients[x] = {} /\ incoming' = [msg |-> x, to |-> subs[Subject[x]]]
      BY <2>1, <3>3 DEF Wanted, H2, H3
    <3> QED
      BY <1>12, <3>1, <3>2, <3>3 DEF Arrive
  <2> QED
    BY <1>2, <2>2, <2>3, <2>4
<1>13. ASSUME NEW a \in Conns, QueueIncoming(a) PROVE InHand'
  <2>1. incoming.msg \in Msgs /\ source[incoming.msg] = NoMrn /\ UNCHANGED <<pc, work, everSub, source>>
    BY <1>1, <1>13 DEF QueueIncoming, H2
  <2>2. H4'
    BY <1>8, <1>13, <2>1 DEF QueueIncoming
  <2>3. H2' /\ H3'
    <3>1. CASE incoming' = Idle
      BY <3>1 DEF Idle, H2, H3
    <3>2. CASE incoming' = [msg |-> incoming.msg, to |-> incoming.to \ {a}]
      BY <1>1, <1>13, <2>1, <3>2 DEF H2, H3
    <3> QED
      BY <1>13, <3>1, <3>2 DEF QueueIncoming
  <2> QED
    BY <1>2, <1>5, <2>1, <2>2, <2>3
<1>14. ASSUME NEW c \in Conns, NEW S \in SUBSET Msgs, Receive(c, S) PROVE InHand'
  BY <1>2, <1>5, <1>6, <1>7, <1>14 DEF Receive, TypeTraffic
<1>15. CASE MessageGC
  BY <1>2, <1>5, <1>6, <1>7, <1>15 DEF MessageGC
<1>16. ASSUME NEW c \in Conns, NEW s \in Subjects, SubscribeSubject(c, s) \/ UnsubscribeSubject(c, s) PROVE InHand'
  <2>1. UNCHANGED <<incoming, queue>>
    BY <1>16 DEF SubscribeSubject, UnsubscribeSubject
  <2>2. H1'
    BY <1>5, <1>9, <1>16 DEF SubscribeSubject, UnsubscribeSubject, TypeConns
  <2> QED
    BY <1>2, <1>6, <1>7, <2>1, <2>2
<1>17. ASSUME NEW c \in Conns, ForwardSubscribe(c) \/ SubscribeDirect(c) \/ UnsubscribeDirect(c) \/ SetDirect(c)
                               \/ ClearDirect(c) \/ ForgetToken(c)
       PROVE  InHand'
  <2>1. UNCHANGED <<incoming, queue>>
    BY <1>17 DEF ForwardSubscribe, SubscribeDirect, UnsubscribeDirect, SetDirect, ClearDirect, ForgetToken
  <2>2. H1'
    BY <1>9, <1>17
    DEF ForwardSubscribe, SubscribeDirect, UnsubscribeDirect, SetDirect, ClearDirect, ForgetToken, TypeConns
  <2> QED
    BY <1>2, <1>6, <1>7, <2>1, <2>2
<1>18. CASE SameWork /\ UNCHANGED <<queue, incoming>>
  BY <1>2, <1>5, <1>6, <1>7, <1>18 DEF SameWork, Working
<1> QED
  BY <1>10, <1>11, <1>12, <1>13, <1>14, <1>15, <1>16, <1>17, <1>18, WorkKinds

(* A message is put only into mailboxes it is meant for, and what made it  *)
(* right to put it there stays true.                                       *)
LEMMA MisdeliveryStep ==
    /\ TypeConns /\ TypeAgents /\ TypeTopics /\ TypeTraffic /\ Owners /\ Entries /\ OnlyAgents /\ Wanted
    /\ InHand /\ NoMisdelivery /\ [Next]_vars
    => NoMisdelivery'
<1> SUFFICES ASSUME TypeConns, TypeAgents, TypeTopics, TypeTraffic, Owners, Entries, OnlyAgents, Wanted, InHand,
                    NoMisdelivery, [Next]_vars
             PROVE  NoMisdelivery'
  OBVIOUS
<1> USE SessionsAssumption
<1> DEFINE Right(a, x) ==
             \/ /\ Recipients[x] # {}
                /\ mrn[a] \in Recipients[x]
                /\ asked[mrn[a]] # "never"
             \/ /\ Recipients[x] = {}
                /\ Subject[x] \in everSub[a]
                /\ source[x] # NoMrn => mrn[a] # source[x]
<1>1. ASSUME \A a \in Conns : \A x \in queue'[a] : Right(a, x)' PROVE NoMisdelivery'
  BY <1>1 DEF NoMisdelivery
<1>2. \A a \in Conns : \A x \in queue[a] : Right(a, x)'
  <2> SUFFICES ASSUME NEW a \in Conns, NEW x \in queue[a] PROVE Right(a, x)'
    OBVIOUS
  <2>1. Right(a, x) /\ x \in Msgs
    BY DEF NoMisdelivery, TypeTraffic
  <2>2. agentOf[a] = a
    BY DEF OnlyAgents
  <2>3. mrn'[a] = mrn[a]
    BY <2>2, AgentsStay
  <2>4. source'[x] = source[x]
    BY <2>1, SourceStays DEF InHand
  <2>5. Subject[x] \in everSub[a] => Subject[x] \in everSub'[a]
    BY EverSubStays
  <2>6. mrn[a] \in Recipients[x] /\ asked[mrn[a]] # "never" => asked'[mrn[a]] # "never"
    BY <2>1, AskedStays
  <2> QED
    BY <2>1, <2>3, <2>4, <2>5, <2>6
<1>3. ASSUME \A a \in Conns : queue'[a] \subseteq queue[a] PROVE NoMisdelivery'
  BY <1>1, <1>2, <1>3
<1>4. ASSUME NEW x \in Msgs, NEW to, Deliver(x, to), \A a \in to \cap Conns : Right(a, x)' PROVE NoMisdelivery'
  BY <1>1, <1>2, <1>4 DEF Deliver
<1>5. ASSUME NEW x \in Msgs, Recipients[x] # {}, Deliver(x, DirectTargets(x)), UNCHANGED <<mrn, asked>>
      PROVE  NoMisdelivery'
  <2>1. \A a \in DirectTargets(x) : Right(a, x)'
    BY <1>5, TargetsAreAgents DEF Wanted
  <2> QED
    BY <1>4, <1>5, <2>1
<1> HIDE DEF Right
<1>6. ASSUME NEW c \in Conns, NEW x, x = work[c], SendFanOut(c) PROVE NoMisdelivery'
  <2>1. x \in Msgs /\ source[x] = mrn[agentOf[c]] /\ UNCHANGED <<mrn, asked, source, everSub>>
    BY <1>6 DEF SendFanOut, InHand
  <2>2. CASE Recipients[x] # {} /\ Deliver(x, DirectTargets(x))
    BY <1>5, <2>1, <2>2
  <2>3. CASE Recipients[x] = {} /\ Deliver(x, {a \in subs[Subject[x]] : mrn[a] # mrn[Self(c)]})
    <3>1. \A a \in {b \in subs[Subject[x]] : mrn[b] # mrn[Self(c)]} : Right(a, x)'
      BY <2>1, <2>3, TargetsAreAgents DEF Right, Self
    <3> QED
      BY <1>4, <2>1, <2>3, <3>1
  <2> QED
    BY <1>6, <2>2, <2>3 DEF SendFanOut
<1>7. ASSUME NEW x \in Msgs, Arrive(x) PROVE NoMisdelivery'
  BY <1>3, <1>5, <1>7 DEF Arrive
<1>8. ASSUME NEW b \in Conns, QueueIncoming(b) PROVE NoMisdelivery'
  <2>1. /\ incoming.msg \in Msgs /\ source[incoming.msg] = NoMrn /\ Recipients[incoming.msg] = {}
        /\ Subject[incoming.msg] \in everSub[b] /\ UNCHANGED <<source, everSub>>
    BY <1>8 DEF QueueIncoming, InHand
  <2>2. \A x : x = incoming.msg => \A a \in {b} : Right(a, x)'
    BY <2>1 DEF Right
  <2> QED
    BY <1>4, <1>8, <2>1, <2>2 DEF QueueIncoming
<1>9. ASSUME NEW c \in Conns, NEW S \in SUBSET Msgs, Receive(c, S) PROVE NoMisdelivery'
  BY <1>3, <1>9 DEF Receive, TypeTraffic
<1>10. CASE MessageGC
  BY <1>3, <1>10 DEF MessageGC
<1>11. ASSUME NEW c \in Conns,
              \/ ForwardSubscribe(c) \/ SubscribeDirect(c) \/ UnsubscribeDirect(c) \/ SetDirect(c) \/ ClearDirect(c)
              \/ ForgetToken(c) \/ (\E x \in Msgs : Send(c, x))
              \/ \E s \in Subjects : SubscribeSubject(c, s) \/ UnsubscribeSubject(c, s)
       PROVE  NoMisdelivery'
  BY <1>3, <1>11 DEF ForwardSubscribe, SubscribeDirect, UnsubscribeDirect, SetDirect, ClearDirect, ForgetToken, Send,
     SubscribeSubject, UnsubscribeSubject
<1>12. CASE UNCHANGED queue
  BY <1>3, <1>12
<1> QED
  BY <1>6, <1>7, <1>8, <1>9, <1>10, <1>11, <1>12, WorkKinds

(* A subject becomes a key of subscriptions together with its first        *)
(* subscriber, and subMu is held until the router has been asked for it.   *)
LEMMA UpstreamStep ==
    /\ TypeConns /\ TypeAgents /\ TypeTopics /\ Owners /\ Upstream /\ [Next]_vars
    => Upstream'
<1> SUFFICES ASSUME TypeConns, TypeAgents, TypeTopics, Owners, Upstream, [Next]_vars PROVE Upstream'
  OBVIOUS
<1> USE SessionsAssumption
<1> DEFINE U1 == \A c \in Conns : pc[c] = "subscribe" <=> subMu = c
           U2 == \A c \in Conns : pc[c] = "subscribe" => work[c] \in Subjects
           U3 == \A s \in Subjects : subs[s] # {} => s \in known
           U4 == \A s \in known : asked[s] = "subscribe" \/ \E c \in Conns : subMu = c /\ work[c] = s
<1>1. U1 /\ U2 /\ U3 /\ U4
  BY DEF Upstream
<1>2. ASSUME U1', U2', U3', U4' PROVE Upstream'
  BY <1>2 DEF Upstream
<1>3. ASSUME UNCHANGED subMu, \A c \in Conns : pc'[c] = "subscribe" <=> pc[c] = "subscribe",
             \A c \in Conns : pc[c] = "subscribe" => work'[c] = work[c]
      PROVE  U1' /\ U2'
  BY <1>1, <1>3
<1>4. ASSUME UNCHANGED known, \A s \in Subjects : subs'[s] \subseteq subs[s] PROVE U3'
  BY <1>1, <1>4
<1>5. ASSUME UNCHANGED <<known, subMu>>, \A s \in Subjects : asked'[s] = asked[s],
             \A c \in Conns : pc[c] = "subscribe" => work'[c] = work[c]
      PROVE  U4'
  BY <1>1, <1>5 DEF TypeTopics
<1>6. ASSUME NEW c \in Conns, NEW p, pc[c] # "subscribe", p # "subscribe", Goto(c, p)
      PROVE  \A d \in Conns : pc'[d] = "subscribe" <=> pc[d] = "subscribe"
  BY <1>6 DEF Goto, TypeConns
<1>7. ASSUME UNCHANGED <<subs, known, subMu>>, \A s \in Subjects : asked'[s] = asked[s],
             \A c \in Conns : pc'[c] = "subscribe" <=> pc[c] = "subscribe",
             \A c \in Conns : pc[c] = "subscribe" => work'[c] = work[c]
      PROVE  Upstream'
  BY <1>2, <1>3, <1>4, <1>5, <1>7
<1> HIDE DEF U1, U2, U3, U4
<1>8. ASSUME NEW c \in Conns, NEW s \in Subjects, SubscribeSubject(c, s) PROVE Upstream'
  <2>1. U3'
    BY <1>1, <1>8 DEF SubscribeSubject, TypeTopics, U3
  <2>2. CASE s \in known /\ UNCHANGED <<conns, subMu>>
    <3>1. UNCHANGED <<known, asked>>
      BY <1>8, <2>2 DEF SubscribeSubject
    <3> QED
      BY <1>2, <1>3, <1>5, <2>1, <2>2, <3>1
  <2>3. CASE s \notin known /\ work' = [work EXCEPT ![c] = s] /\ subMu' = c /\ Goto(c, "subscribe")
    <3>1. subMu = None /\ known' = known \cup {s} /\ UNCHANGED asked
      BY <1>8, <2>3 DEF SubscribeSubject
    <3>2. \A d \in Conns : pc[d] # "subscribe"
      BY <1>1, <3>1 DEF U1
    <3>3. U1' /\ U2'
      BY <2>3, <3>2 DEF U1, U2, Goto, TypeConns
    <3>4. subMu' = c /\ work'[c] = s /\ \A y \in known : asked[y] = "subscribe"
      BY <1>1, <2>3, <3>1 DEF U4, TypeConns
    <3>5. U4'
      BY <3>1, <3>4 DEF U4
    <3> QED
      BY <1>2, <2>1, <3>3, <3>5
  <2> QED
    BY <1>8, <2>2, <2>3 DEF SubscribeSubject
<1>9. ASSUME NEW c \in Conns, NEW s \in Subjects, UnsubscribeSubject(c, s) PROVE Upstream'
  <2>1. \A y \in Subjects : subs'[y] \subseteq subs[y]
    BY <1>9 DEF UnsubscribeSubject, TypeTopics
  <2> QED
    BY <1>2, <1>3, <1>4, <1>5, <1>9, <2>1 DEF UnsubscribeSubject
<1>10. ASSUME NEW c \in Conns, ForwardSubscribe(c) PROVE Upstream'
  <2>1. subMu = c /\ work[c] \in Subjects /\ \A d \in Conns : pc[d] = "subscribe" => d = c
    BY <1>1, <1>10 DEF ForwardSubscribe, U1, U2
  <2>2. \A d \in Conns : pc'[d] # "subscribe"
    BY <1>10, <2>1 DEF ForwardSubscribe, Goto, TypeConns
  <2>3. subMu' = None /\ UNCHANGED <<subs, known>>
    BY <1>10 DEF ForwardSubscribe
  <2>4. U1' /\ U2'
    BY <2>2, <2>3 DEF U1, U2
  <2>5. \A s \in Subjects : asked'[s] = IF s = work[c] THEN "subscribe" ELSE asked[s]
    BY <1>10 DEF ForwardSubscribe, TypeTopics
  <2>6. U4'
    BY <1>1, <2>1, <2>3, <2>5 DEF U4, TypeTopics
  <2> QED
    BY <1>2, <1>4, <2>3, <2>4, <2>6
<1>11. ASSUME NEW c \in Conns, SubscribeDirect(c) \/ UnsubscribeDirect(c) PROVE Upstream'
  <2>1. Self(c) \in Conns /\ mrn[Self(c)] \in Mrns
    BY <1>11, ServingSelf DEF SubscribeDirect, UnsubscribeDirect, Serving, TypeAgents
  <2>2. \A s \in Subjects : asked'[s] = asked[s]
    BY <1>11, <2>1 DEF SubscribeDirect, UnsubscribeDirect, TypeTopics
  <2> QED
    BY <1>6, <1>7, <1>11, <2>2 DEF SubscribeDirect, UnsubscribeDirect
<1>12. ASSUME NEW c \in Conns, NEW p, pc[c] \notin {"subscribe"}, p # "subscribe", Goto(c, p),
              \A d \in Conns \ {c} : work'[d] = work[d], UNCHANGED <<subs, known, subMu, asked>>
       PROVE  Upstream'
  BY <1>6, <1>7, <1>12
<1>13. ASSUME NEW c \in Conns, SetDirect(c) \/ ClearDirect(c) \/ SendFanOut(c) \/ ForgetToken(c)
                               \/ \E x \in Msgs : Send(c, x)
       PROVE  Upstream'
  BY <1>12, <1>13 DEF SetDirect, ClearDirect, SendFanOut, ForgetToken, Send, TypeConns
<1>14. CASE \/ \E c \in Conns, S \in SUBSET Msgs : Receive(c, S)
            \/ (\E x \in Msgs : Arrive(x)) \/ (\E a \in Conns : QueueIncoming(a)) \/ MessageGC
  BY <1>7, <1>14 DEF Receive, Arrive, QueueIncoming, MessageGC
<1>15. CASE SameWork /\ UNCHANGED <<topics, asked>>
  BY <1>7, <1>15 DEF SameWork, Working
<1> QED
  BY <1>8, <1>9, <1>10, <1>11, <1>13, <1>14, <1>15, WorkKinds

-----------------------------------------------------------------------------
(* A token is in its Agent before it is in the map, and is deleted there   *)
(* only by a handler that has its Agent leave.                             *)
LEMMA TokensStep ==
    TypeConns /\ TypeAgents /\ Owners /\ Entries /\ Tokens /\ [Next]_vars => Tokens'
<1> SUFFICES ASSUME TypeConns, TypeAgents, Owners, Entries, Tokens, [Next]_vars PROVE Tokens'
  OBVIOUS
<1> USE SessionsAssumption
<1> DEFINE K1 == \A a \in Conns \ left : token[a] # None => agents[token[a]] = a \/ pc[token[a]] = "store"
           K2 == \A c \in Conns : answered[c] = c => agents[c] = agentOf[c] \/ agentOf[c] \in left
<1>1. K1 /\ K2
  BY DEF Tokens
<1>2. ASSUME K1', K2' PROVE Tokens'
  BY <1>2 DEF Tokens
<1>3. ASSUME UNCHANGED <<token, agents, left>>, \A c \in Conns : pc[c] = "store" => pc'[c] = "store" PROVE K1'
  BY <1>1, <1>3 DEF TypeAgents
<1>4. ASSUME UNCHANGED <<answered, agentOf, agents, left>> PROVE K2'
  BY <1>1, <1>4
<1>5. ASSUME NEW c \in Conns, NEW p, Goto(c, p), pc[c] # "store"
      PROVE  \A d \in Conns : pc[d] = "store" => pc'[d] = "store"
  BY <1>5 DEF Goto, TypeConns
<1>6. \A a, b \in Conns : token[a] # None /\ token[a] = token[b] => a = b
  BY DEF Entries
<1> HIDE DEF K1, K2
<1>7. ASSUME NEW c \in Conns, Refuse(c) \/ Register(c) \/ ForgetMrn(c) PROVE Tokens'
  BY <1>2, <1>3, <1>4, <1>5, <1>7 DEF Refuse, Register, ForgetMrn
<1>8. ASSUME NEW c \in Conns, NEW m \in Mrns \cup {NoMrn}, NEW t \in Conns \cup {None}, Connect(c, m, t)
      PROVE  Tokens'
  BY <1>2, <1>3, <1>4, <1>5, <1>8 DEF Connect
<1>9. ASSUME NEW c \in Conns, Lookup(c) PROVE Tokens'
  <2>1. /\ answered[c] = None /\ UNCHANGED <<answered, agents, left, token>>
        /\ \A d \in Conns \ {c} : agentOf'[d] = agentOf[d]
    BY <1>9 DEF Lookup, Owners, Entries, TypeConns
  <2>2. K2'
    BY <1>1, <2>1 DEF K2
  <2>3. K1'
    BY <1>3, <1>5, <1>9, <2>1 DEF Lookup
  <2> QED
    BY <1>2, <2>2, <2>3
<1>10. ASSUME NEW c \in Conns, MintToken(c) PROVE Tokens'
  <2>1. Self(c) \in Conns
    BY <1>10, ServingSelf DEF MintToken, Serving
  <2>2. /\ \A a \in Conns : token'[a] = IF a = Self(c) THEN c ELSE token[a]
        /\ \A d \in Conns : pc'[d] = IF d = c THEN "store" ELSE pc[d]
        /\ UNCHANGED <<agentOf, answered, agents, left>>
    BY <1>10, <2>1 DEF MintToken, Goto, TypeConns, TypeAgents
  <2>3. K1'
    BY <1>1, <2>2 DEF K1, TypeAgents
  <2> QED
    BY <1>2, <1>4, <2>2, <2>3
<1>11. ASSUME NEW c \in Conns, StoreToken(c) PROVE Tokens'
  <2> DEFINE t == token[Self(c)]
  <2>1. Self(c) \in Conns /\ t \in Conns /\ Self(c) = agentOf[c] /\ agentOf[t] = Self(c)
    <3>1. Self(c) \in Conns /\ t \in Conns
      BY <1>11, MintedToken DEF StoreToken, Minted, Serving
    <3> QED
      BY <3>1 DEF Entries, Self
  <2>2. /\ \A d \in Conns : agents'[d] = IF d = t THEN Self(c) ELSE agents[d]
        /\ \A d \in Conns \ {c} : pc'[d] = pc[d]
        /\ UNCHANGED <<token, agentOf, answered, left>>
    BY <1>11, <2>1 DEF StoreToken, Goto, TypeConns, TypeAgents
  <2>3. K2'
    BY <1>1, <2>1, <2>2 DEF K2
  <2>4. ASSUME NEW a \in Conns \ left, token[a] # None PROVE agents'[token[a]] = a \/ pc'[token[a]] = "store"
    <3>1. token[a] \in Conns /\ agentOf[token[a]] = a
      BY <2>4 DEF TypeAgents, Entries
    <3>2. CASE a = Self(c)
      BY <2>1, <2>2, <3>2
    <3>3. CASE a # Self(c)
      <4>1. token[a] # t /\ token[a] # c
        BY <1>6, <2>1, <2>4, <3>1, <3>3
      <4> QED
        BY <1>1, <2>2, <2>4, <3>1, <4>1 DEF K1
    <3> QED
      BY <3>2, <3>3
  <2>5. K1'
    BY <2>2, <2>4 DEF K1
  <2> QED
    BY <1>2, <2>3, <2>5
<1>12. ASSUME NEW c \in Conns, RespondOk(c) PROVE Tokens'
  <2>1. Self(c) \in Conns /\ Self(c) = agentOf[c] /\ pc[c] = "respond"
    BY <1>12, ServingSelf DEF RespondOk, Serving, Self
  <2>2. /\ \A d \in Conns : answered'[d] = IF d = c THEN token[Self(c)] ELSE answered[d]
        /\ UNCHANGED <<agentOf, agents, left, token>>
    BY <1>12 DEF RespondOk, TypeConns
  <2>3. token[Self(c)] = c => agents[c] = agentOf[c] \/ agentOf[c] \in left
    BY <1>1, <2>1 DEF K1
  <2>4. K2'
    BY <1>1, <2>2, <2>3 DEF K2
  <2> QED
    BY <1>2, <1>3, <1>5, <1>12, <2>2, <2>4 DEF RespondOk
<1>13. ASSUME NEW c \in Conns, ForgetToken(c) PROVE Tokens'
  <2> DEFINE t == token[Self(c)]
  <2>1. Self(c) \in Conns /\ t \in Conns /\ agentOf[t] = Self(c)
    <3>1. Self(c) \in Conns /\ t \in Conns
      BY <1>13, MintedToken DEF ForgetToken, Minted, Serving
    <3> QED
      BY <3>1 DEF Entries
  <2>2. /\ \A d \in Conns : agents'[d] = IF d = t THEN None ELSE agents[d]
        /\ left' = left \cup {Self(c)}
        /\ UNCHANGED <<token, agentOf, answered>>
        /\ \A d \in Conns : pc[d] = "store" => pc'[d] = "store"
    BY <1>5, <1>13, <2>1 DEF ForgetToken, TypeAgents
  <2>3. K2'
    BY <1>1, <2>1, <2>2 DEF K2
  <2>4. ASSUME NEW a \in Conns \ left', token[a] # None PROVE agents'[token[a]] = a \/ pc'[token[a]] = "store"
    <3>1. token[a] \in Conns /\ token[a] # t /\ a \in Conns \ left
      BY <1>6, <2>1, <2>2, <2>4 DEF TypeAgents
    <3> QED
      BY <1>1, <2>2, <2>4, <3>1 DEF K1
  <2>5. K1'
    BY <2>2, <2>4 DEF K1
  <2> QED
    BY <1>2, <2>3, <2>5
<1>14. CASE GoesOn /\ UNCHANGED <<agentOf, answered, token, registry, left>>
  <2>1. \A d \in Conns : pc[d] = "store" => pc'[d] = "store"
    BY <1>5, <1>14 DEF GoesOn, Later
  <2> QED
    BY <1>2, <1>3, <1>4, <1>14, <2>1
<1> QED
  BY <1>7, <1>8, <1>9, <1>10, <1>11, <1>12, <1>13, <1>14, StepKinds

(* The only connection of an Agent is gone when the Agent has left. *)
LEMMA LeaversStep ==
    TypeConns /\ TypeAgents /\ Owners /\ Entries /\ OnlyAgents /\ Leavers /\ [Next]_vars => Leavers'
<1> SUFFICES ASSUME TypeConns, TypeAgents, Owners, Entries, OnlyAgents, Leavers, [Next]_vars,
                    NEW a \in left', \A c \in Conns \ {a} : agentOf'[c] # a
             PROVE  pc'[a] = "gone" /\ agents'[a] = None
  BY DEF Leavers
<1> USE SessionsAssumption
<1> DEFINE Goal == pc'[a] = "gone" /\ agents'[a] = None
<1>1. ASSUME a \in left
      PROVE  /\ pc[a] = "gone" /\ agents[a] = None /\ a \in Conns /\ agentOf[a] = a
             /\ \A c \in Conns \ {a} : agentOf[c] # a
  <2>1. a \in Conns
    BY <1>1 DEF TypeAgents
  <2>2. \A c \in Conns \ {a} : agentOf[c] # a
    BY <2>1, AgentsStay
  <2> QED
    BY <1>1, <2>1, <2>2 DEF Leavers, OnlyAgents
<1>2. ASSUME NEW c \in Conns, NEW p, Goto(c, p), pc[c] # "gone", a \in left PROVE pc'[a] = "gone"
  BY <1>1, <1>2 DEF Goto, TypeConns
<1>3. ASSUME NEW c \in Conns, Refuse(c) \/ Lookup(c) \/ Register(c) \/ MintToken(c) \/ RespondOk(c) \/ ForgetMrn(c)
      PROVE  Goal
  BY <1>1, <1>2, <1>3 DEF Refuse, Lookup, Register, MintToken, RespondOk, ForgetMrn
<1>4. ASSUME NEW c \in Conns, NEW m \in Mrns \cup {NoMrn}, NEW t \in Conns \cup {None}, Connect(c, m, t)
      PROVE  Goal
  BY <1>1, <1>2, <1>4 DEF Connect
<1>5. ASSUME NEW c \in Conns, StoreToken(c) PROVE Goal
  <2>1. a \in left
    BY <1>5 DEF StoreToken
  <2>2. Self(c) = agentOf[c] /\ Self(c) \in Conns /\ token[Self(c)] \in Conns
    BY <1>5, MintedToken DEF StoreToken, Minted, Serving, Self
  <2>3. agentOf[token[Self(c)]] = Self(c)
    BY <2>2 DEF Entries
  <2>4. token[Self(c)] # a
    BY <1>1, <1>5, <2>1, <2>2, <2>3 DEF StoreToken
  <2>5. agents'[a] = agents[a]
    BY <1>1, <1>5, <2>1, <2>4 DEF StoreToken, TypeAgents
  <2> QED
    BY <1>1, <1>2, <1>5, <2>1, <2>5 DEF StoreToken
<1>6. ASSUME NEW c \in Conns, ForgetToken(c) PROVE Goal
  <2>1. Self(c) = agentOf[c] /\ Self(c) \in Conns /\ token[Self(c)] \in Conns
    BY <1>6, MintedToken DEF ForgetToken, Minted, Serving, Self
  <2>2. agentOf[token[Self(c)]] = Self(c) /\ UNCHANGED agentOf
    BY <1>6, <2>1 DEF Entries, ForgetToken
  <2>3. CASE a \in left
    BY <1>1, <1>2, <1>6, <2>1, <2>3 DEF ForgetToken, TypeAgents
  <2>4. CASE a = Self(c)
    <3>1. c = a /\ token[Self(c)] = a
      BY <2>1, <2>2, <2>4
    <3> QED
      BY <1>6, <3>1 DEF ForgetToken, Goto, TypeConns, TypeAgents
  <2> QED
    BY <1>6, <2>3, <2>4 DEF ForgetToken
<1>7. CASE GoesOn /\ UNCHANGED <<registry, left>>
  <2>1. pc'[a] = "gone"
    BY <1>1, <1>2, <1>7 DEF GoesOn, Later, Minted, Serving
  <2> QED
    BY <1>1, <1>7, <2>1
<1> QED
  BY <1>3, <1>4, <1>5, <1>6, <1>7, StepKinds

-----------------------------------------------------------------------------
(* Before the first connection there is no Agent. *)
LEMMA InitIInv == Init => IInv
<1> SUFFICES ASSUME Init PROVE IInv
  OBVIOUS
<1> USE SessionsAssumption DEF Init
<1>1. TypeConns
  BY DEF TypeConns, HandlerStates
<1>2. TypeAgents
  BY DEF TypeAgents
<1>3. TypeTopics
  BY DEF TypeTopics
<1>4. TypeTraffic
  BY DEF TypeTraffic, Idle
<1>5. Owners /\ Entries
  BY DEF Owners, Entries, Serving, Minted
<1>6. OnlyAgents /\ Wanted
  BY DEF OnlyAgents, Wanted
<1>7. InHand /\ NoMisdelivery
  BY DEF InHand, NoMisdelivery, Idle
<1>8. Upstream /\ Tokens /\ Leavers
  BY DEF Upstream, Tokens, Leavers
<1> QED
  BY <1>1, <1>2, <1>3, <1>4, <1>5, <1>6, <1>7, <1>8, TypeParts DEF IInv

(* IInv holds in every reachable state. *)
THEOREM Invariance == Spec => []IInv
<1>1. IInv /\ [Next]_vars => IInv'
  <2> SUFFICES ASSUME IInv, [Next]_vars PROVE IInv'
    OBVIOUS
  <2>1. TypeConns /\ TypeAgents /\ TypeTopics /\ TypeTraffic
    BY TypeParts DEF IInv
  <2>2. /\ Owners /\ Entries /\ OnlyAgents /\ Wanted /\ InHand /\ Upstream /\ Tokens /\ Leavers
        /\ NoMisdelivery
    BY DEF IInv
  <2>3. TypeConns' /\ TypeAgents' /\ TypeTopics' /\ TypeTraffic'
    BY <2>1, <2>2, TypeConnsStep, TypeAgentsStep, TypeTopicsStep, TypeTrafficStep
  <2>4. TypeOK'
    BY <2>3, TypeParts, PTL
  <2>5. Owners' /\ Entries' /\ OnlyAgents'
    BY <2>1, <2>2, OwnersStep, EntriesStep, OnlyAgentsStep
  <2>6. Wanted' /\ InHand' /\ NoMisdelivery'
    BY <2>1, <2>2, WantedStep, InHandStep, MisdeliveryStep
  <2>7. Upstream' /\ Tokens' /\ Leavers'
    BY <2>1, <2>2, UpstreamStep, TokensStep, LeaversStep
  <2> QED
    BY <2>4, <2>5, <2>6, <2>7 DEF IInv
<1> QED
  BY <1>1, InitIInv, PTL DEF Spec

(* Type correctness, with the channel to the router within its capacity. *)
THEOREM TypeCorrect == Spec => []TypeOK
<1>1. IInv => TypeOK
  BY DEF IInv
<1> QED
  BY <1>1, Invariance, PTL

(* A message lies only in mailboxes of Agents it is meant for, however     *)
(* many Agents bear the same MRN and however often they come back.         *)
THEOREM DeliveredRightly == Spec => []NoMisdelivery
<1>1. IInv => NoMisdelivery
  BY DEF IInv
<1> QED
  BY <1>1, Invariance, PTL

(* While subMu is free, the router has been asked for every subject that   *)
(* has a subscriber.                                                       *)
THEOREM AskedUpstream == Spec => []UpstreamFirst
<1>1. IInv => UpstreamFirst
  BY SessionsAssumption DEF IInv, Upstream, UpstreamFirst
<1> QED
  BY <1>1, Invariance, PTL

(* The reconnect token that a client was answered with leads back to its   *)
(* Agent, except in the race that TokenLeadsBack describes.                *)
THEOREM TokensLeadBack == Spec => []TokenLeadsBack
<1>1. IInv => TokenLeadsBack
  <2> SUFFICES ASSUME IInv, NEW c \in Conns, answered[c] # None, agentOf[c] \notin left,
                      answered[c] = c \/ (pc[answered[c]] # "store" /\ token[agentOf[c]] = answered[c])
               PROVE  agents[answered[c]] = agentOf[c]
    BY DEF TokenLeadsBack, Self
  <2>1. agentOf[c] \in Conns
    BY DEF IInv, TypeOK, Entries
  <2>2. CASE answered[c] = c
    BY <2>2 DEF IInv, Tokens
  <2>3. CASE pc[answered[c]] # "store" /\ token[agentOf[c]] = answered[c]
    BY <2>1, <2>3 DEF IInv, Tokens
  <2> QED
    BY <2>2, <2>3
<1> QED
  BY <1>1, Invariance, PTL

(* An Agent that has left and had one connection only is reached by no     *)
(* reconnect token.                                                        *)
THEOREM LeaversForgotten == Spec => []ForgottenUnlessReconnected
<1>1. IInv => ForgottenUnlessReconnected
  <2> SUFFICES ASSUME IInv, NEW a \in left, a \in Range(agents), \A c \in Conns \ {a} : agentOf[c] # a
               PROVE  FALSE
    BY DEF ForgottenUnlessReconnected, Self
  <2>1. PICK t \in Conns : agents[t] = a
    BY DEF Range, IInv, TypeOK
  <2>2. a \in Conns /\ a # None
    BY SessionsAssumption DEF IInv, TypeOK
  <2>3. agentOf[t] = a
    BY <2>1, <2>2 DEF IInv, Entries
  <2>4. agents[a] = None
    BY DEF IInv, Leavers
  <2> QED
    BY <2>1, <2>2, <2>3, <2>4
<1> QED
  BY <1>1, Invariance, PTL
=============================================================================
