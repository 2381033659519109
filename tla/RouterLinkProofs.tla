-------------------------- MODULE RouterLinkProofs --------------------------
(* Proofs about RouterLink.tla, for any requests, topics and bounds. *)
EXTENDS RouterLink, TLAPS

USE DEF edge, network, router

Connecting(g) == pc[g] \in {"ping", "dial", "hello", "welcome"}

(* wsMu is held by the goroutine that is inside TryConnectRouter, which    *)
(* dials only when no connection works; routerWs is the last one dialled.  *)
OneDials ==
    /\ \A g \in Goroutines : Connecting(g) <=> wsMu = g
    /\ \A g \in Goroutines : pc[g] = "dial" => alive = {}
    /\ ws = dialled

(* A goroutine has a message in hand exactly where it has to get rid of    *)
(* it; one whose response is to be expected has been written.              *)
Hands ==
    /\ hand["writer"] # None <=> pc["writer"] \in {"write", "expect", "pushBack"}
    /\ hand["reader"] # None <=> pc["reader"] = "put"
    /\ pc["writer"] = "expect" => hand["writer"] \in written \cap (Subscribes \cup Unsubscribes)

(* Without a refused Subscribe, responses are good ones, and the reader    *)
(* puts nothing on the channel but Receives.                               *)
SmoothReader ==
    smooth => /\ \A k \in ConnIds : \A i \in 1 .. Len(down[k]) : down[k][i] = Notify \/ down[k][i].good
              /\ pc["reader"] = "put" => hand["reader"] = ReceiveReq

UnusedAreEmpty == \A k \in ConnIds : k > dialled => up[k] = <<>>

About(r, t) == r \in Subscribes \cup Unsubscribes /\ Topic[r] = t
Free(s, t) == \A i \in 1 .. Len(s) : ~About(s[i], t)
LastIs(s, t, r) == \E i \in 1 .. Len(s) : /\ s[i] = r /\ About(r, t)
                                          /\ \A j \in (i + 1) .. Len(s) : ~About(s[j], t)

(* What the writer has in hand and has not written. *)
Held == IF pc["writer"] \in {"write", "pushBack"} THEN hand["writer"] ELSE None

(* The latest request l about topic t is the last one about it on the way  *)
(* from the handlers to the Router, which leads over the channel c, the    *)
(* writer's hand h and the connection u, or the Router has acted on it:    *)
(* its subscriber is s.                                                    *)
OnItsWay(c, h, u, s, l, t) ==
    \/ LastIs(c, t, l)
    \/ /\ Free(c, t)
       /\ \/ h = l /\ About(l, t)
          \/ /\ ~About(h, t)
             /\ \/ LastIs(u, t, l)
                \/ Free(u, t) /\ s = IF l \in Subscribes THEN 1 ELSE 0

(* The first connection has not been replaced and has not failed. *)
FirstLink == smooth /\ dialled \in {0, 1} /\ (dialled = 1 => 1 \in alive)

InOrder == FirstLink => \A t \in Topics : OnItsWay(chan, Held, up[1], subscriber[t], latest[t], t)

IInv == /\ TypeOK /\ OneConnection /\ OneDials /\ Hands /\ NothingDropped
        /\ SmoothReader /\ UnusedAreEmpty /\ InOrder

-----------------------------------------------------------------------------
Places == {"take", "write", "expect", "pushBack", "read", "busy", "put", "lock", "ping", "dial", "hello",
           "welcome"}

(* TypeOK in three parts: the Edge Router, the connections, the rest. *)
TypeEdge ==
    /\ chan \in Seq(Requests \cup {ReceiveReq}) /\ Len(chan) <= ChannelBufSize
    /\ pc \in [Goroutines -> Places]
    /\ hand \in [Goroutines -> Requests \cup {ReceiveReq, None}]
    /\ wsMu \in Goroutines \cup {None}
    /\ ws \in 0..MaxConns /\ readWs \in 0..MaxConns
    /\ await \subseteq Subscribes \cup Unsubscribes

TypeNet ==
    /\ alive \subseteq ConnIds
    /\ dialled \in 0..MaxConns
    /\ up \in [ConnIds -> Seq(Requests \cup {Hello, ReceiveReq})]
    /\ down \in [ConnIds -> Seq(Response \cup {Notify})]

TypeRest ==
    /\ greeted \subseteq ConnIds
    /\ subscriber \in [Topics -> 0..MaxConns]
    /\ faults \in 0..MaxFaults
    /\ offered \subseteq Requests /\ written \subseteq Requests
    /\ smooth \in BOOLEAN
    /\ latest \in [Topics -> Subscribes \cup Unsubscribes \cup {None}]

(* The three parts are TypeOK. *)
LEMMA TypeParts == TypeOK <=> TypeEdge /\ TypeNet /\ TypeRest
  BY DEF TypeOK, TypeEdge, TypeNet, TypeRest, Places

(* The channel and the goroutines: what is put on the channel was in a     *)
(* goroutine's hand or is a new request, and there is room for it.         *)
LEMMA TypeEdgeStep == TypeEdge /\ TypeNet /\ Hands /\ [Next]_vars => TypeEdge'
<1> SUFFICES ASSUME TypeEdge, TypeNet, Hands, [Next]_vars PROVE TypeEdge'
  OBVIOUS
<1> USE LinkAssumption DEF TypeEdge, Goroutines, Places, Goto
<1>1. ASSUME NEW r \in Requests \cup {ReceiveReq}, Put(r)
      PROVE  chan' \in Seq(Requests \cup {ReceiveReq}) /\ Len(chan') <= ChannelBufSize
  BY <1>1 DEF Put
<1>2. ASSUME NEW r \in Requests, Offer(r) PROVE TypeEdge'
  BY <1>1, <1>2 DEF Offer
<1>3. CASE Take
  <2>1. /\ Head(chan) \in Requests \cup {ReceiveReq}
        /\ chan' \in Seq(Requests \cup {ReceiveReq}) /\ Len(chan') <= ChannelBufSize
    BY <1>3 DEF Take
  <2> QED
    BY <1>3, <2>1 DEF Take
<1>4. CASE WriteOk \/ WriteFail
  BY <1>4 DEF WriteOk, WriteFail
<1>5. CASE Expect
  BY <1>5 DEF Expect, Hands
<1>6. CASE PushBack
  <2>1. hand["writer"] \in Requests \cup {ReceiveReq}
    BY <1>6 DEF PushBack, Hands
  <2> QED
    BY <1>1, <1>6, <2>1 DEF PushBack
<1>7. CASE ReadResponse
  BY <1>7 DEF ReadResponse, Requests
<1>8. CASE ReadNotify \/ ReadNext \/ ReadFail
  BY <1>8 DEF ReadNotify, ReadNext, ReadFail
<1>9. CASE ReaderPut
  <2>1. hand["reader"] \in Requests \cup {ReceiveReq}
    BY <1>9 DEF ReaderPut, Hands
  <2> QED
    BY <1>1, <1>9, <2>1 DEF ReaderPut
<1>10. ASSUME NEW g \in Goroutines, Lock(g) \/ PingOk(g) \/ PingFail(g) PROVE TypeEdge'
  BY <1>10 DEF Lock, PingOk, PingFail, ReturnTo, Home
<1>11. ASSUME NEW g \in Goroutines, Dial(g) PROVE TypeEdge'
  <2>1. dialled + 1 \in 0 .. MaxConns
    BY <1>11 DEF Dial, TypeNet
  <2> QED
    BY <1>11, <2>1 DEF Dial
<1>12. ASSUME NEW g \in Goroutines, SayHello(g) \/ Welcome(g) PROVE TypeEdge'
  BY <1>12 DEF SayHello, Welcome, ReturnTo, Home
<1>13. ASSUME NEW k \in ConnIds, Router(k) \/ RouterError(k) \/ RouterNotify(k) \/ Break(k) PROVE TypeEdge'
  BY <1>13 DEF Router, RouterGreet, RouterHandle, RouterLose, RouterError, RouterNotify, Break
<1>14. CASE UNCHANGED vars
  BY <1>14 DEF vars
<1> QED
  BY <1>2, <1>3, <1>4, <1>5, <1>6, <1>7, <1>8, <1>9, <1>10, <1>11, <1>12, <1>13, <1>14
  DEF Next, Writer, Reader, TryConnectRouter

(* The connections: both sides write requests and responses only. *)
LEMMA TypeNetStep == TypeEdge /\ TypeNet /\ Hands /\ [Next]_vars => TypeNet'
<1> SUFFICES ASSUME TypeEdge, TypeNet, Hands, [Next]_vars PROVE TypeNet'
  OBVIOUS
<1> USE LinkAssumption DEF TypeNet
<1>1. ASSUME NEW r \in Requests, Offer(r) PROVE TypeNet'
  BY <1>1 DEF Offer
<1>2. CASE Take \/ WriteFail \/ Expect \/ PushBack \/ ReaderPut \/ ReadNext \/ ReadFail
  BY <1>2 DEF Take, WriteFail, Expect, PushBack, ReaderPut, ReadNext, ReadFail
<1>3. CASE WriteOk
  <2>1. hand["writer"] \in Requests \cup {Hello, ReceiveReq} /\ ws \in ConnIds
    BY <1>3 DEF WriteOk, Requests
  <2>2. up' \in [ConnIds -> Seq(Requests \cup {Hello, ReceiveReq})]
    BY <1>3, <2>1 DEF WriteOk
  <2> QED
    BY <1>3, <2>2 DEF WriteOk
<1>4. CASE ReadResponse \/ ReadNotify
  <2>1. readWs \in ConnIds /\ down[readWs] # <<>> /\ down' = [down EXCEPT ![readWs] = Tail(@)]
    BY <1>4 DEF ReadResponse, ReadNotify
  <2>2. down' \in [ConnIds -> Seq(Response \cup {Notify})]
    BY <2>1
  <2> QED
    BY <1>4, <2>2 DEF ReadResponse, ReadNotify
<1>5. ASSUME NEW g \in Goroutines, Lock(g) \/ PingOk(g) \/ PingFail(g) PROVE TypeNet'
  BY <1>5 DEF Lock, PingOk, PingFail
<1>6. ASSUME NEW g \in Goroutines, Dial(g) PROVE TypeNet'
  BY <1>6 DEF Dial, ConnIds
<1>7. ASSUME NEW g \in Goroutines, SayHello(g) PROVE TypeNet'
  <2>1. ws \in ConnIds => Append(up[ws], Hello) \in Seq(Requests \cup {Hello, ReceiveReq})
    OBVIOUS
  <2>2. up' \in [ConnIds -> Seq(Requests \cup {Hello, ReceiveReq})]
    BY <1>7, <2>1 DEF SayHello
  <2> QED
    BY <1>7, <2>2 DEF SayHello
<1>8. ASSUME NEW g \in Goroutines, Welcome(g) PROVE TypeNet'
  <2>1. ws \in ConnIds /\ down[ws] # <<>> => Tail(down[ws]) \in Seq(Response \cup {Notify})
    OBVIOUS
  <2>2. down' \in [ConnIds -> Seq(Response \cup {Notify})]
    BY <1>8, <2>1 DEF Welcome
  <2> QED
    BY <1>8, <2>2 DEF Welcome
<1>9. ASSUME NEW k \in ConnIds, NEW r \in Requests \cup {Hello, ReceiveReq}, NEW ok \in BOOLEAN, Answer(k, r, ok)
      PROVE  down' \in [ConnIds -> Seq(Response \cup {Notify})]
  <2>1. [to |-> r, good |-> ok] \in Response \cup {Notify}
    BY DEF Response
  <2> QED
    BY <1>9, <2>1 DEF Answer
<1>10. ASSUME NEW k \in ConnIds, Router(k) \/ RouterError(k) PROVE TypeNet'
  <2>1. up[k] # <<>> /\ up[k] \in Seq(Requests \cup {Hello, ReceiveReq})
    BY <1>10 DEF Router, RouterGreet, RouterHandle, RouterLose, RouterError
  <2>2. Head(up[k]) \in Requests \cup {Hello, ReceiveReq} /\ Tail(up[k]) \in Seq(Requests \cup {Hello, ReceiveReq})
    BY <2>1
  <2>3. up' \in [ConnIds -> Seq(Requests \cup {Hello, ReceiveReq})]
    <3>1. up' = [up EXCEPT ![k] = Tail(up[k])] \/ up' = [up EXCEPT ![k] = <<>>]
      BY <1>10 DEF Router, RouterGreet, RouterHandle, RouterLose, RouterError
    <3>2. <<>> \in Seq(Requests \cup {Hello, ReceiveReq})
      OBVIOUS
    <3> QED
      BY <2>2, <3>1, <3>2
  <2>4. down' \in [ConnIds -> Seq(Response \cup {Notify})]
    BY <1>9, <1>10, <2>2 DEF Router, RouterGreet, RouterHandle, RouterLose, RouterError
  <2> QED
    BY <1>10, <2>3, <2>4 DEF Router, RouterGreet, RouterHandle, RouterLose, RouterError
<1>11. ASSUME NEW k \in ConnIds, RouterNotify(k) PROVE TypeNet'
  <2>1. down' \in [ConnIds -> Seq(Response \cup {Notify})]
    BY <1>11 DEF RouterNotify
  <2> QED
    BY <1>11, <2>1 DEF RouterNotify
<1>12. ASSUME NEW k \in ConnIds, Break(k) PROVE TypeNet'
  BY <1>12 DEF Break
<1>13. CASE UNCHANGED vars
  BY <1>13 DEF vars
<1> QED
  BY <1>1, <1>2, <1>3, <1>4, <1>5, <1>6, <1>7, <1>8, <1>10, <1>11, <1>12, <1>13
  DEF Next, Writer, Reader, TryConnectRouter

(* The Router's state, the count of faults and the history. *)
LEMMA TypeRestStep == TypeEdge /\ TypeNet /\ TypeRest /\ [Next]_vars => TypeRest'
<1> SUFFICES ASSUME TypeEdge, TypeNet, TypeRest, [Next]_vars PROVE TypeRest'
  OBVIOUS
<1> USE LinkAssumption DEF TypeRest
<1>1. ASSUME NEW r \in Requests, Offer(r) PROVE TypeRest'
  BY <1>1 DEF Offer
<1>2. CASE Writer
  BY <1>2 DEF Writer, Take, WriteOk, WriteFail, Expect, PushBack
<1>3. CASE Reader
  BY <1>3 DEF Reader, ReadResponse, ReadNotify, ReaderPut, ReadNext, ReadFail
<1>4. ASSUME Fault PROVE faults' \in 0 .. MaxFaults
  BY <1>4 DEF Fault
<1>5. ASSUME NEW g \in Goroutines, TryConnectRouter(g) PROVE TypeRest'
  BY <1>4, <1>5 DEF TryConnectRouter, Lock, PingOk, PingFail, Dial, SayHello, Welcome
<1>6. ASSUME NEW k \in ConnIds, RouterGreet(k) \/ RouterLose(k) PROVE TypeRest'
  BY <1>6 DEF RouterGreet, RouterLose
<1>7. ASSUME NEW k \in ConnIds, RouterHandle(k) PROVE TypeRest'
  <2>1. k \in 0 .. MaxConns /\ 0 \in 0 .. MaxConns
    BY DEF ConnIds
  <2>2. UNCHANGED subscriber \/ \E t \in Topics, n \in {0, k} : subscriber' = [subscriber EXCEPT ![t] = n]
    BY <1>7 DEF RouterHandle
  <2>3. subscriber' \in [Topics -> 0 .. MaxConns]
    BY <2>1, <2>2
  <2> QED
    BY <1>7, <2>3 DEF RouterHandle
<1>8. ASSUME NEW k \in ConnIds, RouterError(k) \/ RouterNotify(k) \/ Break(k) PROVE TypeRest'
  BY <1>4, <1>8 DEF RouterError, RouterNotify, Break
<1>9. CASE UNCHANGED vars
  BY <1>9 DEF vars
<1> QED
  BY <1>1, <1>2, <1>3, <1>5, <1>6, <1>7, <1>8, <1>9 DEF Next, Router

(* wsMu keeps the goroutines apart in TryConnectRouter, where the old      *)
(* connection is closed before another one is dialled; every other step    *)
(* can only end a connection.                                              *)
LEMMA DialStep ==
    TypeEdge /\ TypeNet /\ OneConnection /\ OneDials /\ [Next]_vars => OneConnection' /\ OneDials'
<1> SUFFICES ASSUME TypeEdge, TypeNet, OneConnection, OneDials, [Next]_vars
             PROVE  OneConnection' /\ OneDials'
  OBVIOUS
<1> USE LinkAssumption DEF OneConnection, OneDials
<1>1. ASSUME UNCHANGED <<wsMu, ws, dialled>>, alive' \subseteq alive,
             \A g \in Goroutines : (Connecting(g)' <=> Connecting(g)) /\ (pc'[g] = "dial" => pc[g] = "dial")
      PROVE  OneConnection' /\ OneDials'
  BY <1>1
<1>2. CASE UNCHANGED <<pc, wsMu, ws, dialled>> /\ alive' \subseteq alive
  BY <1>1, <1>2 DEF Connecting
<1>3. ASSUME NEW r \in Requests, Offer(r) PROVE OneConnection' /\ OneDials'
  BY <1>2, <1>3 DEF Offer
<1>4. CASE Writer
  BY <1>1, <1>4
  DEF Writer, Take, WriteOk, WriteFail, Expect, PushBack, Goto, TypeEdge, Goroutines, Connecting
<1>5. CASE Reader
  BY <1>1, <1>5
  DEF Reader, ReadResponse, ReadNotify, ReaderPut, ReadNext, ReadFail, Goto, TypeEdge, Goroutines, Connecting
<1>6. ASSUME NEW g \in Goroutines, Lock(g) PROVE OneConnection' /\ OneDials'
  BY <1>6 DEF Lock, Goto, TypeEdge, Connecting, Goroutines
<1>7. ASSUME NEW g \in Goroutines, PingOk(g) PROVE OneConnection' /\ OneDials'
  BY <1>7 DEF PingOk, ReturnTo, Home, Goto, TypeEdge, Connecting, Goroutines
<1>8. ASSUME NEW g \in Goroutines, PingFail(g) PROVE OneConnection' /\ OneDials'
  BY <1>8 DEF PingFail, Goto, TypeEdge, Connecting, Goroutines
<1>9. ASSUME NEW g \in Goroutines, Dial(g) PROVE OneConnection' /\ OneDials'
  BY <1>9 DEF Dial, Goto, TypeEdge, TypeNet, Connecting, Goroutines
<1>10. ASSUME NEW g \in Goroutines, SayHello(g) PROVE OneConnection' /\ OneDials'
  BY <1>10 DEF SayHello, ReturnTo, Home, Goto, TypeEdge, Connecting, Goroutines
<1>11. ASSUME NEW g \in Goroutines, Welcome(g) PROVE OneConnection' /\ OneDials'
  BY <1>11 DEF Welcome, ReturnTo, Home, Goto, TypeEdge, Connecting, Goroutines
<1>12. ASSUME NEW k \in ConnIds, Router(k) \/ RouterError(k) \/ RouterNotify(k) \/ Break(k)
       PROVE  OneConnection' /\ OneDials'
  BY <1>2, <1>12 DEF Router, RouterGreet, RouterHandle, RouterLose, RouterError, RouterNotify, Break
<1>13. CASE UNCHANGED vars
  BY <1>2, <1>13 DEF vars
<1> QED
  BY <1>3, <1>4, <1>5, <1>6, <1>7, <1>8, <1>9, <1>10, <1>11, <1>12, <1>13 DEF Next, TryConnectRouter

(* A goroutine takes a message in hand on the way into the places where it *)
(* has to pass it on, and lets go of it only when it has.                  *)
LEMMA HandsStep == TypeEdge /\ TypeRest /\ Hands /\ [Next]_vars => Hands'
<1> SUFFICES ASSUME TypeEdge, TypeRest, Hands, [Next]_vars PROVE Hands'
  OBVIOUS
<1> USE LinkAssumption DEF Hands
<1>1. CASE UNCHANGED <<pc, hand, written>>
  BY <1>1
<1>2. ASSUME NEW r \in Requests, Offer(r) PROVE Hands'
  BY <1>1, <1>2 DEF Offer
<1>3. CASE Take
  <2>1. Head(chan) # None
    BY <1>3 DEF Take, TypeEdge
  <2> QED
    BY <1>3, <2>1 DEF Take, Goto, TypeEdge, Goroutines
<1>4. CASE WriteOk
  BY <1>4 DEF WriteOk, Goto, TypeEdge, Goroutines, Requests
<1>5. CASE Expect \/ WriteFail \/ PushBack
  BY <1>5 DEF Expect, WriteFail, PushBack, Goto, TypeEdge, Goroutines
<1>6. CASE ReadResponse
  BY <1>6 DEF ReadResponse, Goto, TypeEdge, Goroutines, Requests
<1>7. CASE ReadNotify \/ ReaderPut \/ ReadNext \/ ReadFail
  BY <1>7 DEF ReadNotify, ReaderPut, ReadNext, ReadFail, Goto, TypeEdge, Goroutines
<1>8. ASSUME NEW g \in Goroutines, Lock(g) \/ PingFail(g) \/ Dial(g) PROVE Hands'
  BY <1>8 DEF Lock, PingFail, Dial, Goto, TypeEdge, Goroutines
<1>9. ASSUME NEW g \in Goroutines, PingOk(g) \/ SayHello(g) \/ Welcome(g) PROVE Hands'
  BY <1>9 DEF PingOk, SayHello, Welcome, ReturnTo, Home, Goto, TypeEdge, Goroutines
<1>10. ASSUME NEW k \in ConnIds, Router(k) \/ RouterError(k) \/ RouterNotify(k) \/ Break(k) PROVE Hands'
  BY <1>1, <1>10 DEF Router, RouterGreet, RouterHandle, RouterLose, RouterError, RouterNotify, Break
<1>11. CASE UNCHANGED vars
  BY <1>1, <1>11 DEF vars
<1> QED
  BY <1>2, <1>3, <1>4, <1>5, <1>6, <1>7, <1>8, <1>9, <1>10, <1>11 DEF Next, Writer, Reader, TryConnectRouter

(* What is on the channel after a send on it. *)
LEMMA AppendFacts ==
    ASSUME NEW S, NEW s \in Seq(S), NEW e \in S
    PROVE  /\ Len(s) \in Nat /\ Len(Append(s, e)) = Len(s) + 1
           /\ \A i \in 1 .. Len(s) : Append(s, e)[i] = s[i]
           /\ Append(s, e)[Len(s) + 1] = e
  OBVIOUS

(* What is left on the channel when its first element has been taken. *)
LEMMA TailFacts ==
    ASSUME NEW S, NEW s \in Seq(S), s # <<>>
    PROVE  /\ Len(s) \in Nat \ {0} /\ Head(s) = s[1] /\ Len(Tail(s)) = Len(s) - 1
           /\ \A i \in 1 .. Len(Tail(s)) : i + 1 \in 1 .. Len(s) /\ Tail(s)[i] = s[i + 1]
  OBVIOUS

(* The elements of a channel. *)
LEMMA OnChan ==
    ASSUME NEW S, NEW s \in Seq(S)
    PROVE  \A r : r \in ToSet(s) <=> \E i \in 1 .. Len(s) : s[i] = r
  BY DEF ToSet

(* A send on the channel adds one element to it. *)
LEMMA AppendKeeps ==
    ASSUME NEW S, NEW s \in Seq(S), NEW e \in S
    PROVE  ToSet(Append(s, e)) = ToSet(s) \cup {e}
<1>1. Append(s, e) \in Seq(S)
  OBVIOUS
<1>2. ASSUME NEW r, r \in ToSet(Append(s, e)) PROVE r \in ToSet(s) \/ r = e
  <2>1. PICK i \in 1 .. Len(Append(s, e)) : Append(s, e)[i] = r
    BY <1>1, <1>2, OnChan
  <2>2. (i \in 1 .. Len(s) /\ s[i] = r) \/ r = e
    BY <2>1, AppendFacts
  <2> QED
    BY <2>2, OnChan
<1>3. ASSUME NEW r, r \in ToSet(s) PROVE r \in ToSet(Append(s, e))
  <2>1. PICK i \in 1 .. Len(s) : s[i] = r
    BY <1>3, OnChan
  <2>2. i \in 1 .. Len(Append(s, e)) /\ Append(s, e)[i] = r
    BY <2>1, AppendFacts
  <2> QED
    BY <1>1, <2>2, OnChan
<1>4. e \in ToSet(Append(s, e))
  <2>1. Len(s) + 1 \in 1 .. Len(Append(s, e)) /\ Append(s, e)[Len(s) + 1] = e
    BY AppendFacts
  <2> QED
    BY <1>1, <2>1, OnChan
<1> QED
  BY <1>2, <1>3, <1>4

(* Taking the first element removes no other one. *)
LEMMA TakeKeeps ==
    ASSUME NEW S, NEW s \in Seq(S), s # <<>>
    PROVE  ToSet(s) = ToSet(Tail(s)) \cup {Head(s)}
<1>1. Tail(s) \in Seq(S)
  OBVIOUS
<1>2. ASSUME NEW r, r \in ToSet(s) PROVE r \in ToSet(Tail(s)) \/ r = Head(s)
  <2>1. PICK i \in 1 .. Len(s) : s[i] = r
    BY <1>2, OnChan
  <2>2. CASE i = 1
    BY <2>1, <2>2, TailFacts
  <2>3. CASE i # 1
    <3>1. i - 1 \in 1 .. Len(Tail(s)) /\ Tail(s)[i - 1] = r
      BY <2>1, <2>3, TailFacts
    <3> QED
      BY <1>1, <3>1, OnChan
  <2> QED
    BY <2>2, <2>3
<1>3. ASSUME NEW r, r \in ToSet(Tail(s)) PROVE r \in ToSet(s)
  <2>1. PICK i \in 1 .. Len(Tail(s)) : Tail(s)[i] = r
    BY <1>1, <1>3, OnChan
  <2>2. i + 1 \in 1 .. Len(s) /\ s[i + 1] = r
    BY <2>1, TailFacts
  <2> QED
    BY <2>2, OnChan
<1>4. Head(s) \in ToSet(s)
  <2>1. 1 \in 1 .. Len(s) /\ s[1] = Head(s)
    BY TailFacts
  <2> QED
    BY <2>1, OnChan
<1> QED
  BY <1>2, <1>3, <1>4

(* A request leaves the channel into the writer's hand, and the writer's   *)
(* hand into a connection or back onto the channel.                        *)
LEMMA DroppedStep == TypeEdge /\ TypeRest /\ Hands /\ NothingDropped /\ [Next]_vars => NothingDropped'
<1> SUFFICES ASSUME TypeEdge, TypeRest, Hands, NothingDropped, [Next]_vars PROVE NothingDropped'
  OBVIOUS
<1> USE LinkAssumption
<1> DEFINE Kept(r) == r \in written \/ r \in ToSet(chan) \/ \E g \in Goroutines : hand[g] = r
<1>1. \A r \in offered : r \in Requests /\ Kept(r)
  BY DEF NothingDropped, TypeRest
<1>2. ASSUME UNCHANGED offered, \A r \in Requests : Kept(r) => Kept(r)' PROVE NothingDropped'
  BY <1>1, <1>2 DEF NothingDropped
<1>3. CASE UNCHANGED <<chan, hand, written, offered>>
  BY <1>2, <1>3
<1>4. ASSUME NEW r \in Requests \cup {ReceiveReq}, Put(r) PROVE ToSet(chan') = ToSet(chan) \cup {r}
  BY <1>4, AppendKeeps DEF Put, TypeEdge
<1>5. ASSUME NEW r \in Requests, Offer(r) PROVE NothingDropped'
  BY <1>1, <1>4, <1>5 DEF Offer, NothingDropped
<1>6. CASE Take
  <2>1. ToSet(chan) = ToSet(chan') \cup {Head(chan)}
    BY <1>6, TakeKeeps DEF Take, TypeEdge
  <2>2. hand'["writer"] = Head(chan) /\ hand["writer"] = None /\ hand'["reader"] = hand["reader"]
    BY <1>6 DEF Take, Hands, TypeEdge, Goroutines
  <2>3. UNCHANGED <<written, offered>>
    BY <1>6 DEF Take
  <2> QED
    BY <1>2, <2>1, <2>2, <2>3 DEF Goroutines
<1>7. CASE WriteOk
  <2>1. written' = written \cup ({hand["writer"]} \cap Requests) /\ UNCHANGED <<chan, offered>>
    BY <1>7 DEF WriteOk
  <2>2. hand'["reader"] = hand["reader"]
    BY <1>7 DEF WriteOk, TypeEdge, Goroutines
  <2> QED
    BY <1>2, <2>1, <2>2 DEF Goroutines
<1>8. CASE Expect
  <2>1. hand["writer"] \in written /\ hand'["reader"] = hand["reader"] /\ UNCHANGED <<chan, written, offered>>
    BY <1>8 DEF Expect, Hands, TypeEdge, Goroutines
  <2> QED
    BY <1>2, <2>1 DEF Goroutines
<1>9. CASE WriteFail \/ ReadNext \/ ReadFail
  BY <1>3, <1>9 DEF WriteFail, ReadNext, ReadFail
<1>10. CASE PushBack
  <2>1. hand["writer"] \in Requests \cup {ReceiveReq}
    BY <1>10 DEF PushBack, Hands, TypeEdge, Goroutines
  <2>2. ToSet(chan') = ToSet(chan) \cup {hand["writer"]}
    BY <1>4, <1>10, <2>1 DEF PushBack
  <2>3. hand'["reader"] = hand["reader"] /\ UNCHANGED <<written, offered>>
    BY <1>10 DEF PushBack, TypeEdge, Goroutines
  <2> QED
    BY <1>2, <2>2, <2>3 DEF Goroutines
<1>11. CASE ReaderPut
  <2>1. hand["reader"] \in Requests \cup {ReceiveReq}
    BY <1>11 DEF ReaderPut, Hands, TypeEdge, Goroutines
  <2>2. ToSet(chan') = ToSet(chan) \cup {hand["reader"]}
    BY <1>4, <1>11, <2>1 DEF ReaderPut
  <2>3. hand'["writer"] = hand["writer"] /\ UNCHANGED <<written, offered>>
    BY <1>11 DEF ReaderPut, TypeEdge, Goroutines
  <2> QED
    BY <1>2, <2>2, <2>3 DEF Goroutines
<1>12. CASE ReadResponse \/ ReadNotify
  <2>1. /\ hand["reader"] = None /\ hand'["writer"] = hand["writer"]
        /\ UNCHANGED <<chan, written, offered>>
    BY <1>12 DEF ReadResponse, ReadNotify, Hands, TypeEdge, Goroutines
  <2> QED
    BY <1>2, <2>1 DEF Goroutines
<1>13. ASSUME NEW g \in Goroutines, TryConnectRouter(g) PROVE NothingDropped'
  BY <1>3, <1>13 DEF TryConnectRouter, Lock, PingOk, PingFail, Dial, SayHello, Welcome
<1>14. ASSUME NEW k \in ConnIds, Router(k) \/ RouterError(k) \/ RouterNotify(k) \/ Break(k) PROVE NothingDropped'
  BY <1>3, <1>14 DEF Router, RouterGreet, RouterHandle, RouterLose, RouterError, RouterNotify, Break
<1>15. CASE UNCHANGED vars
  BY <1>3, <1>15 DEF vars
<1> QED
  BY <1>5, <1>6, <1>7, <1>8, <1>9, <1>10, <1>11, <1>12, <1>13, <1>14, <1>15 DEF Next, Writer, Reader

(* A bad response comes from RouterError alone, and only a bad response or *)
(* a Notify makes the reader put something on the channel.                 *)
LEMMA SmoothReaderStep ==
    TypeEdge /\ TypeNet /\ TypeRest /\ SmoothReader /\ [Next]_vars => SmoothReader'
<1> SUFFICES ASSUME TypeEdge, TypeNet, TypeRest, SmoothReader, [Next]_vars, smooth' = TRUE
             PROVE  SmoothReader'
  BY DEF SmoothReader, TypeRest, Next, vars, Offer, Writer, Take, WriteOk, WriteFail, Expect, PushBack,
         Reader, ReadResponse, ReadNotify, ReaderPut, ReadNext, ReadFail, TryConnectRouter, Lock, PingOk,
         PingFail, Dial, SayHello, Welcome, Router, RouterGreet, RouterHandle, RouterLose, RouterError,
         RouterNotify, Break
<1> USE LinkAssumption
<1> DEFINE Fine(s) == \A i \in 1 .. Len(s) : s[i] = Notify \/ s[i].good
           AllFine == \A k \in ConnIds : Fine(down[k])
           Puts == pc["reader"] = "put" => hand["reader"] = ReceiveReq
<1>1. ASSUME smooth PROVE AllFine /\ Puts
  BY <1>1 DEF SmoothReader
<1>2. ASSUME AllFine', Puts' PROVE SmoothReader'
  BY <1>2 DEF SmoothReader
<1>3. ASSUME NEW k \in ConnIds, NEW m \in Response \cup {Notify}, m = Notify \/ m.good, smooth,
             down' = [down EXCEPT ![k] = Append(@, m)]
      PROVE  AllFine'
  <2>1. down[k] \in Seq(Response \cup {Notify}) /\ Fine(down[k])
    BY <1>1, <1>3 DEF TypeNet
  <2>2. Fine(Append(down[k], m))
    BY <1>3, <2>1, AppendFacts
  <2>3. \A j \in ConnIds : down'[j] = IF j = k THEN Append(down[k], m) ELSE down[j]
    BY <1>3 DEF TypeNet
  <2> QED
    BY <1>1, <1>3, <2>2, <2>3
<1>4. ASSUME NEW k \in ConnIds, smooth, down[k] # <<>>, down' = [down EXCEPT ![k] = Tail(@)]
      PROVE  AllFine' /\ (Head(down[k]) = Notify \/ Head(down[k]).good)
  <2>1. down[k] \in Seq(Response \cup {Notify}) /\ Fine(down[k])
    BY <1>1, <1>4 DEF TypeNet
  <2>2. Fine(Tail(down[k])) /\ (Head(down[k]) = Notify \/ Head(down[k]).good)
    BY <1>4, <2>1, TailFacts
  <2>3. \A j \in ConnIds : down'[j] = IF j = k THEN Tail(down[k]) ELSE down[j]
    BY <1>4 DEF TypeNet
  <2> QED
    BY <1>1, <1>4, <2>2, <2>3
<1>5. ASSUME NEW k \in ConnIds, NEW r \in Requests \cup {Hello, ReceiveReq}, smooth, Answer(k, r, TRUE)
      PROVE  AllFine'
  <2> DEFINE m == [to |-> r, good |-> TRUE]
  <2>1. m \in Response /\ m.good
    BY DEF Response
  <2>2. down' = [down EXCEPT ![k] = Append(@, m)]
    BY <1>5 DEF Answer
  <2> HIDE DEF m
  <2> QED
    BY <1>3, <1>5, <2>1, <2>2
<1>6. CASE UNCHANGED <<down, pc, hand, smooth>>
  BY <1>6 DEF SmoothReader
<1> HIDE DEF AllFine
<1>7. ASSUME NEW r \in Requests, Offer(r) PROVE SmoothReader'
  BY <1>6, <1>7 DEF Offer
<1>8. ASSUME UNCHANGED <<down, smooth>>, Puts => Puts' PROVE SmoothReader'
  BY <1>1, <1>2, <1>8 DEF AllFine
<1>9. CASE Take \/ WriteOk \/ WriteFail \/ Expect \/ PushBack
  BY <1>8, <1>9 DEF Take, WriteOk, WriteFail, Expect, PushBack, Goto, TypeEdge, Goroutines
<1>10. CASE ReaderPut \/ ReadNext \/ ReadFail
  BY <1>8, <1>10 DEF ReaderPut, ReadNext, ReadFail, Goto, TypeEdge, Goroutines
<1>11. CASE ReadResponse
  <2>1. smooth /\ readWs \in ConnIds /\ down[readWs] # <<>> /\ down' = [down EXCEPT ![readWs] = Tail(@)]
    BY <1>11 DEF ReadResponse, TypeNet
  <2>2. AllFine' /\ Head(down[readWs]).good
    BY <1>4, <1>11, <2>1 DEF ReadResponse
  <2>3. pc'["reader"] = "busy"
    BY <1>11, <2>2 DEF ReadResponse, Goto, TypeEdge, Goroutines
  <2> QED
    BY <1>2, <2>2, <2>3
<1>12. CASE ReadNotify
  <2>1. smooth /\ readWs \in ConnIds /\ down[readWs] # <<>> /\ down' = [down EXCEPT ![readWs] = Tail(@)]
    BY <1>12 DEF ReadNotify, TypeNet
  <2>2. AllFine'
    BY <1>4, <2>1
  <2>3. hand'["reader"] = ReceiveReq
    BY <1>12 DEF ReadNotify, TypeEdge, Goroutines
  <2> QED
    BY <1>2, <2>2, <2>3
<1>13. ASSUME NEW g \in Goroutines, Lock(g) \/ PingOk(g) \/ PingFail(g) \/ Dial(g) \/ SayHello(g)
       PROVE  SmoothReader'
  BY <1>8, <1>13 DEF Lock, PingOk, PingFail, Dial, SayHello, ReturnTo, Home, Goto, TypeEdge, Goroutines
<1>14. ASSUME NEW g \in Goroutines, Welcome(g) PROVE SmoothReader'
  <2>1. Puts => Puts'
    BY <1>14 DEF Welcome, ReturnTo, Home, Goto, TypeEdge, Goroutines
  <2>2. CASE UNCHANGED down
    BY <1>8, <1>14, <2>1, <2>2 DEF Welcome
  <2>3. CASE ws \in alive /\ down[ws] # <<>> /\ down' = [down EXCEPT ![ws] = Tail(@)]
    <3>1. ws \in ConnIds /\ smooth
      BY <1>14, <2>3 DEF TypeNet, Welcome
    <3> QED
      BY <1>1, <1>2, <1>4, <2>1, <2>3, <3>1
  <2> QED
    BY <1>14, <2>2, <2>3 DEF Welcome
<1>15. ASSUME NEW k \in ConnIds, Router(k) PROVE SmoothReader'
  <2>1. up[k] # <<>> /\ up[k] \in Seq(Requests \cup {Hello, ReceiveReq})
    BY <1>15 DEF Router, RouterGreet, RouterHandle, RouterLose, TypeNet
  <2>2. Head(up[k]) \in Requests \cup {Hello, ReceiveReq}
    BY <2>1
  <2>3. UNCHANGED <<pc, hand, smooth>> /\ (UNCHANGED down \/ Answer(k, Head(up[k]), TRUE))
    BY <1>15 DEF Router, RouterGreet, RouterHandle, RouterLose
  <2>4. CASE UNCHANGED down
    BY <1>6, <2>3, <2>4
  <2>5. CASE Answer(k, Head(up[k]), TRUE)
    <3>1. smooth
      BY <2>3
    <3>2. AllFine'
      BY <1>5, <2>2, <2>5, <3>1
    <3>3. Puts'
      BY <1>1, <2>3, <3>1
    <3> QED
      BY <1>2, <3>2, <3>3
  <2> QED
    BY <2>3, <2>4, <2>5
<1>16. ASSUME NEW k \in ConnIds, RouterError(k) PROVE SmoothReader'
  BY <1>16 DEF RouterError
<1>17. ASSUME NEW k \in ConnIds, RouterNotify(k) PROVE SmoothReader'
  <2>1. smooth /\ down' = [down EXCEPT ![k] = Append(@, Notify)] /\ UNCHANGED <<pc, hand, smooth>>
    BY <1>17 DEF RouterNotify
  <2> QED
    BY <1>1, <1>2, <1>3, <2>1
<1>18. ASSUME NEW k \in ConnIds, Break(k) PROVE SmoothReader'
  BY <1>6, <1>18 DEF Break
<1>19. CASE UNCHANGED vars
  BY <1>6, <1>19 DEF vars
<1> QED
  BY <1>7, <1>9, <1>10, <1>11, <1>12, <1>13, <1>14, <1>15, <1>16, <1>17, <1>18, <1>19
  DEF Next, Writer, Reader, TryConnectRouter

(* Only the connection that routerWs is, the last one dialled, is written  *)
(* to; the Router can only shorten what is on its way to it.               *)
LEMMA UnusedStep ==
    TypeEdge /\ TypeNet /\ OneConnection /\ OneDials /\ UnusedAreEmpty /\ [Next]_vars => UnusedAreEmpty'
<1> SUFFICES ASSUME TypeEdge, TypeNet, OneConnection, OneDials, UnusedAreEmpty, [Next]_vars
             PROVE  UnusedAreEmpty'
  OBVIOUS
<1> USE DEF UnusedAreEmpty
<1>1. CASE UNCHANGED <<up, dialled>>
  BY <1>1
<1>2. ASSUME NEW e, up' = [up EXCEPT ![ws] = e], UNCHANGED dialled PROVE UnusedAreEmpty'
  BY <1>2 DEF OneDials, TypeNet, TypeEdge, ConnIds
<1>3. ASSUME NEW r \in Requests, Offer(r) PROVE UnusedAreEmpty'
  BY <1>1, <1>3 DEF Offer
<1>4. CASE Writer
  BY <1>1, <1>2, <1>4 DEF Writer, Take, WriteOk, WriteFail, Expect, PushBack
<1>5. CASE Reader
  BY <1>1, <1>5 DEF Reader, ReadResponse, ReadNotify, ReaderPut, ReadNext, ReadFail
<1>6. ASSUME NEW g \in Goroutines, Lock(g) \/ PingOk(g) \/ PingFail(g) \/ SayHello(g) \/ Welcome(g)
      PROVE  UnusedAreEmpty'
  BY <1>1, <1>2, <1>6 DEF Lock, PingOk, PingFail, SayHello, Welcome
<1>7. ASSUME NEW g \in Goroutines, Dial(g) PROVE UnusedAreEmpty'
  BY <1>7 DEF Dial, TypeNet, ConnIds
<1>8. ASSUME NEW k \in ConnIds, Router(k) \/ RouterError(k) PROVE UnusedAreEmpty'
  <2>1. up[k] # <<>> /\ UNCHANGED dialled /\ \E e : up' = [up EXCEPT ![k] = e]
    BY <1>8 DEF Router, RouterGreet, RouterHandle, RouterLose, RouterError
  <2> QED
    BY <2>1 DEF TypeNet
<1>9. ASSUME NEW k \in ConnIds, RouterNotify(k) \/ Break(k) PROVE UnusedAreEmpty'
  BY <1>1, <1>9 DEF RouterNotify, Break
<1>10. CASE UNCHANGED vars
  BY <1>1, <1>10 DEF vars
<1> QED
  BY <1>3, <1>4, <1>5, <1>6, <1>7, <1>8, <1>9, <1>10 DEF Next, TryConnectRouter

-----------------------------------------------------------------------------
(* What a send does to the last message about a topic. *)
LEMMA LastAfterAppend ==
    ASSUME NEW S, NEW s \in Seq(S), NEW e \in S, NEW t
    PROVE  /\ About(e, t) => LastIs(Append(s, e), t, e)
           /\ ~About(e, t) /\ Free(s, t) => Free(Append(s, e), t)
           /\ \A r : ~About(e, t) /\ LastIs(s, t, r) => LastIs(Append(s, e), t, r)
<1>1. ASSUME About(e, t) PROVE LastIs(Append(s, e), t, e)
  <2>1. Len(s) + 1 \in 1 .. Len(Append(s, e)) /\ Append(s, e)[Len(s) + 1] = e
    BY AppendFacts
  <2>2. \A j \in (Len(s) + 1 + 1) .. Len(Append(s, e)) : FALSE
    BY AppendFacts
  <2> QED
    BY <1>1, <2>1, <2>2 DEF LastIs
<1>2. ASSUME ~About(e, t), Free(s, t) PROVE Free(Append(s, e), t)
  BY <1>2, AppendFacts DEF Free
<1>3. ASSUME NEW r, ~About(e, t), LastIs(s, t, r) PROVE LastIs(Append(s, e), t, r)
  <2>1. PICK i \in 1 .. Len(s) : /\ s[i] = r /\ About(r, t)
                                 /\ \A j \in (i + 1) .. Len(s) : ~About(s[j], t)
    BY <1>3 DEF LastIs
  <2>2. i \in 1 .. Len(Append(s, e)) /\ Append(s, e)[i] = r
    BY <2>1, AppendFacts
  <2>3. ASSUME NEW j \in (i + 1) .. Len(Append(s, e)) PROVE ~About(Append(s, e)[j], t)
    <3>1. CASE j = Len(s) + 1
      BY <1>3, <3>1, AppendFacts
    <3>2. CASE j # Len(s) + 1
      <4>1. j \in (i + 1) .. Len(s) /\ j \in 1 .. Len(s)
        BY <3>2, AppendFacts
      <4> QED
        BY <2>1, <4>1, AppendFacts
    <3> QED
      BY <3>1, <3>2
  <2> QED
    BY <2>1, <2>2, <2>3 DEF LastIs
<1> QED
  BY <1>1, <1>2, <1>3

(* What a receive does to it. *)
LEMMA LastAfterTail ==
    ASSUME NEW S, NEW s \in Seq(S), s # <<>>, NEW t
    PROVE  /\ Free(s, t) => Free(Tail(s), t) /\ ~About(Head(s), t)
           /\ \A r : LastIs(s, t, r) =>
                \/ LastIs(Tail(s), t, r)
                \/ Free(Tail(s), t) /\ Head(s) = r /\ About(r, t)
<1>1. ASSUME Free(s, t) PROVE Free(Tail(s), t) /\ ~About(Head(s), t)
  BY <1>1, TailFacts DEF Free
<1>2. ASSUME NEW r, LastIs(s, t, r)
      PROVE  LastIs(Tail(s), t, r) \/ (Free(Tail(s), t) /\ Head(s) = r /\ About(r, t))
  <2>1. PICK i \in 1 .. Len(s) : /\ s[i] = r /\ About(r, t)
                                 /\ \A j \in (i + 1) .. Len(s) : ~About(s[j], t)
    BY <1>2 DEF LastIs
  <2>2. ASSUME NEW j \in 1 .. Len(Tail(s)), j >= i PROVE ~About(Tail(s)[j], t)
    <3>1. j + 1 \in (i + 1) .. Len(s) /\ Tail(s)[j] = s[j + 1]
      BY <2>2, TailFacts
    <3> QED
      BY <2>1, <3>1
  <2>3. CASE i = 1
    <3>1. \A j \in 1 .. Len(Tail(s)) : j >= i
      BY <2>3, TailFacts
    <3> QED
      BY <2>1, <2>2, <2>3, <3>1, TailFacts DEF Free
  <2>4. CASE i # 1
    <3>1. i - 1 \in 1 .. Len(Tail(s)) /\ Tail(s)[i - 1] = r
      BY <2>1, <2>4, TailFacts
    <3>2. \A j \in (i - 1 + 1) .. Len(Tail(s)) : j \in 1 .. Len(Tail(s)) /\ j >= i
      BY <2>1, <2>4, TailFacts
    <3> QED
      BY <2>1, <2>2, <3>1, <3>2 DEF LastIs
  <2> QED
    BY <2>3, <2>4
<1> QED
  BY <1>1, <1>2

(* A request about the topic that is put on the channel is the latest. *)
LEMMA WayOffer ==
    ASSUME NEW S, NEW c \in Seq(S), NEW e \in S, NEW h, NEW u, NEW s, NEW t, About(e, t)
    PROVE  OnItsWay(Append(c, e), h, u, s, e, t)
  BY LastAfterAppend DEF OnItsWay

(* Any other message that is put there changes nothing. *)
LEMMA WayPut ==
    ASSUME NEW S, NEW c \in Seq(S), NEW e \in S, NEW h, NEW u, NEW s, NEW l, NEW t,
           ~About(e, t), OnItsWay(c, h, u, s, l, t)
    PROVE  OnItsWay(Append(c, e), h, u, s, l, t)
  BY LastAfterAppend DEF OnItsWay

(* The writer takes the next message in its empty hand. *)
LEMMA WayTake ==
    ASSUME NEW S, NEW c \in Seq(S), c # <<>>, NEW u, NEW s, NEW l, NEW t,
           OnItsWay(c, None, u, s, l, t)
    PROVE  OnItsWay(Tail(c), Head(c), u, s, l, t)
<1>1. ~About(None, t)
  BY LinkAssumption DEF About, Requests
<1> QED
  BY <1>1, LastAfterTail DEF OnItsWay

(* The writer writes what it has in hand. *)
LEMMA WayWrite ==
    ASSUME NEW S, NEW u \in Seq(S), NEW h \in S, NEW c, NEW s, NEW l, NEW t,
           OnItsWay(c, h, u, s, l, t)
    PROVE  OnItsWay(c, None, Append(u, h), s, l, t)
<1>1. ~About(None, t)
  BY LinkAssumption DEF About, Requests
<1> QED
  BY <1>1, LastAfterAppend DEF OnItsWay

(* Something else is written to the connection. *)
LEMMA WaySay ==
    ASSUME NEW S, NEW u \in Seq(S), NEW e \in S, NEW h, NEW c, NEW s, NEW l, NEW t,
           ~About(e, t), OnItsWay(c, h, u, s, l, t)
    PROVE  OnItsWay(c, h, Append(u, e), s, l, t)
  BY LastAfterAppend DEF OnItsWay

(* The Router acts on the next message of the connection. *)
LEMMA WayHandle ==
    ASSUME NEW S, NEW u \in Seq(S), u # <<>>, NEW h, NEW c, NEW s, NEW sn, NEW l, NEW t,
           OnItsWay(c, h, u, s, l, t),
           sn = IF About(Head(u), t) THEN (IF Head(u) \in Subscribes THEN 1 ELSE 0) ELSE s
    PROVE  OnItsWay(c, h, Tail(u), sn, l, t)
  BY LastAfterTail DEF OnItsWay

(* Every step that leaves the first connection in place moves the latest   *)
(* request about a topic on along its way, or leaves it where it is.       *)
LEMMA InOrderStep ==
    /\ TypeEdge /\ TypeNet /\ TypeRest /\ OneConnection /\ OneDials /\ Hands /\ SmoothReader
    /\ UnusedAreEmpty /\ InOrder /\ [Next]_vars
    => InOrder'
<1> SUFFICES ASSUME TypeEdge, TypeNet, TypeRest, OneConnection, OneDials, Hands, SmoothReader,
                    UnusedAreEmpty, InOrder, [Next]_vars, FirstLink', NEW t \in Topics
             PROVE  OnItsWay(chan', Held', up'[1], subscriber'[t], latest'[t], t)
  BY DEF InOrder
<1> DEFINE Goal == OnItsWay(chan', Held', up'[1], subscriber'[t], latest'[t], t)
           S == Requests \cup {Hello, ReceiveReq}
<1>1. 1 \in ConnIds /\ chan \in Seq(S) /\ up[1] \in Seq(S)
  <2>1. 1 \in ConnIds
    BY LinkAssumption DEF ConnIds
  <2>2. up[1] \in Seq(S)
    BY <2>1 DEF TypeNet
  <2>3. chan \in Seq(S)
    BY DEF TypeEdge
  <2> QED
    BY <2>1, <2>2, <2>3
<1>2. ASSUME UNCHANGED <<dialled, smooth>>, alive' \subseteq alive
      PROVE  /\ OnItsWay(chan, Held, up[1], subscriber[t], latest[t], t)
             /\ \A k \in ConnIds : up[k] # <<>> => k = 1 /\ 1 \in alive'
             /\ ws \in alive => ws = 1
  <2>1. FirstLink
    BY <1>2 DEF FirstLink
  <2>2. \A k \in ConnIds : up[k] # <<>> => k = 1 /\ 1 \in alive'
    BY <1>2 DEF FirstLink, UnusedAreEmpty, ConnIds, TypeNet
  <2>3. ws \in alive => ws = 1
    BY <2>1 DEF FirstLink, OneDials, TypeNet, ConnIds
  <2> QED
    BY <2>1, <2>2, <2>3 DEF InOrder
<1>3. ASSUME UNCHANGED <<dialled, smooth, chan, subscriber, latest, Held>>, alive' \subseteq alive, up'[1] = up[1]
      PROVE  Goal
  BY <1>2, <1>3
<1>4. ASSUME NEW g \in Goroutines, NEW place, place \notin {"write", "pushBack"},
             pc[g] \notin {"write", "pushBack"}, Goto(g, place), UNCHANGED hand
      PROVE  UNCHANGED Held
  BY <1>4 DEF Held, Goto, TypeEdge, Goroutines
<1>5. \A r : r \notin Subscribes \cup Unsubscribes => ~About(r, t)
  BY DEF About
<1>6. /\ Hello \notin Subscribes \cup Unsubscribes /\ ReceiveReq \notin Subscribes \cup Unsubscribes
      /\ Notify \notin Subscribes \cup Unsubscribes /\ None \notin Subscribes \cup Unsubscribes
  BY LinkAssumption DEF Requests
<1> HIDE DEF S
<1>7. ASSUME NEW r \in Requests, Offer(r) PROVE Goal
  <2>1. chan' = Append(chan, r) /\ UNCHANGED <<dialled, smooth, subscriber, up, pc, hand, alive>> /\ r \in S
    BY <1>7 DEF Offer, Put, S
  <2>2. UNCHANGED Held
    BY <2>1 DEF Held
  <2>3. CASE About(r, t)
    <3>1. latest'[t] = r
      BY <1>7, <2>3 DEF Offer, About
    <3> QED
      BY <1>1, <2>1, <2>3, <3>1, WayOffer
  <2>4. CASE ~About(r, t)
    <3>1. latest'[t] = latest[t]
      BY <1>7, <2>4 DEF Offer, About
    <3>2. OnItsWay(chan, Held, up[1], subscriber[t], latest[t], t)
      BY <1>2, <2>1
    <3>3. OnItsWay(Append(chan, r), Held, up[1], subscriber[t], latest[t], t)
      BY <1>1, <2>1, <2>4, <3>2, WayPut
    <3> QED
      BY <2>1, <2>2, <3>1, <3>3
  <2> QED
    BY <2>3, <2>4
<1>8. CASE Take
  <2>1. /\ chan # <<>> /\ chan' = Tail(chan) /\ UNCHANGED <<dialled, smooth, subscriber, latest, up, alive>>
        /\ Held = None /\ Held' = Head(chan)
    BY <1>8 DEF Take, Held, Goto, TypeEdge, Goroutines
  <2>2. OnItsWay(chan, None, up[1], subscriber[t], latest[t], t)
    BY <1>2, <2>1
  <2>3. OnItsWay(Tail(chan), Head(chan), up[1], subscriber[t], latest[t], t)
    BY <1>1, <2>1, <2>2, WayTake
  <2> QED
    BY <2>1, <2>3
<1>9. CASE WriteOk
  <2> DEFINE h == hand["writer"]
  <2>1. /\ UNCHANGED <<chan, dialled, smooth, subscriber, latest, alive>>
        /\ Held = h /\ Held' = None /\ h \in S /\ ws \in alive
    BY <1>9 DEF WriteOk, Held, Goto, TypeEdge, Goroutines, Requests, S
  <2>2. OnItsWay(chan, Held, up[1], subscriber[t], latest[t], t) /\ ws = 1
    BY <1>2, <2>1
  <2>3. up'[1] = Append(up[1], h)
    BY <1>1, <1>9, <2>2 DEF WriteOk, TypeNet
  <2>4. OnItsWay(chan, None, Append(up[1], h), subscriber[t], latest[t], t)
    BY <1>1, <2>1, <2>2, WayWrite
  <2> QED
    BY <2>1, <2>3, <2>4
<1>10. CASE WriteFail
  <2>1. UNCHANGED Held
    BY <1>10 DEF WriteFail, Held, Goto, TypeEdge, Goroutines
  <2> QED
    BY <1>3, <1>10, <2>1 DEF WriteFail
<1>11. CASE Expect
  <2>1. UNCHANGED Held
    BY <1>11 DEF Expect, Held, Goto, TypeEdge, Goroutines
  <2> QED
    BY <1>3, <1>11, <2>1 DEF Expect
<1>12. CASE PushBack
  BY <1>12 DEF PushBack, FirstLink
<1>13. CASE ReaderPut
  <2>1. /\ UNCHANGED <<dialled, smooth, subscriber, latest, up, alive>> /\ chan' = Append(chan, hand["reader"])
        /\ UNCHANGED Held
    BY <1>13 DEF ReaderPut, Put, Held, Goto, TypeEdge, Goroutines
  <2>2. hand["reader"] = ReceiveReq /\ ReceiveReq \in S
    BY <1>13, <2>1 DEF ReaderPut, SmoothReader, FirstLink, S
  <2>3. OnItsWay(chan, Held, up[1], subscriber[t], latest[t], t)
    BY <1>2, <2>1
  <2>4. OnItsWay(Append(chan, ReceiveReq), Held, up[1], subscriber[t], latest[t], t)
    BY <1>1, <1>5, <1>6, <2>2, <2>3, WayPut
  <2> QED
    BY <2>1, <2>2, <2>4
<1>14. CASE ReadResponse \/ ReadNotify \/ ReadNext \/ ReadFail
  <2>1. UNCHANGED Held
    BY <1>14 DEF ReadResponse, ReadNotify, ReadNext, ReadFail, Held, Goto, TypeEdge, Goroutines
  <2> QED
    BY <1>3, <1>14, <2>1 DEF ReadResponse, ReadNotify, ReadNext, ReadFail
<1>15. ASSUME NEW g \in Goroutines, Lock(g) \/ PingOk(g) \/ PingFail(g) \/ Welcome(g) PROVE Goal
  <2>1. UNCHANGED Held
    BY <1>4, <1>15 DEF Lock, PingOk, PingFail, Welcome, ReturnTo, Home
  <2> QED
    BY <1>3, <1>15, <2>1 DEF Lock, PingOk, PingFail, Welcome
<1>16. ASSUME NEW g \in Goroutines, Dial(g) PROVE Goal
  <2>1. UNCHANGED Held
    BY <1>4, <1>16 DEF Dial
  <2>2. UNCHANGED <<chan, subscriber, latest, up, smooth>> /\ dialled' = dialled + 1
    BY <1>16 DEF Dial
  <2>3. FirstLink
    BY <2>2 DEF FirstLink, TypeNet
  <2> QED
    BY <2>1, <2>2, <2>3 DEF InOrder
<1>17. ASSUME NEW g \in Goroutines, SayHello(g) PROVE Goal
  <2>1. UNCHANGED Held /\ UNCHANGED <<chan, subscriber, latest, dialled, smooth, alive>>
    BY <1>4, <1>17 DEF SayHello, ReturnTo, Home
  <2>2. CASE UNCHANGED up
    BY <1>3, <2>1, <2>2
  <2>3. CASE ws \in alive /\ up' = [up EXCEPT ![ws] = Append(@, Hello)]
    <3>1. OnItsWay(chan, Held, up[1], subscriber[t], latest[t], t) /\ ws = 1
      BY <1>2, <2>1, <2>3
    <3>2. up'[1] = Append(up[1], Hello)
      BY <1>1, <2>3, <3>1 DEF TypeNet
    <3>3. Hello \in S
      BY DEF S
    <3>4. OnItsWay(chan, Held, Append(up[1], Hello), subscriber[t], latest[t], t)
      BY <1>1, <1>5, <1>6, <3>1, <3>3, WaySay
    <3> QED
      BY <2>1, <3>2, <3>4
  <2> QED
    BY <1>17, <2>2, <2>3 DEF SayHello
<1>18. ASSUME NEW k \in ConnIds, up[k] # <<>>, up' = [up EXCEPT ![k] = Tail(@)],
              UNCHANGED <<edge, dialled, smooth, latest>>, alive' \subseteq alive,
              subscriber'[t] = IF About(Head(up[1]), t) THEN (IF Head(up[1]) \in Subscribes THEN 1 ELSE 0)
                                                        ELSE subscriber[t]
       PROVE  Goal
  <2>1. UNCHANGED Held
    BY <1>18 DEF Held
  <2>2. OnItsWay(chan, Held, up[1], subscriber[t], latest[t], t) /\ k = 1
    BY <1>2, <1>18
  <2>3. up'[1] = Tail(up[1])
    BY <1>1, <1>18, <2>2 DEF TypeNet
  <2>4. OnItsWay(chan, Held, Tail(up[1]), subscriber'[t], latest[t], t)
    BY <1>1, <1>18, <2>2, WayHandle
  <2> QED
    BY <1>18, <2>1, <2>3, <2>4
<1>19. ASSUME NEW k \in ConnIds, RouterGreet(k) PROVE Goal
  <2>1. k = 1 /\ 1 \in alive'
    BY <1>2, <1>19 DEF RouterGreet
  <2>2. Head(up[1]) = Hello /\ up' = [up EXCEPT ![k] = Tail(@)]
    BY <1>19, <2>1 DEF RouterGreet
  <2>3. ~About(Head(up[1]), t)
    BY <1>5, <1>6, <2>2
  <2> QED
    BY <1>18, <1>19, <2>2, <2>3 DEF RouterGreet
<1>20. ASSUME NEW k \in ConnIds, RouterHandle(k) PROVE Goal
  <2>1. up[k] # <<>> /\ up' = [up EXCEPT ![k] = Tail(@)] /\ UNCHANGED <<edge, dialled, smooth, latest, alive>>
    BY <1>20 DEF RouterHandle
  <2>2. k = 1
    BY <1>2, <2>1
  <2>3. subscriber'[t] = IF About(Head(up[1]), t) THEN (IF Head(up[1]) \in Subscribes THEN 1 ELSE 0)
                                                  ELSE subscriber[t]
    <3> DEFINE r == Head(up[1])
    <3>1. CASE r \in Subscribes
      <4>1. subscriber' = [subscriber EXCEPT ![Topic[r]] = 1] /\ r \notin Unsubscribes
        BY <1>20, <2>2, <3>1, LinkAssumption DEF RouterHandle
      <4> QED
        BY <3>1, <4>1, LinkAssumption DEF TypeRest, About
    <3>2. CASE r \in Unsubscribes
      <4>1. subscriber' = [subscriber EXCEPT ![Topic[r]] = 0] /\ r \notin Subscribes
        BY <1>20, <2>2, <3>2, LinkAssumption DEF RouterHandle
      <4> QED
        BY <3>2, <4>1, LinkAssumption DEF TypeRest, About
    <3>3. CASE r \notin Subscribes \cup Unsubscribes
      BY <1>20, <2>2, <3>3 DEF RouterHandle, About
    <3> QED
      BY <3>1, <3>2, <3>3
  <2> QED
    BY <1>18, <2>1, <2>3
<1>21. ASSUME NEW k \in ConnIds, RouterLose(k) PROVE Goal
  BY <1>2, <1>21 DEF RouterLose
<1>22. ASSUME NEW k \in ConnIds, RouterError(k) PROVE Goal
  BY <1>22 DEF RouterError, FirstLink
<1>23. ASSUME NEW k \in ConnIds, RouterNotify(k) \/ Break(k) PROVE Goal
  <2>1. UNCHANGED Held
    BY <1>23 DEF RouterNotify, Break, Held
  <2> QED
    BY <1>3, <1>23, <2>1 DEF RouterNotify, Break
<1>24. CASE UNCHANGED vars
  <2>1. UNCHANGED Held
    BY <1>24 DEF vars, Held
  <2> QED
    BY <1>3, <1>24, <2>1 DEF vars
<1> QED
  BY <1>7, <1>8, <1>9, <1>10, <1>11, <1>12, <1>13, <1>14, <1>15, <1>16, <1>17, <1>19, <1>20, <1>21, <1>22,
     <1>23, <1>24
  DEF Next, Writer, Reader, TryConnectRouter, Router

-----------------------------------------------------------------------------
(* The Edge Router starts without a Router or freshly connected to one,    *)
(* and nothing is on its way.                                              *)
LEMMA InitIInv == Init => IInv
<1> SUFFICES ASSUME Init PROVE IInv
  OBVIOUS
<1> USE LinkAssumption DEF Init
<1>1. TypeEdge
  BY DEF TypeEdge, Goroutines, Home, Places
<1>2. TypeNet
  <2>1. up \in [ConnIds -> Seq(Requests \cup {Hello, ReceiveReq})]
    OBVIOUS
  <2>2. down \in [ConnIds -> Seq(Response \cup {Notify})]
    OBVIOUS
  <2>3. alive \subseteq ConnIds /\ dialled \in 0 .. MaxConns
    BY DEF ConnIds
  <2> QED
    BY <2>1, <2>2, <2>3 DEF TypeNet
<1>3. TypeRest
  <2>1. greeted \subseteq ConnIds /\ faults \in 0 .. MaxFaults
    BY DEF ConnIds
  <2>2. subscriber \in [Topics -> 0 .. MaxConns]
    OBVIOUS
  <2>3. latest \in [Topics -> Subscribes \cup Unsubscribes \cup {None}]
    OBVIOUS
  <2> QED
    BY <2>1, <2>2, <2>3 DEF TypeRest
<1>4. OneConnection /\ OneDials
  BY DEF OneConnection, OneDials, Connecting, Goroutines, Home
<1>5. Hands /\ NothingDropped
  BY DEF Hands, NothingDropped, Goroutines, Home
<1>6. SmoothReader /\ UnusedAreEmpty
  BY DEF SmoothReader, UnusedAreEmpty, Goroutines, Home
<1>7. InOrder
  <2> SUFFICES ASSUME NEW t \in Topics
               PROVE  OnItsWay(chan, Held, up[1], subscriber[t], latest[t], t)
    BY DEF InOrder
  <2>1. chan = <<>> /\ up[1] = <<>> /\ latest[t] = None /\ subscriber[t] = 0 /\ Held = None
    BY DEF ConnIds, Held, Goroutines, Home
  <2>2. ~About(None, t) /\ None \notin Subscribes /\ Free(<<>>, t)
    BY DEF About, Requests, Free
  <2> QED
    BY <2>1, <2>2 DEF OnItsWay
<1> QED
  BY <1>1, <1>2, <1>3, <1>4, <1>5, <1>6, <1>7, TypeParts DEF IInv

(* IInv holds in every reachable state. *)
THEOREM Invariance == Spec => []IInv
<1>1. IInv /\ [Next]_vars => IInv'
  <2> SUFFICES ASSUME IInv, [Next]_vars PROVE IInv'
    OBVIOUS
  <2>1. TypeEdge /\ TypeNet /\ TypeRest
    BY TypeParts DEF IInv
  <2>2. /\ OneConnection /\ OneDials /\ Hands /\ NothingDropped /\ SmoothReader /\ UnusedAreEmpty
        /\ InOrder
    BY DEF IInv
  <2>3. TypeEdge' /\ TypeNet' /\ TypeRest'
    BY <2>1, <2>2, TypeEdgeStep, TypeNetStep, TypeRestStep
  <2>4. TypeOK'
    BY <2>3, TypeParts, PTL
  <2>5. OneConnection' /\ OneDials' /\ Hands' /\ NothingDropped'
    BY <2>1, <2>2, DialStep, HandsStep, DroppedStep
  <2>6. SmoothReader' /\ UnusedAreEmpty' /\ InOrder'
    BY <2>1, <2>2, SmoothReaderStep, UnusedStep, InOrderStep
  <2> QED
    BY <2>4, <2>5, <2>6 DEF IInv
<1> QED
  BY <1>1, InitIInv, PTL DEF Spec

(* Type correctness, with the channel within its capacity. *)
THEOREM TypeCorrect == Spec => []TypeOK
<1>1. IInv => TypeOK
  BY DEF IInv
<1> QED
  BY <1>1, Invariance, PTL

(* No request disappears inside the Edge Router, however often writes fail *)
(* and connections are replaced.                                           *)
THEOREM RequestsKept == Spec => []NothingDropped
<1>1. IInv => NothingDropped
  BY DEF IInv
<1> QED
  BY <1>1, Invariance, PTL

(* There is at most one working connection, the one that routerWs is.      *)
THEOREM OneLink == Spec => []OneConnection
<1>1. IInv => OneConnection
  BY DEF IInv
<1> QED
  BY <1>1, Invariance, PTL

(* When all is quiet on an undisturbed first connection, the Router has    *)
(* acted on the latest request about every topic.                          *)
THEOREM Settled == Spec => []SettledAgreement
<1>1. IInv => SettledAgreement
  <2> SUFFICES ASSUME IInv, Quiescent, smooth, dialled = 1, NEW t \in Topics
               PROVE  subscriber[t] = IF latest[t] \in Subscribes THEN ws ELSE 0
    BY DEF SettledAgreement
  <2>1. ws = 1 /\ FirstLink
    BY DEF IInv, OneDials, FirstLink, Quiescent
  <2>2. OnItsWay(chan, Held, up[1], subscriber[t], latest[t], t)
    BY <2>1 DEF IInv, InOrder
  <2>3. chan = <<>> /\ up[1] = <<>> /\ Held = None
    BY LinkAssumption DEF Quiescent, Held, Goroutines, Home, ConnIds
  <2>4. ~About(None, t)
    BY LinkAssumption DEF About, Requests
  <2>5. ASSUME NEW r PROVE ~LastIs(<<>>, t, r)
    BY DEF LastIs
  <2>6. None = latest[t] => ~About(latest[t], t)
    BY <2>4
  <2> QED
    BY <2>1, <2>2, <2>3, <2>5, <2>6 DEF OnItsWay
<1> QED
  BY <1>1, Invariance, PTL
=============================================================================
