--------------------------- MODULE ShutdownProofs ---------------------------
(***************************************************************************)
(* Theorems about Shutdown.tla: for every number of connections and every  *)
(* capacity of the channel, a shutdown that interrupts nothing makes       *)
(* nobody panic.                                                           *)
(***************************************************************************)
EXTENDS Shutdown, TLAPS

(* The channel is closed only after the cancellation.                      *)
Order == (spc # "run" => cancelled) /\ (closed => spc = "done") /\ (quiet => cancelled)

(* Until the channel is closed, subMu is held by handlers that will unlock *)
(* it and by nobody else.                                                  *)
HeldIfOpen == \A h \in Handlers : subMu = h /\ ~closed => hpc[h] = "hold"

(* What a quiet cancellation finds stays so.                               *)
StaysQuiet ==
    quiet => /\ \A h \in Handlers : hpc[h] \in {"off", "idle", "done"}
             /\ subMu = None /\ ~crashed
             /\ n = 0 /\ wpc \in {"take", "done"} /\ rpc # "put"

(* Nothing panics while the channel is open.                               *)
AliveIfOpen == crashed => closed

Inv == TypeOK /\ Order /\ HeldIfOpen /\ StaysQuiet /\ AliveIfOpen

LEMMA InitInv == Init => Inv
<1> SUFFICES ASSUME Init PROVE Inv
  OBVIOUS
<1>1. TypeOK
  <2>1. linkUp \in BOOLEAN
    BY DEF Init
  <2>2. n \in 0..ChannelBufSize
    BY ShutdownAssumption DEF Init
  <2>3. hpc \in [Handlers -> {"off", "idle", "wantSub", "hold", "send", "route", "done"}]
    BY DEF Init
  <2> QED BY <2>1, <2>2, <2>3, Zenon DEF Init, TypeOK
<1>2. Order /\ HeldIfOpen /\ StaysQuiet /\ AliveIfOpen
  BY ShutdownAssumption DEF Init, Order, HeldIfOpen, StaysQuiet, AliveIfOpen
<1> QED BY <1>1, <1>2 DEF Inv

(* The steps of a handler.                                                 *)
LEMMA HandlerInv ==
  ASSUME Inv, NEW h \in Handlers, ~crashed,
         Open(h) \/ ReadRequest(h) \/ HandlerStep(h) \/ HandlerExit(h)
  PROVE  Inv'
<1> USE ShutdownAssumption
<1> USE DEF Inv, TypeOK, Order, HeldIfOpen, StaysQuiet, AliveIfOpen, Goto, handlers, link, channel, ending
<1>1. CASE Open(h) BY <1>1 DEF Open
<1>2. CASE ReadRequest(h) BY <1>2 DEF ReadRequest
<1>3. CASE LockSubMu(h) BY <1>3 DEF LockSubMu
<1>4. CASE PutRequest(h) BY <1>4 DEF PutRequest, Room
<1>5. CASE PutPanics(h) BY <1>5 DEF PutPanics
<1>6. CASE RouteLocally(h) BY <1>6 DEF RouteLocally
<1>7. CASE HandlerExit(h) BY <1>7 DEF HandlerExit
<1> QED BY <1>1, <1>2, <1>3, <1>4, <1>5, <1>6, <1>7 DEF HandlerStep

(* The steps of handleOutgoingMessages.                                    *)
LEMMA WriterInv == ASSUME Inv, ~crashed, Writer PROVE Inv'
<1> USE ShutdownAssumption
<1> USE DEF Inv, TypeOK, Order, HeldIfOpen, StaysQuiet, AliveIfOpen, handlers, channel, ending
<1>1. CASE Take BY <1>1 DEF Take
<1>2. CASE WriterEnd BY <1>2 DEF WriterEnd
<1>3. CASE Write BY <1>3 DEF Write
<1>4. CASE PushBack
  <2>1. CASE Room BY <1>4, <2>1 DEF PushBack, Room
  <2>2. CASE closed BY <1>4, <2>2 DEF PushBack, Room
  <2> QED BY <1>4, <2>1, <2>2 DEF PushBack
<1>5. CASE WriterLocksWs BY <1>5 DEF WriterLocksWs
<1>6. CASE WriterTries BY <1>6 DEF WriterTries, TryConnectRouter
<1> QED BY <1>1, <1>2, <1>3, <1>4, <1>5, <1>6 DEF Writer

(* The steps of handleIncomingMessages.                                    *)
LEMMA ReaderInv == ASSUME Inv, ~crashed, Reader PROVE Inv'
<1> USE ShutdownAssumption
<1> USE DEF Inv, TypeOK, Order, HeldIfOpen, StaysQuiet, AliveIfOpen, handlers, channel, ending, NextRound
<1>1. CASE Read BY <1>1 DEF Read
<1>2. CASE ReadFail BY <1>2 DEF ReadFail
<1>3. CASE ReaderPuts
  <2>1. CASE Room BY <1>3, <2>1 DEF ReaderPuts, Room
  <2>2. CASE closed BY <1>3, <2>2 DEF ReaderPuts, Room
  <2> QED BY <1>3, <2>1, <2>2 DEF ReaderPuts
<1>4. CASE ReaderRoutes BY <1>4 DEF ReaderRoutes
<1>5. CASE ReaderLocksWs BY <1>5 DEF ReaderLocksWs
<1>6. CASE ReaderTries BY <1>6 DEF ReaderTries, TryConnectRouter
<1> QED BY <1>1, <1>2, <1>3, <1>4, <1>5, <1>6 DEF Reader

(* The connection breaks, the process is told to stop, StartEdgeRouter     *)
(* goes on.                                                                *)
LEMMA EndInv == ASSUME Inv, ~crashed, LinkDown \/ Cancel \/ StartEdgeRouter PROVE Inv'
<1> USE ShutdownAssumption
<1> USE DEF Inv, TypeOK, Order, HeldIfOpen, StaysQuiet, AliveIfOpen, handlers, link, channel, ending
<1>1. CASE LinkDown BY <1>1 DEF LinkDown
<1>2. CASE Cancel BY <1>2 DEF Cancel
<1>3. CASE Disconnect BY <1>3 DEF Disconnect
<1>4. CASE HttpShutdown BY <1>4 DEF HttpShutdown
<1>5. CASE CloseChannel BY <1>5 DEF CloseChannel
<1> QED BY <1>1, <1>2, <1>3, <1>4, <1>5 DEF StartEdgeRouter

(* Inv is an invariant of the specification.                               *)
LEMMA Invariance == Spec => []Inv
<1>1. ASSUME Inv, [Next]_vars PROVE Inv'
  <2>1. CASE UNCHANGED vars
    BY <1>1, <2>1 DEF vars, handlers, link, channel, ending, Inv, TypeOK, Order, HeldIfOpen, StaysQuiet, AliveIfOpen
  <2>2. CASE Next
    BY <1>1, <2>2, HandlerInv, WriterInv, ReaderInv, EndInv DEF Next
  <2> QED BY <1>1, <2>1, <2>2
<1> QED BY <1>1, InitInv, PTL DEF Spec

(* The variables of a shutdown keep their types; the channel never holds   *)
(* more than its capacity, whoever puts messages on it.                    *)
THEOREM TypeCorrect == Spec => []TypeOK
<1>1. Inv => TypeOK BY DEF Inv
<1> QED BY <1>1, Invariance, PTL

(* If nothing was under way when the context was cancelled, no goroutine   *)
(* of the Edge Router panics on the closed channel and no handler leaves   *)
(* subMu locked.                                                           *)
THEOREM CleanShutdown == Spec => []CleanIfQuiet
<1>1. Inv => CleanIfQuiet
  BY ShutdownAssumption DEF Inv, StaysQuiet, CleanIfQuiet, Orphaned
<1> QED BY <1>1, Invariance, PTL
=============================================================================
