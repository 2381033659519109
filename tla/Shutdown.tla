------------------------------ MODULE Shutdown ------------------------------
(***************************************************************************)
(* The end of an Edge Router process (edgerouter/edgerouter.go): main      *)
(* cancels the context and waits for every goroutine of the wait group;    *)
(* StartEdgeRouter disconnects from the Router, shuts the HTTP server down *)
(* and closes outgoingChannel, while handlers, the goroutine that reads    *)
(* from the Router and the one that writes to it still use the channel.    *)
(*                                                                         *)
(* A send on a closed channel panics. The HTTP server recovers the panic   *)
(* of a handler, which then ends without unlocking what it has locked; in  *)
(* any other goroutine it ends the process. Messages are only counted.     *)
(*                                                                         *)
(* Assumed of the websocket library: a read whose context is cancelled     *)
(* fails and closes the connection; a write may still succeed.             *)
(***************************************************************************)
EXTENDS Naturals

CONSTANTS
    Handlers,       \* the connections of Agents
    ChannelBufSize, \* the capacity of outgoingChannel
    None

ASSUME ShutdownAssumption == None \notin Handlers /\ ChannelBufSize \in Nat \ {0}

VARIABLES
    hpc,       \* per connection: where its handler is
    subMu,     \* the handler that holds subMu across a step, or None
    wpc,       \* where handleOutgoingMessages is
    rpc,       \* where handleIncomingMessages is
    wsMu,      \* the goroutine that holds wsMu, or None
    n,         \* how many messages are on outgoingChannel
    closed,    \* outgoingChannel has been closed
    linkUp,    \* the connection to the Router works
    cancelled, \* the context has been cancelled
    spc,       \* where StartEdgeRouter is
    crashed,   \* a panic has ended the process
    quiet      \* history: nothing was under way when the context was cancelled

handlers == <<hpc, subMu>>
link     == <<wpc, rpc, wsMu, linkUp>>
channel  == <<n, closed>>
ending   == <<cancelled, spc, quiet>>
vars == <<handlers, link, channel, ending, crashed>>

TypeOK ==
    /\ hpc \in [Handlers -> {"off", "idle", "wantSub", "hold", "send", "route", "done"}]
    /\ subMu \in Handlers \cup {None}
    /\ wpc \in {"take", "write", "pushBack", "wantWs", "try", "done"}
    /\ rpc \in {"read", "put", "route", "wantWs", "try", "done"}
    /\ wsMu \in {"writer", "reader", None}
    /\ n \in 0..ChannelBufSize
    /\ closed \in BOOLEAN /\ linkUp \in BOOLEAN /\ cancelled \in BOOLEAN
    /\ crashed \in BOOLEAN /\ quiet \in BOOLEAN
    /\ spc \in {"run", "disconnect", "http", "close", "done"}

(* The Edge Router starts with or without a connection to a Router.        *)
Init ==
    /\ hpc = [h \in Handlers |-> "off"] /\ subMu = None
    /\ wpc = "take" /\ rpc = "read" /\ wsMu = None
    /\ n = 0 /\ closed = FALSE
    /\ linkUp \in BOOLEAN
    /\ cancelled = FALSE /\ spc = "run" /\ crashed = FALSE /\ quiet = FALSE

Goto(h, place) == hpc' = [hpc EXCEPT ![h] = place]
Room == ~closed /\ n < ChannelBufSize
-----------------------------------------------------------------------------
(* The handlers of the Agents' connections. *)

Open(h) ==
    /\ hpc[h] = "off" /\ spc \in {"run", "disconnect"}
    /\ Goto(h, "idle")
    /\ UNCHANGED <<subMu, link, channel, ending, crashed>>

(* Faulty variant: the handler reads without the context. *)
ReadRequestAlways(h) ==
    /\ hpc[h] = "idle"
    /\ Goto(h, "wantSub") \/ Goto(h, "send")
    /\ UNCHANGED <<subMu, link, channel, ending, crashed>>

(* A Subscribe or Unsubscribe with a subject takes subMu; a Send and a     *)
(* request for direct messages go to the channel at once.                  *)
ReadRequest(h) ==
    /\ hpc[h] = "idle" /\ ~cancelled
    /\ Goto(h, "wantSub") \/ Goto(h, "send")
    /\ UNCHANGED <<subMu, link, channel, ending, crashed>>

(* A Subscribe to a subject that is new here is passed on to the Router    *)
(* with subMu held; any other only changes the subscribers.                *)
LockSubMu(h) ==
    /\ hpc[h] = "wantSub" /\ subMu = None
    /\ \/ Goto(h, "hold") /\ subMu' = h
       \/ Goto(h, "idle") /\ UNCHANGED subMu
    /\ UNCHANGED <<link, channel, ending, crashed>>

(* A message with a subject is routed under subMu afterwards.              *)
PutRequest(h) ==
    /\ Room
    /\ n' = n + 1
    /\ \/ hpc[h] = "hold" /\ Goto(h, "idle") /\ subMu' = None
       \/ hpc[h] = "send" /\ (Goto(h, "route") \/ Goto(h, "idle")) /\ UNCHANGED subMu
    /\ UNCHANGED <<link, closed, ending, crashed>>

PutPanics(h) ==
    /\ hpc[h] \in {"hold", "send"} /\ closed
    /\ Goto(h, "done")
    /\ UNCHANGED <<subMu, link, channel, ending, crashed>>

RouteLocally(h) ==
    /\ hpc[h] = "route" /\ subMu = None
    /\ Goto(h, "idle")
    /\ UNCHANGED <<subMu, link, channel, ending, crashed>>

(* The read fails: the Agent has gone, or the context is cancelled.        *)
HandlerExit(h) ==
    /\ hpc[h] = "idle"
    /\ Goto(h, "done")
    /\ UNCHANGED <<subMu, link, channel, ending, crashed>>
-----------------------------------------------------------------------------
(* handleOutgoingMessages. *)

Take ==
    /\ wpc = "take" /\ n > 0
    /\ n' = n - 1 /\ wpc' = "write"
    /\ UNCHANGED <<handlers, rpc, wsMu, linkUp, closed, ending, crashed>>

(* The range over the channel ends when it is closed and empty.            *)
WriterEnd ==
    /\ wpc = "take" /\ n = 0 /\ closed
    /\ wpc' = "done"
    /\ UNCHANGED <<handlers, rpc, wsMu, linkUp, channel, ending, crashed>>

Write ==
    /\ wpc = "write"
    /\ \/ linkUp /\ wpc' = "take"
       \/ (~linkUp \/ cancelled) /\ wpc' = "pushBack"
    /\ UNCHANGED <<handlers, rpc, wsMu, linkUp, channel, ending, crashed>>

(* Faulty variant: the writer assumes that there is room on the channel. *)
PushBackUnbounded ==
    /\ wpc = "pushBack"
    /\ n' = n + 1 /\ wpc' = "wantWs"
    /\ UNCHANGED <<handlers, rpc, wsMu, linkUp, closed, ending, crashed>>

PushBack ==
    /\ wpc = "pushBack"
    /\ \/ Room /\ n' = n + 1 /\ wpc' = "wantWs" /\ UNCHANGED crashed
       \/ closed /\ crashed' = TRUE /\ UNCHANGED <<n, wpc>>
    /\ UNCHANGED <<handlers, rpc, wsMu, linkUp, closed, ending>>

WriterLocksWs ==
    /\ wpc = "wantWs" /\ wsMu = None
    /\ wpc' = "try" /\ wsMu' = "writer"
    /\ UNCHANGED <<handlers, rpc, linkUp, channel, ending, crashed>>

(* Faulty variant: the search for a Router goes on when the context is cancelled. *)
TryConnectRouterAlways ==
    IF cancelled THEN linkUp /\ UNCHANGED linkUp ELSE linkUp' = TRUE

(* TryConnectRouter returns when the connection works, be it a new one, or *)
(* when the context is cancelled.                                          *)
TryConnectRouter ==
    IF cancelled THEN UNCHANGED linkUp ELSE linkUp' = TRUE

WriterTries ==
    /\ wpc = "try" /\ TryConnectRouter
    /\ wpc' = "take" /\ wsMu' = None
    /\ UNCHANGED <<handlers, rpc, channel, ending, crashed>>
-----------------------------------------------------------------------------
(* handleIncomingMessages. *)

(* A refused request is put on the channel again, a notification makes a   *)
(* request for the messages, and messages are routed under subMu.          *)
Read ==
    /\ rpc = "read" /\ linkUp /\ ~cancelled
    /\ rpc' \in {"put", "route"}
    /\ UNCHANGED <<handlers, wpc, wsMu, linkUp, channel, ending, crashed>>

NextRound == rpc' = IF cancelled THEN "done" ELSE "read"

(* A read that the cancellation ended leads to the end of the goroutine,   *)
(* one that failed otherwise to TryConnectRouter first.                    *)
ReadFail ==
    /\ rpc = "read"
    /\ \/ cancelled /\ rpc' = "done" /\ linkUp' = FALSE
       \/ ~linkUp /\ rpc' = "wantWs" /\ UNCHANGED linkUp
    /\ UNCHANGED <<handlers, wpc, wsMu, channel, ending, crashed>>

ReaderPuts ==
    /\ rpc = "put"
    /\ \/ Room /\ n' = n + 1 /\ NextRound /\ UNCHANGED crashed
       \/ closed /\ crashed' = TRUE /\ UNCHANGED <<n, rpc>>
    /\ UNCHANGED <<handlers, wpc, wsMu, linkUp, closed, ending>>

ReaderRoutes ==
    /\ rpc = "route" /\ subMu = None
    /\ NextRound
    /\ UNCHANGED <<handlers, wpc, wsMu, linkUp, channel, ending, crashed>>

ReaderLocksWs ==
    /\ rpc = "wantWs" /\ wsMu = None
    /\ rpc' = "try" /\ wsMu' = "reader"
    /\ UNCHANGED <<handlers, wpc, linkUp, channel, ending, crashed>>

ReaderTries ==
    /\ rpc = "try" /\ TryConnectRouter
    /\ NextRound /\ wsMu' = None
    /\ UNCHANGED <<handlers, wpc, channel, ending, crashed>>
-----------------------------------------------------------------------------
(* The end. *)

(* The connection to the Router is lost, or the Router has closed it after *)
(* the Disconnect.                                                         *)
LinkDown ==
    /\ linkUp
    /\ linkUp' = FALSE
    /\ UNCHANGED <<handlers, wpc, rpc, wsMu, channel, ending, crashed>>

(* The process is told to stop.                                            *)
Cancel ==
    /\ ~cancelled
    /\ cancelled' = TRUE /\ spc' = "disconnect"
    /\ quiet' = /\ \A h \in Handlers : hpc[h] \in {"off", "idle", "done"}
                /\ n = 0 /\ wpc = "take" /\ rpc # "put"
    /\ UNCHANGED <<handlers, link, channel, crashed>>

(* StartEdgeRouter sends a Disconnect and waits until the connection has   *)
(* been closed.                                                            *)
Disconnect ==
    /\ spc = "disconnect" /\ ~linkUp
    /\ spc' = "http"
    /\ UNCHANGED <<handlers, link, channel, cancelled, quiet, crashed>>

(* httpServer.Shutdown does not wait for the websockets, which have been   *)
(* taken over from it.                                                     *)
HttpShutdown ==
    /\ spc = "http"
    /\ spc' = "close"
    /\ UNCHANGED <<handlers, link, channel, cancelled, quiet, crashed>>

CloseChannel ==
    /\ spc = "close"
    /\ closed' = TRUE /\ spc' = "done"
    /\ UNCHANGED <<handlers, link, n, cancelled, quiet, crashed>>
-----------------------------------------------------------------------------
HandlerStep(h) ==
    \/ LockSubMu(h) \/ PutRequest(h) \/ PutPanics(h) \/ RouteLocally(h)
    \/ cancelled /\ HandlerExit(h)

Writer == Take \/ WriterEnd \/ Write \/ PushBack \/ WriterLocksWs \/ WriterTries
Reader == Read \/ ReadFail \/ ReaderPuts \/ ReaderRoutes \/ ReaderLocksWs \/ ReaderTries
StartEdgeRouter == Disconnect \/ HttpShutdown \/ CloseChannel

Next ==
    /\ ~crashed
    /\ \/ \E h \in Handlers : Open(h) \/ ReadRequest(h) \/ HandlerStep(h) \/ HandlerExit(h)
       \/ Writer \/ Reader \/ LinkDown \/ Cancel \/ StartEdgeRouter

Spec == Init /\ [][Next]_vars

(* The goroutines run, Go's locks and channels serve those that wait in    *)
(* turn, and the Router closes the connection after a Disconnect. Nothing  *)
(* is assumed of the Agents, nor of a Router before that.                  *)
Alive(A) == ~crashed /\ A

Fairness ==
    /\ \A h \in Handlers : SF_vars(Alive(HandlerStep(h)))
    /\ SF_vars(Alive(Writer)) /\ SF_vars(Alive(Reader))
    /\ WF_vars(Alive(StartEdgeRouter))
    /\ WF_vars(Alive(spc = "disconnect" /\ LinkDown))

FairSpec == Spec /\ Fairness
-----------------------------------------------------------------------------
(* Properties. *)

(* wg.Wait returns.                                                        *)
Ended ==
    /\ spc = "done" /\ wpc = "done" /\ rpc = "done"
    /\ \A h \in Handlers : hpc[h] \in {"off", "done"}

(* A handler has ended and left subMu locked.                              *)
Orphaned == \E h \in Handlers : subMu = h /\ hpc[h] = "done"

(* If no request, response or notification was being handled and the       *)
(* channel was empty when the context was cancelled, then closing the      *)
(* channel makes nobody panic, although handlers and both goroutines of    *)
(* the link are still there and may be in any other place.                 *)
CleanIfQuiet == quiet => ~crashed /\ ~Orphaned

(* A message that nobody has written yet when the context is cancelled is  *)
(* what ends the process in a panic or blocks it; otherwise every          *)
(* goroutine notices the cancellation, the ones that wait for a lock, for  *)
(* room on the channel or for a Router too, and wg.Wait returns.           *)
ShutdownEnds == cancelled ~> (Ended \/ crashed \/ Orphaned)
=============================================================================
