------------------------------- MODULE Server -------------------------------
(***************************************************************************)
(* server/server.go: Serve starts the connector, serves gRPC and shuts     *)
(* down on a cancelled context, around the broker and its handlers.        *)
(*                                                                         *)
(* The shutdown is: close the broker, GracefulStop for at most             *)
(* ShutdownTimeout, Stop when it did not finish, wait for grpcServer.Serve *)
(* to return, close the connector.  gRPC's part (Serve, GracefulStop, Stop)*)
(* is modelled from that use: GracefulStop refuses new streams and waits   *)
(* for the handlers, Stop cancels every stream.  Timers may fire at any    *)
(* moment while they are armed.                                            *)
(***************************************************************************)
EXTENDS Broker

VARIABLES serve,          \* where Serve is
          interrupted,    \* the context of Serve is cancelled
          accepting,      \* grpcServer accepts new streams
          grpcServe,      \* grpcServer.Serve: "running", "failed" or "stopped"
          graceful,       \* the GracefulStop goroutine: "no", "waiting", "over"
          native,         \* the connector: "new", "started", "closed"
          timedOut        \* Serve gave up waiting for grpcServer.Serve

serverVars == <<serve, interrupted, accepting, grpcServe, graceful, native, timedOut>>
allVars == <<vars, serverVars>>

ServePC == {"start", "serving", "stopping", "draining", "waiting", "closing",
            "returned"}

ServerInit ==
  /\ Init
  /\ serve = "start"
  /\ interrupted = FALSE
  /\ accepting = FALSE
  /\ grpcServe = "running"
  /\ graceful = "no"
  /\ native = "new"
  /\ timedOut = FALSE

Live(h) == pc[h] \notin {"idle", "returned"}

-----------------------------------------------------------------------------
(* Serve *)

\* native.Start: on failure Serve returns before it built a server.
StartConnector ==
  /\ serve = "start"
  /\ \/ /\ serve' = "serving"
        /\ native' = "started"
        /\ accepting' = TRUE
     \/ /\ serve' = "returned"
        /\ UNCHANGED <<native, accepting>>
  /\ UNCHANGED <<vars, interrupted, grpcServe, graceful, timedOut>>

\* The listener breaks and grpcServer.Serve returns its error.
ListenerFails ==
  /\ accepting
  /\ grpcServe = "running"
  /\ grpcServe' = "failed"
  /\ accepting' = FALSE
  /\ UNCHANGED <<vars, serve, interrupted, graceful, native, timedOut>>

\* SIGINT, SIGTERM or the caller cancels the context.
Interrupt ==
  /\ ~interrupted
  /\ interrupted' = TRUE
  /\ UNCHANGED <<vars, serve, accepting, grpcServe, graceful, native, timedOut>>

\* The two cases of Serve's select both close the broker first.
LeaveSelect ==
  /\ serve = "serving"
  /\ \/ grpcServe = "failed" /\ serve' = "closing"
     \/ interrupted /\ serve' = "stopping"
  /\ Close
  /\ UNCHANGED <<interrupted, accepting, grpcServe, graceful, native, timedOut>>

\* gracefulStop starts GracefulStop in a goroutine of its own.
BeginGracefulStop ==
  /\ serve = "stopping"
  /\ serve' = "draining"
  /\ accepting' = FALSE
  /\ graceful' = "waiting"
  /\ UNCHANGED <<vars, interrupted, grpcServe, native, timedOut>>

\* GracefulStop returns once no handler is left; grpcServer.Serve follows.
GracefulStopReturns ==
  /\ graceful = "waiting"
  /\ \A h \in Handler : ~Live(h)
  /\ graceful' = "over"
  /\ grpcServe' = IF grpcServe = "running" THEN "stopped" ELSE grpcServe
  /\ UNCHANGED <<vars, serve, interrupted, accepting, native, timedOut>>

\* case <-done of gracefulStop
DrainEnds ==
  /\ serve = "draining"
  /\ graceful = "over"
  /\ serve' = "waiting"
  /\ UNCHANGED <<vars, interrupted, accepting, grpcServe, graceful, native, timedOut>>

\* Stop, when `due`: the connections are cut.
StopWhen(due) ==
  /\ serve = "draining" /\ due
  /\ serve' = "waiting"
  /\ ctxDone' = [h \in Handler |-> ctxDone[h] \/ Live(h)]
  /\ grpcServe' = IF grpcServe = "running" THEN "stopped" ELSE grpcServe
  /\ UNCHANGED <<brokerVars, pc, holding, sent, joined, result,
                 interrupted, accepting, graceful, native, timedOut>>

\* Faulty: the connections are cut when no stream is left.
ForceStopLate == StopWhen(\A h \in Handler : ~Live(h))

\* case <-time.After(timeout): server.Stop cancels every stream.
ForceStop == StopWhen(TRUE)

\* Serve waits for grpcServer.Serve, at most ShutdownTimeout.
AwaitServe ==
  /\ serve = "waiting"
  /\ serve' = "closing"
  /\ \/ grpcServe # "running" /\ UNCHANGED timedOut
     \/ timedOut' = TRUE
  /\ UNCHANGED <<vars, interrupted, accepting, grpcServe, graceful, native>>

\* The connector is closed when Serve is in one of `from`.
CloseFrom(from) ==
  /\ serve \in from
  /\ native = "started"
  /\ native' = "closed"
  /\ serve' = "returned"
  /\ UNCHANGED <<vars, interrupted, accepting, grpcServe, graceful, timedOut>>

\* A faulty Serve that also gives up straight from its select.
CloseEarly == CloseFrom({"serving", "closing"})

\* defer native.Close()
CloseConnector == CloseFrom({"closing"})

Serve ==
  \/ StartConnector \/ LeaveSelect \/ BeginGracefulStop \/ GracefulStopReturns
  \/ DrainEnds \/ ForceStop \/ AwaitServe \/ CloseConnector

-----------------------------------------------------------------------------
(* The broker and its handlers inside the server *)

\* The started connector delivers a message; a closed one has stopped its
\* callbacks.
Callback == native = "started" /\ Publish /\ UNCHANGED serverVars

\* A stream reaches its handler only while the server accepts streams.
Accept(h) == accepting /\ Subscribe(h) /\ UNCHANGED serverVars

HandlerStep(h) == Handle(h) /\ UNCHANGED serverVars
SendStep(h) == SendReturns(h) /\ UNCHANGED serverVars
ClientGone(h) == Cancel(h) /\ UNCHANGED serverVars

ServerNext ==
  \/ Serve \/ ListenerFails \/ Interrupt
  \/ Callback
  \/ \E h \in Handler :
       Accept(h) \/ HandlerStep(h) \/ SendStep(h) \/ ClientGone(h)

\* The process schedules Serve and the handlers and its timers fire; a Send is
\* guaranteed to return only on a cancelled stream, so nothing is assumed of
\* the clients.
ServerFairness ==
  /\ WF_allVars(LeaveSelect)
  /\ WF_allVars(BeginGracefulStop)
  /\ WF_allVars(GracefulStopReturns)
  /\ WF_allVars(DrainEnds \/ ForceStop)
  /\ WF_allVars(AwaitServe)
  /\ WF_allVars(CloseConnector)
  /\ \A h \in Handler : /\ WF_allVars(HandlerStep(h))
                        /\ WF_allVars(ctxDone[h] /\ SendStep(h))

ServerSpec == ServerInit /\ [][ServerNext]_allVars /\ ServerFairness

-----------------------------------------------------------------------------
(* Properties *)

\* The connector is closed only after the broker: no callback of a dying
\* connector reaches a stream, and no stream can be attached to a broker that
\* will never be fed again (the order of Serve's shutdown and its defer).
ClosedConnectorClosedBroker == native = "closed" => closed /\ subscribers = {}

\* An interrupted Serve returns although a client never reads its stream:
\* ShutdownTimeout bounds every wait.
ShutdownTerminates == interrupted /\ serve = "serving" ~> serve = "returned"

\* No RPC outlives an interrupted server for ever: either GracefulStop waited
\* for it, or Stop cancelled it.  (When grpcServer.Serve itself failed the code
\* stops nobody, so that exit is not covered.)
NoOrphanRPC ==
  \A h \in Handler : serve = "returned" /\ interrupted /\ grpcServe # "failed"
                       ~> ~Live(h)

\* Every stream ends: the detached one, and all of them with a shutdown, which
\* ends itself (FetchResponseData, Serve and gracefulStop).
StreamsEnd == DetachedReturns /\ ShutdownTerminates /\ NoOrphanRPC
=============================================================================
