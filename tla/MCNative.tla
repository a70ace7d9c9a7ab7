------------------------------ MODULE MCNative ------------------------------
(***************************************************************************)
(* The client side and the native connector for TLC: the connector's       *)
(* lifecycle, the stream of a gRPC client and the supervisor that replaces *)
(* such clients.  They share no state; in a behaviour one of them is at    *)
(* work and the others are over.                                           *)
(***************************************************************************)
EXTENDS NativeConnector, TCClient, Reconnect

ConnectorOver ==
  /\ started = TRUE /\ closed = TRUE
  /\ state = "disconnected"
  /\ client = 0 /\ current = 0
  /\ cancelled = [n \in Session |-> FALSE]
  /\ worker = [n \in Session |-> "none"]
  /\ down = [n \in Session |-> FALSE]
  /\ recoveries = [n \in Session |-> 0]
  /\ cmd = "none" /\ cmdPc = "none"
  /\ out = <<>> /\ outClosed = TRUE
  /\ handling = <<>>
  /\ heard = {}
  /\ ended = [n \in Session |-> <<>>]
  /\ hist = [g \in History |-> "over"]
  /\ histSession = [g \in History |-> 0]
  /\ panicked = FALSE

\* The first session may lose its link and recover, the later ones only fail.
FirstOnly == [n \in Session |-> IF n = 1 THEN 0 ELSE MaxRecoveries]

\* A behaviour of the connector has a history request or recoveries of lost links:
\* the bound on the other is used up at the start.
ConnectorAtWork ==
  /\ started = FALSE /\ closed = FALSE
  /\ state = "disconnected"
  /\ client = 0 /\ current = 0
  /\ cancelled = [n \in Session |-> FALSE]
  /\ worker = [n \in Session |-> "none"]
  /\ down = [n \in Session |-> FALSE]
  /\ cmd = "none" /\ cmdPc = "none"
  /\ out = <<>> /\ outClosed = FALSE
  /\ handling = <<>>
  /\ heard = {}
  /\ ended = [n \in Session |-> <<>>]
  /\ histSession = [g \in History |-> 0]
  /\ panicked = FALSE
  /\ \/ recoveries = [n \in Session |-> MaxRecoveries] /\ hist = [g \in History |-> "idle"]
     \/ recoveries = FirstOnly /\ hist = [g \in History |-> "over"]

ClientOver ==
  /\ loop = "over"
  /\ queue = <<>> /\ queueClosed = TRUE /\ token = FALSE
  /\ dispatcher = "done" /\ dispatching = <<>>
  /\ channel = [c \in Chan |-> <<>>]
  /\ updatesClosed = TRUE /\ shutdown = TRUE /\ ctxCancelled = TRUE
  /\ received = <<>> /\ delivered = [c \in Chan |-> <<>>]

ReconnectOver ==
  /\ supervisor = "ended" /\ stopRequested = TRUE /\ sessionFailed = FALSE
  /\ clients = {} /\ wire = {} /\ reply = "none"
  /\ holder = "none"

MCInit ==
  \/ ConnectorAtWork /\ ClientOver /\ ReconnectOver
  \/ ConnectorOver /\ ClientInit /\ ReconnectOver
  \/ ConnectorOver /\ ClientOver /\ ReconnectInit

MCNext ==
  \/ Next /\ UNCHANGED <<clientVars, reconnectVars>>
  \/ ClientNext /\ UNCHANGED <<vars, reconnectVars>>
  \/ ReconnectNext /\ UNCHANGED <<vars, clientVars>>

MCSpec ==
  /\ MCInit
  /\ [][MCNext]_<<vars, clientVars, reconnectVars>>
  /\ Fairness /\ ClientFairness /\ ReconnectFairness
=============================================================================
