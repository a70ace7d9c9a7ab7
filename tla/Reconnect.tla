------------------------------ MODULE Reconnect ------------------------------
(***************************************************************************)
(* client/reconnect.go: RunWithReconnect replaces its TCClient whenever a  *)
(* session fails; client/main.go: the handshake of a new client.           *)
(*                                                                         *)
(* Every client talks to the same server, whose connector has one session. *)
(* A connect is refused while the session of another connect lives.  A     *)
(* command travels apart from its client: the connector runs connect and   *)
(* disconnect without looking at the context of the call, so one given up  *)
(* may still be served, or be lost.                                        *)
(*                                                                         *)
(* The current client and the ones before it are told apart, not counted.  *)
(* The length of a pause is left out, as is a negative DisconnectTimeout,  *)
(* with which no disconnect is sent.                                       *)
(***************************************************************************)
EXTENDS Naturals

VARIABLES supervisor,    \* where RunWithReconnect is
          stopRequested, \* its context is done
          sessionFailed,        \* runSession returned an error
          clients,       \* clients whose context and connection are open
          wire,          \* commands on their way to the server
          reply,         \* the server's answer to the command in progress
          holder         \* the client whose connect the connector's session serves

reconnectVars == <<supervisor, stopRequested, sessionFailed, clients, wire, reply, holder>>

Party == {"current", "former"}

ReconnectTypeOK ==
  /\ supervisor \in {"create", "header", "connecting", "session", "disconnecting",
                     "pause", "ended"}
  /\ stopRequested \in BOOLEAN /\ sessionFailed \in BOOLEAN
  /\ clients \subseteq Party
  /\ wire \subseteq [cmd : {"connect", "disconnect"}, from : Party]
  /\ reply \in {"none", "success", "failure"}
  /\ holder \in Party \cup {"none"}

ReconnectInit ==
  /\ supervisor = "create" /\ stopRequested = FALSE /\ sessionFailed = FALSE
  /\ clients = {} /\ wire = {} /\ reply = "none"
  /\ holder = "none"

Former(party) == IF party = "current" THEN "former" ELSE party

-----------------------------------------------------------------------------
(* NewTCClientWithConnAndOptions *)

\* The loop's check of the context.
SeesStop ==
  /\ supervisor \in {"create", "pause"} /\ stopRequested
  /\ supervisor' = "ended"
  /\ UNCHANGED <<stopRequested, sessionFailed, clients, wire, reply, holder>>

\* A new client opens its stream; everything on its way is a former client's now.
CreateClient ==
  /\ supervisor = "create" /\ ~stopRequested
  /\ supervisor' = "header"
  /\ clients' = {Former(c) : c \in clients} \cup {"current"}
  /\ wire' = {[m EXCEPT !.from = "former"] : m \in wire}
  /\ holder' = Former(holder)
  /\ reply' = "none"
  /\ UNCHANGED <<stopRequested, sessionFailed>>

Submit(command) == wire' = wire \cup {[cmd |-> command, from |-> "current"]}

\* stream.Header() returns: the stream is subscribed, connect is sent.
HeaderArrives ==
  /\ supervisor = "header"
  /\ supervisor' = "connecting"
  /\ Submit("connect")
  /\ UNCHANGED <<stopRequested, sessionFailed, clients, reply, holder>>

Discard(kept) ==
  /\ supervisor' = "pause"
  /\ clients' = kept
  /\ UNCHANGED <<stopRequested, sessionFailed, wire, reply, holder>>

\* Faulty: stream and connection of a refused client stay open.
ConnectRefusedOpen == supervisor = "connecting" /\ reply = "failure" /\ Discard(clients)

\* The server refuses the connect: the constructor returns its error, and what
\* it opened is closed.
ConnectRefused ==
  supervisor = "connecting" /\ reply = "failure" /\ Discard(clients \ {"current"})

\* Faulty: no clientHandshakeTimeout.
HandshakeUntimed == ConnectRefused

\* clientHandshakeTimeout, or an error of the transport; nobody tells the server.
HandshakeFails ==
  supervisor \in {"header", "connecting"} /\ reply # "failure" /\ Discard(clients \ {"current"})

\* The connect succeeded: runSession begins.
ConnectSucceeds ==
  /\ supervisor = "connecting" /\ reply = "success"
  /\ supervisor' = "session"
  /\ UNCHANGED <<stopRequested, sessionFailed, clients, wire, reply, holder>>

-----------------------------------------------------------------------------
(* RunWithReconnect after runSession *)

\* runSession returns, with an error or not; closeReconnectClient sends a
\* disconnect.
SessionReturns ==
  /\ supervisor = "session"
  /\ supervisor' = "disconnecting"
  /\ sessionFailed' \in BOOLEAN
  /\ reply' = "none"
  /\ Submit("disconnect")
  /\ UNCHANGED <<stopRequested, clients, holder>>

\* The disconnect was answered, or its timeout passed; the client is closed.
DisconnectOver ==
  /\ supervisor = "disconnecting"
  /\ clients' = clients \ {"current"}
  /\ supervisor' = IF stopRequested \/ ~sessionFailed THEN "ended" ELSE "pause"
  /\ UNCHANGED <<stopRequested, sessionFailed, wire, reply, holder>>

PauseOver ==
  /\ supervisor = "pause" /\ ~stopRequested
  /\ supervisor' = "create"
  /\ UNCHANGED <<stopRequested, sessionFailed, clients, wire, reply, holder>>

StopRequest ==
  /\ ~stopRequested
  /\ stopRequested' = TRUE
  /\ UNCHANGED <<supervisor, sessionFailed, clients, wire, reply, holder>>

-----------------------------------------------------------------------------
(* The server *)

\* The connector runs a command, and answers the client that still waits for it.
Execute(m) ==
  LET succeeds == (m.cmd = "connect") <=> (holder = "none")
      awaited == IF m.cmd = "connect" THEN "connecting" ELSE "disconnecting"
  IN  /\ m \in wire
      /\ wire' = wire \ {m}
      /\ holder' = IF ~succeeds THEN holder ELSE IF m.cmd = "connect" THEN m.from ELSE "none"
      /\ reply' = IF m.from = "current" /\ supervisor = awaited
                    THEN (IF succeeds THEN "success" ELSE "failure") ELSE reply
      /\ UNCHANGED <<supervisor, stopRequested, sessionFailed, clients>>

CommandLost ==
  /\ \E m \in wire : wire' = wire \ {m}
  /\ UNCHANGED <<supervisor, stopRequested, sessionFailed, clients, reply, holder>>

\* The session of the connector ends by itself.
ConnectorDown ==
  /\ holder # "none"
  /\ holder' = "none"
  /\ UNCHANGED <<supervisor, stopRequested, sessionFailed, clients, wire, reply>>

Supervise ==
  SeesStop \/ CreateClient \/ ConnectRefused \/ HandshakeFails \/ DisconnectOver \/ PauseOver

ReconnectNext ==
  \/ Supervise
  \/ HeaderArrives \/ ConnectSucceeds \/ SessionReturns \/ StopRequest
  \/ \E m \in wire : Execute(m)
  \/ CommandLost \/ ConnectorDown

\* The timeouts of the supervisor strike, its session heeds its context, and a
\* disconnect is served or lost in the end.  Nothing makes the server answer a
\* connect in time, or a session of the connector end.
Disconnects == \E m \in wire : m.cmd = "disconnect" /\ Execute(m)
ReconnectFairness ==
  /\ WF_reconnectVars(Supervise)
  /\ WF_reconnectVars(stopRequested /\ SessionReturns)
  /\ WF_reconnectVars(Disconnects)

ReconnectSpec == ReconnectInit /\ [][ReconnectNext]_reconnectVars /\ ReconnectFairness

-----------------------------------------------------------------------------
(* Properties *)

\* One client at a time, and none while the supervisor waits or when it has
\* ended: every path that gives a client up has closed its stream.
OneClient ==
  /\ "former" \notin clients
  /\ supervisor \in {"create", "pause", "ended"} => clients = {}

\* A cancelled context ends the supervisor, whatever the server answers
\* ("Context cancellation is treated as a graceful shutdown").
SupervisorEnds == stopRequested ~> supervisor = "ended"

\* A session follows a failure when the network has become reliable
\* ("RunWithReconnect recreates a TCClient whenever runSession returns an error").
Resumes == supervisor = "pause" ~> supervisor \in {"session", "ended"}
Reliable == <>[][~CommandLost /\ ~HandshakeFails]_reconnectVars
Recreates == Reliable => Resumes

\* So it does once the connector's session is not one a client has left behind.
RecreatesUnlessHeld == <>[](holder # "former") => Recreates

\* The supervisor neither hangs nor gives up.
SupervisorGoesOn == SupervisorEnds /\ RecreatesUnlessHeld
=============================================================================
