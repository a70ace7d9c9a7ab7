--------------------------- MODULE NativeConnector ---------------------------
(***************************************************************************)
(* native/connector.go: the lifecycle of the pure-Go connector.            *)
(*                                                                         *)
(* Commands and Close are serialized by cmdMu, so at most one of them runs *)
(* (cmd, cmdPc).  connect starts a worker goroutine (run) for session n =  *)
(* 1, 2, ...; a worker that lost its link resets the state under mu and    *)
(* reports afterwards, outside it.  Everything the connector says goes     *)
(* through the bounded channel out to one delivery goroutine; sending on   *)
(* it after Close closed it is a panic.  gethistorydata leaves a goroutine *)
(* behind that emits its candles later.                                    *)
(*                                                                         *)
(* Login, loading, polling and recovery (native.Client) are reduced to     *)
(* their outcomes; of the callbacks only statuses and candles are kept.    *)
(***************************************************************************)
EXTENDS Naturals, Sequences

CONSTANTS MaxSessions,    \* bound on the connect commands accepted
          MaxRecoveries,  \* bound on the lost links a session reports
          QueueSize,      \* callbackQueueSize
          History         \* gethistorydata goroutines

ASSUME SessionsAssumption == MaxSessions \in Nat
ASSUME RecoveriesAssumption == MaxRecoveries \in Nat
ASSUME QueueAssumption == QueueSize \in Nat \ {0}

Session == 1..MaxSessions

VARIABLES started, closed,  \* Connector.started, Connector.closed
          state,            \* Connector.state
          client,           \* the session of Connector.client, 0 when nil
          current,          \* the session whose cancel and done are stored
          cancelled,        \* cancelled[n]: the context of run n is done
          worker,           \* worker[n]: where run n is
          down,             \* down[n]: reportedDown, or finish has no message
          recoveries,       \* lost links session n has reported
          cmd, cmdPc,       \* the command holding cmdMu and where it is
          out,              \* the callbacks queued for the handler
          outClosed,        \* Close closed out
          handling,         \* the callback the handler is running
          heard,            \* history: the sessions the handler received a status of
          ended,            \* ended[n]: how the client of n ended, a sequence
          hist,             \* hist[g]: where history goroutine g is
          histSession,      \* the session g asked
          panicked          \* a send hit the closed channel

connVars == <<started, closed, state, client, current>>
workVars == <<worker, down, recoveries>>
outVars == <<out, outClosed, handling, heard, panicked>>
histVars == <<hist, histSession>>
vars == <<connVars, cancelled, workVars, cmd, cmdPc, outVars, ended, histVars>>

WorkerPC == {"none", "opening", "announce", "running", "emitRecover", "recovering",
             "emitTrue", "emitDown", "failed", "lost", "closing", "shutting", "report", "over"}
Kind == {"true", "false", "recover", "error", "candles"}
Msg == [kind : Kind, session : Session]

TypeOK ==
  /\ started \in BOOLEAN /\ closed \in BOOLEAN
  /\ state \in {"disconnected", "connecting", "connected"}
  /\ client \in 0..MaxSessions
  /\ current \in 0..MaxSessions
  /\ cancelled \in [Session -> BOOLEAN]
  /\ worker \in [Session -> WorkerPC]
  /\ down \in [Session -> BOOLEAN]
  /\ recoveries \in [Session -> 0..MaxRecoveries]
  /\ cmd \in {"none", "status", "disconnect", "close"}
  /\ cmdPc \in {"none", "emit", "cancel", "await", "logout", "say", "delivery",
                "check", "settle", "drain"}
  /\ out \in Seq(Msg)
  /\ Len(out) <= QueueSize
  /\ outClosed \in BOOLEAN
  /\ handling \in Seq(Msg)
  /\ heard \subseteq Session
  /\ ended \in [Session -> Seq({"closed", "loggedOut"})]
  /\ hist \in [History -> {"idle", "asking", "waiting", "ready", "emit", "over"}]
  /\ histSession \in [History -> 0..MaxSessions]
  /\ panicked \in BOOLEAN

Init ==
  /\ started = FALSE /\ closed = FALSE
  /\ state = "disconnected"
  /\ client = 0 /\ current = 0
  /\ cancelled = [n \in Session |-> FALSE]
  /\ worker = [n \in Session |-> "none"]
  /\ down = [n \in Session |-> FALSE]
  /\ recoveries = [n \in Session |-> 0]
  /\ cmd = "none" /\ cmdPc = "none"
  /\ out = <<>> /\ outClosed = FALSE
  /\ handling = <<>>
  /\ heard = {}
  /\ ended = [n \in Session |-> <<>>]
  /\ hist = [g \in History |-> "idle"]
  /\ histSession = [g \in History |-> 0]
  /\ panicked = FALSE

-----------------------------------------------------------------------------
(* The callback channel *)

\* A send on out: a panic when it is closed, else it waits until there is room.
Send(kind, n, room) ==
  /\ IF outClosed
       THEN panicked' = TRUE /\ UNCHANGED out
       ELSE /\ room
            /\ out' = Append(out, [kind |-> kind, session |-> n])
            /\ UNCHANGED panicked
  /\ UNCHANGED <<outClosed, handling, heard>>

\* emit() and the send of emitSync()
Emit(kind, n) == Send(kind, n, Len(out) < QueueSize)

\* The delivery goroutine takes the next callback ...
TakeCallback ==
  /\ handling = <<>>
  /\ out # <<>>
  /\ handling' = <<Head(out)>>
  /\ out' = Tail(out)
  /\ UNCHANGED <<connVars, cancelled, workVars, cmd, cmdPc, outClosed, heard,
                 panicked, ended, histVars>>

\* ... and the handler returns; only statuses are remembered.
HandlerReturns ==
  /\ handling # <<>>
  /\ handling' = <<>>
  /\ LET m == Head(handling)
     IN heard' = IF m.kind = "candles" THEN heard ELSE heard \cup {m.session}
  /\ UNCHANGED <<connVars, cancelled, workVars, cmd, cmdPc, out, outClosed,
                 panicked, ended, histVars>>

-----------------------------------------------------------------------------
(* Start and the commands *)

Start ==
  /\ ~started
  /\ started' = TRUE
  /\ UNCHANGED <<closed, state, client, current, cancelled, workVars, cmd, cmdPc,
                 outVars, ended, histVars>>

\* SendCommand gets cmdMu on a started connector that is not closed.
Accepts == started /\ ~closed /\ cmd = "none"

\* connect: the worker reports the outcome later.
Connect ==
  /\ Accepts
  /\ state = "disconnected"
  /\ current < MaxSessions
  /\ state' = "connecting"
  /\ current' = current + 1
  /\ worker' = [worker EXCEPT ![current + 1] = "opening"]
  /\ UNCHANGED <<started, closed, client, cancelled, down, recoveries, cmd, cmdPc,
                 outVars, ended, histVars>>

\* server_status: the state is checked first, the status is emitted later.
StatusCommand ==
  /\ Accepts
  /\ state = "connected"
  /\ cmd' = "status" /\ cmdPc' = "emit"
  /\ UNCHANGED <<connVars, cancelled, workVars, outVars, ended, histVars>>

StatusEmit ==
  /\ cmd = "status"
  /\ Emit("true", current)
  /\ cmd' = "none" /\ cmdPc' = "none"
  /\ UNCHANGED <<connVars, cancelled, workVars, ended, histVars>>

\* gethistorydata answers at once and leaves the request to a goroutine.
RequestHistory(g) ==
  /\ Accepts
  /\ state = "connected" /\ client # 0
  /\ hist[g] = "idle"
  /\ hist' = [hist EXCEPT ![g] = "asking"]
  /\ histSession' = [histSession EXCEPT ![g] = client]
  /\ UNCHANGED <<connVars, cancelled, workVars, cmd, cmdPc, outVars, ended>>

\* disconnect: the state is read under mu; cancel is called after the unlock.
DisconnectCommand ==
  /\ Accepts
  /\ state # "disconnected"
  /\ cmd' = "disconnect" /\ cmdPc' = "cancel"
  /\ UNCHANGED <<connVars, cancelled, workVars, outVars, ended, histVars>>

CancelRuns(runs) ==
  /\ cmdPc = "cancel"
  /\ cancelled' = [n \in Session |-> cancelled[n] \/ n \in runs]
  /\ cmdPc' = "await"
  /\ UNCHANGED <<connVars, workVars, cmd, outVars, ended, histVars>>

\* Faulty: the worker is waited for without being told.
DisconnectWithoutCancel == CancelRuns({})

DisconnectCancel == CancelRuns({current})

\* The worker is gone: disconnect takes the client over and resets the state.
TakeOver ==
  /\ state' = "disconnected"
  /\ client' = 0
  /\ cmdPc' = IF client # 0 THEN "logout" ELSE "say"
  /\ UNCHANGED <<started, closed, current, cancelled, workVars, cmd, outVars, ended,
                 histVars>>

\* Faulty: disconnect does not wait for the worker.
DisconnectAtOnce == cmdPc = "await" /\ TakeOver

\* <-done, then the state is reset.
DisconnectAwait == cmdPc = "await" /\ worker[current] = "over" /\ TakeOver

\* client.Logout closes the connection; waiting histories are not told.
DisconnectLogout ==
  /\ cmdPc = "logout"
  /\ ended' = [ended EXCEPT ![current] = Append(@, "loggedOut")]
  /\ cmdPc' = "say"
  /\ UNCHANGED <<connVars, cancelled, workVars, cmd, outVars, histVars>>

\* emitSync queues connected="false" ...
DisconnectSay ==
  /\ cmdPc = "say"
  /\ Emit("false", current)
  /\ cmdPc' = "delivery"
  /\ UNCHANGED <<connVars, cancelled, workVars, cmd, ended, histVars>>

\* ... and waits until the handler ran it: everything queued before it ran too.
InQueue(m) == \E k \in 1..Len(out \o handling) : (out \o handling)[k] = m
DisconnectDelivered ==
  /\ cmdPc = "delivery"
  /\ ~InQueue([kind |-> "false", session |-> current])
  /\ IF cmd = "close" THEN cmdPc' = "settle" /\ UNCHANGED cmd
                      ELSE cmd' = "none" /\ cmdPc' = "none"
  /\ UNCHANGED <<connVars, cancelled, workVars, outVars, ended, histVars>>

-----------------------------------------------------------------------------
(* Close *)

CloseCommand ==
  /\ Accepts
  /\ cmd' = "close"
  /\ cmdPc' = IF state # "disconnected" THEN "check" ELSE "settle"
  /\ UNCHANGED <<connVars, cancelled, workVars, outVars, ended, histVars>>

\* The disconnect it calls reads the state again.
CloseDisconnects ==
  /\ cmdPc = "check"
  /\ cmdPc' = IF state # "disconnected" THEN "cancel" ELSE "settle"
  /\ UNCHANGED <<connVars, cancelled, workVars, cmd, outVars, ended, histVars>>

\* Close waits for done of the latest connect only, then closed is set and out
\* is closed.
LatestOver == current # 0 => worker[current] = "over"
CloseSettle ==
  /\ cmdPc = "settle"
  /\ LatestOver
  /\ closed' = TRUE
  /\ outClosed' = TRUE
  /\ cmdPc' = "drain"
  /\ UNCHANGED <<started, state, client, current, cancelled, workVars, cmd, out,
                 handling, heard, panicked, ended, histVars>>

\* Faulty: Close does not wait for the delivery goroutine.
CloseUndrained ==
  /\ cmdPc = "drain"
  /\ cmd' = "none" /\ cmdPc' = "none"
  /\ UNCHANGED <<connVars, cancelled, workVars, outVars, ended, histVars>>

\* <-outDone: the delivery goroutine has drained the channel.
CloseDrained ==
  /\ cmdPc = "drain"
  /\ out = <<>> /\ handling = <<>>
  /\ cmd' = "none" /\ cmdPc' = "none"
  /\ UNCHANGED <<connVars, cancelled, workVars, outVars, ended, histVars>>

-----------------------------------------------------------------------------
(* run: the worker of session n *)

Move(n, to) == worker' = [worker EXCEPT ![n] = to]

\* open() fails, with an error of its own or because it was cancelled.
OpenFails(n) ==
  /\ worker[n] = "opening"
  /\ Move(n, "failed")
  /\ UNCHANGED <<connVars, cancelled, down, recoveries, cmd, cmdPc, outVars, ended, histVars>>

\* open() stores the loaded client unless disconnect came first; then it closes
\* the client itself and fails.
OpenSucceeds(n) ==
  /\ worker[n] = "opening"
  /\ IF cancelled[n]
       THEN /\ Move(n, "failed")
            /\ ended' = [ended EXCEPT ![n] = Append(@, "closed")]
            /\ UNCHANGED <<client, state>>
       ELSE /\ Move(n, "announce")
            /\ client' = n /\ state' = "connected"
            /\ UNCHANGED ended
  /\ UNCHANGED <<started, closed, current, cancelled, down, recoveries, cmd, cmdPc,
                 outVars, histVars>>

\* The callbacks the worker emits on its way, and where it goes next.
EmitAt(n, at, kind, to) ==
  /\ worker[n] = at
  /\ Emit(kind, n)
  /\ Move(n, to)
  /\ UNCHANGED <<connVars, cancelled, down, recoveries, cmd, cmdPc, ended, histVars>>

Announce(n) == EmitAt(n, "announce", "true", "running")
ReportRecover(n) == EmitAt(n, "emitRecover", "recover", "recovering")
ReportRecovered(n) == EmitAt(n, "emitTrue", "true", "running")

\* client.Run sees its context done and returns.
RunCancelled(n) ==
  /\ worker[n] \in {"running", "recovering"}
  /\ cancelled[n]
  /\ Move(n, "lost")
  /\ UNCHANGED <<connVars, cancelled, down, recoveries, cmd, cmdPc, outVars, ended, histVars>>

\* A poll fails: a transport error starts a recovery, any other ends the run.
LinkLost(n) ==
  /\ worker[n] = "running"
  /\ recoveries[n] < MaxRecoveries
  /\ recoveries' = [recoveries EXCEPT ![n] = @ + 1]
  /\ Move(n, "emitRecover")
  /\ UNCHANGED <<connVars, cancelled, down, cmd, cmdPc, outVars, ended, histVars>>
PollFails(n) ==
  /\ worker[n] = "running"
  /\ Move(n, "lost")
  /\ UNCHANGED <<connVars, cancelled, down, recoveries, cmd, cmdPc, outVars, ended, histVars>>

\* recover() ends; a cancelled one reports nothing.
RecoveryEnds(n) ==
  /\ worker[n] = "recovering"
  /\ ~cancelled[n]
  /\ Move(n, "emitTrue") \/ Move(n, "emitDown")
  /\ UNCHANGED <<connVars, cancelled, down, recoveries, cmd, cmdPc, outVars, ended, histVars>>

\* The give-up is reported from inside Run: reportedDown.
ReportDown(n) ==
  /\ worker[n] = "emitDown"
  /\ Emit("false", n)
  /\ Move(n, "lost")
  /\ down' = [down EXCEPT ![n] = TRUE]
  /\ UNCHANGED <<connVars, cancelled, recoveries, cmd, cmdPc, ended, histVars>>

\* finish(): nothing when disconnect is in charge, else the state is reset.
FinishRun(n) ==
  /\ worker[n] \in {"failed", "lost"}
  /\ IF cancelled[n]
       THEN Move(n, "over") /\ UNCHANGED <<state, client>>
       ELSE /\ Move(n, IF worker[n] = "lost" THEN "closing" ELSE "report")
            /\ state' = "disconnected" /\ client' = 0
  /\ UNCHANGED <<started, closed, current, cancelled, down, recoveries, cmd, cmdPc,
                 outVars, ended, histVars>>

\* finish() closes the client it dropped: the waiting histories fail first ...
CloseClient(n) ==
  /\ worker[n] = "closing"
  /\ hist' = [g \in History |->
                IF hist[g] = "waiting" /\ histSession[g] = n THEN "over" ELSE hist[g]]
  /\ Move(n, "shutting")
  /\ UNCHANGED <<connVars, cancelled, down, recoveries, cmd, cmdPc, outVars, ended, histSession>>

\* ... then the connection is closed.
CloseConnection(n) ==
  /\ worker[n] = "shutting"
  /\ ended' = [ended EXCEPT ![n] = Append(@, "closed")]
  /\ Move(n, IF down[n] THEN "over" ELSE "report")
  /\ UNCHANGED <<connVars, cancelled, down, recoveries, cmd, cmdPc, outVars, histVars>>

\* finish() reports last, after mu is free again: connected="false", or the
\* error of a failed connect.
Report(n) ==
  /\ worker[n] = "report"
  /\ Emit(IF ended[n] = <<>> THEN "error" ELSE "false", n)
  /\ Move(n, "over")
  /\ UNCHANGED <<connVars, cancelled, down, recoveries, cmd, cmdPc, ended, histVars>>

-----------------------------------------------------------------------------
(* The gethistorydata goroutine g *)

\* History registers its collector and sends the request, which may fail and
\* does fail on a connection that was closed.
AskHistory(g) ==
  /\ hist[g] = "asking"
  /\ \E outcome \in {"waiting", "over"} :
       /\ outcome = "waiting" => ended[histSession[g]] = <<>>
       /\ hist' = [hist EXCEPT ![g] = outcome]
  /\ UNCHANGED <<connVars, cancelled, workVars, cmd, cmdPc, outVars, ended, histSession>>

\* The last part arrives with a poll of its session.
PartsArrive(g) ==
  /\ hist[g] = "waiting"
  /\ worker[histSession[g]] = "running"
  /\ hist' = [hist EXCEPT ![g] = "ready"]
  /\ UNCHANGED <<connVars, cancelled, workVars, cmd, cmdPc, outVars, ended, histSession>>

\* onDone drops the candles of a closed connector ...
CheckClosed(g) ==
  /\ hist[g] = "ready"
  /\ hist' = [hist EXCEPT ![g] = IF closed THEN "over" ELSE "emit"]
  /\ UNCHANGED <<connVars, cancelled, workVars, cmd, cmdPc, outVars, ended, histSession>>

\* ... and emits them after the unlock.
EmitCandles(g) ==
  /\ hist[g] = "emit"
  /\ Emit("candles", histSession[g])
  /\ hist' = [hist EXCEPT ![g] = "over"]
  /\ UNCHANGED <<connVars, cancelled, workVars, cmd, cmdPc, ended, histSession>>

-----------------------------------------------------------------------------
Deliver == TakeCallback \/ HandlerReturns
Command == \/ StatusEmit \/ DisconnectCancel \/ DisconnectAwait \/ DisconnectLogout
           \/ DisconnectSay \/ DisconnectDelivered \/ CloseDisconnects
           \/ CloseSettle \/ CloseDrained
Run(n) == \/ OpenFails(n) \/ OpenSucceeds(n) \/ Announce(n)
          \/ ReportRecover(n) \/ ReportRecovered(n) \/ RunCancelled(n)
          \/ RecoveryEnds(n) \/ ReportDown(n) \/ FinishRun(n) \/ CloseClient(n)
          \/ CloseConnection(n) \/ Report(n)
Collect(g) == AskHistory(g) \/ PartsArrive(g) \/ CheckClosed(g) \/ EmitCandles(g)

\* A panic ends the process.
Next ==
  /\ ~panicked
  /\ \/ Start \/ Connect \/ StatusCommand \/ DisconnectCommand \/ CloseCommand
     \/ \E g \in History : RequestHistory(g) \/ Collect(g)
     \/ Deliver \/ Command
     \/ \E n \in Session : Run(n) \/ LinkLost(n) \/ PollFails(n)

Spec == Init /\ [][Next]_vars

\* The goroutines are scheduled, the handler returns, and every network wait of
\* a worker ends: exchanges have timeouts and a recovery has its window.  A Go
\* channel serves its blocked senders in turn: strong fairness for the senders.
Fairness == /\ WF_vars(~panicked /\ Deliver)
            /\ SF_vars(~panicked /\ Command)
            /\ \A n \in Session : SF_vars(~panicked /\ Run(n))
FairSpec == Spec /\ Fairness

-----------------------------------------------------------------------------
(* Properties *)

\* A run between its connect and its finish.
Live(n) == worker[n] \in WorkerPC \ {"none", "closing", "shutting", "report", "over"}

\* Two runs never drive a session at once, and the state is disconnected only
\* when no run would set it again: connect checks the state alone, so finish and
\* disconnect must not reset it while the run they end is still live.
OneLiveSession ==
  /\ \A m, n \in Session : Live(m) /\ Live(n) => m = n
  /\ state = "disconnected" => \A n \in Session : ~Live(n)

\* A client is closed by its lost run or logged out by disconnect, never both,
\* and the connector does not keep a client that was ended.
EndedOnce ==
  \A n \in Session : /\ Len(ended[n]) <= 1
                     /\ ended[n] # <<>> => client # n

\* Both: a session has one run and one end.
SessionsApart == OneLiveSession /\ EndedOnce

\* When Close is done the run of the last connect is over and no callback is
\* under way or still queued ("stops message delivery", the comment of Close).
SilentAfterClose ==
  closed /\ cmd = "none" =>
    /\ LatestOver
    /\ out = <<>> /\ handling = <<>>

\* Every accepted connect is answered: the handler receives a status of that
\* session, whether the login fails, the link is lost or disconnect interrupts
\* it ("connect returns at once and reports the outcome with <server_status>").
ConnectAnswered ==
  \A n \in Session :
    worker[n] = "opening" ~>
      panicked \/ n \in heard

\* A command and Close always let go of cmdMu, although disconnect waits for a
\* worker that may itself be waiting for room in the callback channel.
CommandsEnd == cmd # "none" ~> cmd = "none" \/ panicked

\* Nobody waits for the connector for ever: its user for the answer to a
\* connect, the caller of a command for cmdMu.
ConnectorAnswers == ConnectAnswered /\ CommandsEnd

\* Nobody sends on the channel Close closed: Close waits because "the worker may
\* still be reporting a lost connection".
NoSendOnClosed == ~panicked
=============================================================================
