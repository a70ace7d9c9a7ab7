------------------------------ MODULE TCClient ------------------------------
(***************************************************************************)
(* client: the response stream of a gRPC client (TCClient).                *)
(*                                                                         *)
(* The receive loop pushes every message on an unbounded queue; a          *)
(* dispatcher pops them and sends each on the typed channel of its kind.   *)
(* When the stream ends, the loop closes the queue, closes `shutdown` to   *)
(* unblock the dispatcher, waits for it, closes the portfolio channel and  *)
(* cancels the context.  Close cancels the context at any time.            *)
(*                                                                         *)
(* A message is its number and channel; "nowhere" is the channel of a      *)
(* message that is decoded and not sent.  A <positions> message with united*)
(* limits, which is sent in several parts, counts as that many messages.   *)
(***************************************************************************)
EXTENDS Naturals, Sequences

CONSTANTS Chan,         \* the typed channels
          Portfolio,    \* the one the loop closes
          ChannelBuffer,       \* capacity of a channel
          MaxMessages   \* bound on the messages

ASSUME PortfolioAssumption == Portfolio \in Chan
ASSUME ChannelBufferAssumption == ChannelBuffer \in Nat \ {0}
ASSUME StreamMessagesAssumption == MaxMessages \in Nat

VARIABLES loop,         \* the receive loop
          queue,        \* responseQueue.messages
          queueClosed,
          token,        \* responseQueue.notify holds a signal
          dispatcher,
          dispatching,      \* the message the dispatcher sends
          channel,      \* channel[c]: what is buffered
          updatesClosed,
          shutdown,     \* tc.shutdown is closed
          ctxCancelled,    \* tc.ctx is done
          received,     \* history: the messages pushed, in order
          delivered     \* history: delivered[c], what the application read

queueVars == <<queue, queueClosed, token>>
endVars == <<updatesClosed, shutdown, ctxCancelled>>
historyVars == <<received, delivered>>
clientVars == <<loop, queueVars, dispatcher, dispatching, channel, endVars, historyVars>>

StreamMessage == [id : 1..MaxMessages, to : Chan \cup {"nowhere"}]
Pushed == 1..Len(received)

ClientTypeOK ==
  /\ loop \in {"recv", "push", "signal", "close", "release", "join", "cancel", "over"}
  /\ queue \in Seq(StreamMessage) /\ Len(queue) <= Len(received)
  /\ queueClosed \in BOOLEAN /\ token \in BOOLEAN
  /\ dispatcher \in {"look", "wait", "send", "done"}
  /\ dispatching \in Seq(StreamMessage) /\ (Len(dispatching) = 1 <=> dispatcher = "send")
  /\ channel \in [Chan -> Seq(StreamMessage)] /\ \A c \in Chan : Len(channel[c]) <= ChannelBuffer
  /\ updatesClosed \in BOOLEAN /\ shutdown \in BOOLEAN /\ ctxCancelled \in BOOLEAN
  /\ received \in Seq(StreamMessage) /\ Len(received) <= MaxMessages
  /\ delivered \in [Chan -> Seq(StreamMessage)]

ClientInit ==
  /\ loop = "recv"
  /\ queue = <<>> /\ queueClosed = FALSE /\ token = FALSE
  /\ dispatcher = "look" /\ dispatching = <<>>
  /\ channel = [c \in Chan |-> <<>>]
  /\ updatesClosed = FALSE /\ shutdown = FALSE /\ ctxCancelled = FALSE
  /\ received = <<>> /\ delivered = [c \in Chan |-> <<>>]

-----------------------------------------------------------------------------
(* loopReadingFromStream *)

\* stream.Recv returns a message ...
Recv ==
  /\ loop = "recv" /\ ~ctxCancelled
  /\ Len(received) < MaxMessages
  /\ loop' = "push"
  /\ UNCHANGED <<queueVars, dispatcher, dispatching, channel, endVars, historyVars>>

\* ... which is queued ...
Push ==
  /\ loop = "push"
  /\ \E to \in Chan \cup {"nowhere"} :
       LET message == [id |-> Len(received) + 1, to |-> to]
       IN /\ queue' = Append(queue, message)
          /\ received' = Append(received, message)
  /\ loop' = "signal"
  /\ UNCHANGED <<queueClosed, token, dispatcher, dispatching, channel, endVars, delivered>>

\* Faulty: the signal is sent only while the queue is not empty.
SignalBacklog ==
  /\ loop = "signal"
  /\ token' = (token \/ Len(queue) > 1)
  /\ loop' = "recv"
  /\ UNCHANGED <<queue, queueClosed, dispatcher, dispatching, channel, endVars, historyVars>>

\* ... and signalled after the unlock.
SignalPush ==
  /\ loop = "signal"
  /\ token' = TRUE
  /\ loop' = "recv"
  /\ UNCHANGED <<queue, queueClosed, dispatcher, dispatching, channel, endVars, historyVars>>

\* The stream ends: EOF, a transport error, or the context is cancelled.
StreamEnds ==
  /\ loop = "recv"
  /\ loop' = "close"
  /\ UNCHANGED <<queueVars, dispatcher, dispatching, channel, endVars, historyVars>>

CloseQueue ==
  /\ loop = "close"
  /\ queueClosed' = TRUE /\ token' = TRUE
  /\ loop' = "release"
  /\ UNCHANGED <<queue, dispatcher, dispatching, channel, endVars, historyVars>>

\* closeShutdown.
Release ==
  /\ loop = "release"
  /\ shutdown' = TRUE
  /\ loop' = "join"
  /\ UNCHANGED <<queueVars, dispatcher, dispatching, channel, updatesClosed, ctxCancelled, historyVars>>

\* <-processed, and closePortfolioUpdates.
Join ==
  /\ loop = "join" /\ dispatcher = "done"
  /\ updatesClosed' = TRUE
  /\ loop' = "cancel"
  /\ UNCHANGED <<queueVars, dispatcher, dispatching, channel, shutdown, ctxCancelled, historyVars>>

\* cancelContext and signalShutdown.
EndSession ==
  /\ loop = "cancel"
  /\ ctxCancelled' = TRUE
  /\ loop' = "over"
  /\ UNCHANGED <<queueVars, dispatcher, dispatching, channel, updatesClosed, shutdown, historyVars>>

-----------------------------------------------------------------------------
(* The dispatcher: queue.pop and handleMessage *)

\* A message is taken.  The context, looked at before the lock, may be done by now.
Pop ==
  /\ dispatcher = "look" /\ queue # <<>>
  /\ queue' = Tail(queue)
  /\ IF Head(queue).to = "nowhere"
       THEN UNCHANGED <<dispatcher, dispatching>>
       ELSE dispatcher' = "send" /\ dispatching' = <<Head(queue)>>
  /\ UNCHANGED <<loop, queueClosed, token, channel, endVars, historyVars>>

\* The queue is empty: the dispatcher waits, unless it is closed.
PopEmpty ==
  /\ dispatcher = "look" /\ queue = <<>>
  /\ dispatcher' = IF queueClosed THEN "done" ELSE "wait"
  /\ UNCHANGED <<loop, queueVars, dispatching, channel, endVars, historyVars>>

Woken ==
  /\ dispatcher = "wait" /\ token
  /\ token' = FALSE
  /\ dispatcher' = "look"
  /\ UNCHANGED <<loop, queue, queueClosed, dispatching, channel, endVars, historyVars>>

PopCancelled ==
  /\ dispatcher \in {"look", "wait"} /\ ctxCancelled
  /\ dispatcher' = "done"
  /\ UNCHANGED <<loop, queueVars, dispatching, channel, endVars, historyVars>>

Room(c) == Len(channel[c]) < ChannelBuffer

\* sendTyped delivers.
SendTyped ==
  /\ dispatcher = "send" /\ Room(dispatching[1].to)
  /\ channel' = [channel EXCEPT ![dispatching[1].to] = Append(@, dispatching[1])]
  /\ dispatcher' = "look" /\ dispatching' = <<>>
  /\ UNCHANGED <<loop, queueVars, endVars, historyVars>>

GiveUpWhen(given) ==
  /\ dispatcher = "send" /\ given
  /\ dispatcher' = "look" /\ dispatching' = <<>>
  /\ UNCHANGED <<loop, queueVars, channel, endVars, historyVars>>

\* Faulty: a full channel loses the message.
GiveUpFull == GiveUpWhen(ctxCancelled \/ shutdown \/ ~Room(dispatching[1].to))

\* sendTyped gives up: its select takes any case that is ready, room or not.
GiveUp == GiveUpWhen(ctxCancelled \/ shutdown)

Dispatch == Pop \/ PopEmpty \/ Woken \/ PopCancelled \/ SendTyped \/ GiveUp

-----------------------------------------------------------------------------
(* The application *)

AppReads(c) ==
  /\ channel[c] # <<>>
  /\ channel' = [channel EXCEPT ![c] = Tail(@)]
  /\ delivered' = [delivered EXCEPT ![c] = Append(@, Head(channel[c]))]
  /\ UNCHANGED <<loop, queueVars, dispatcher, dispatching, endVars, received>>

AppCloses ==
  /\ ~ctxCancelled
  /\ ctxCancelled' = TRUE
  /\ UNCHANGED <<loop, queueVars, dispatcher, dispatching, channel, updatesClosed, shutdown, historyVars>>

LoopStep == Push \/ SignalPush \/ CloseQueue \/ Release \/ Join \/ EndSession

ClientNext ==
  \/ Recv \/ StreamEnds \/ LoopStep
  \/ Dispatch
  \/ \E c \in Chan : AppReads(c)
  \/ AppCloses

\* The goroutines run; a stream whose context is cancelled ends.
ClientFairness ==
  WF_clientVars(LoopStep) /\ WF_clientVars(Dispatch) /\ WF_clientVars(ctxCancelled /\ StreamEnds)

ClientSpec == ClientInit /\ [][ClientNext]_clientVars
ClientFairSpec == ClientSpec /\ ClientFairness

-----------------------------------------------------------------------------
(* Properties *)

Holds(sequence, message) == \E k \in 1..Len(sequence) : sequence[k] = message
Out(c) == delivered[c] \o channel[c]

\* A channel carries messages of its kind in the order the stream brought them,
\* none twice, at the end of the stream and after Close too.
InOrder ==
  \A c \in Chan :
    /\ \A k \in 1..Len(Out(c)) : Out(c)[k].to = c /\ Holds(received, Out(c)[k])
    /\ \A i, j \in 1..Len(Out(c)) : i < j => Out(c)[i].id < Out(c)[j].id

\* While the session lives nothing is lost, however slow the application is.
NothingLost ==
  ~shutdown /\ ~ctxCancelled =>
    \A i \in 1..Len(received) :
      LET message == received[i]
      IN  message.to # "nowhere" => Holds(Out(message.to) \o dispatching \o queue, message)

\* Both: a channel is the run of its messages.
Delivered == InOrder /\ NothingLost

\* The backlog is worked off, unless the application lets a channel stay full for
\* ever: no wake-up is lost, whatever push and pop interleave.
Dispatched == (\A c \in Chan : []<>Room(c)) => []<>(queue = <<>> \/ dispatcher = "done")

\* When the stream ends the session ends, whether the application reads or not.
SessionEnds == loop = "close" ~> loop = "over"

\* Both: the stream is neither stuck nor left behind.
StreamGoesOn == Dispatched /\ SessionEnds
=============================================================================
