----------------------------- MODULE ClosedBars -----------------------------
(***************************************************************************)
(* terminal/feed/live.go: the stream of closed candles a bot subscribes    *)
(* to.  Quotes, connection changes and a timer make the producer ask the   *)
(* exchange for the last candles of the series; it sends those that have   *)
(* closed since the last one it sent.                                      *)
(*                                                                         *)
(* Time is counted in candle intervals: `clock` is the interval that       *)
(* contains now and a candle is the interval it covers.  An interval       *)
(* without trades has no candle.  A quote carries the interval in which it *)
(* was received, and waits in a queue while the producer is busy.  The     *)
(* session and its history requests are the environment: a request is      *)
(* answered, or it fails.                                                  *)
(***************************************************************************)
EXTENDS Naturals, Sequences, FiniteSets, FiniteSetsExt

CONSTANTS End,      \* bound: the last interval
          Traded,   \* the intervals with trades
          MinCount, \* candles asked for when few were missed (4)
          MaxCount, \* and at most (500)
          Outages,  \* bound on the sessions that fail
          Queue     \* capacity of the producer's event queue (64)

ASSUME EndAssumption == End \in Nat \ {0}
ASSUME TradedAssumption == Traded \subseteq 1..End
ASSUME CountAssumption == MinCount \in Nat /\ MaxCount \in Nat /\ MinCount <= MaxCount
ASSUME OutagesAssumption == Outages \in Nat
ASSUME QueueAssumption == Queue \in Nat \ {0}

VARIABLES clock,     \* the current interval
          online,    \* the session with the exchange works
          outages,   \* sessions that failed
          events,    \* the producer's queue
          producer,  \* where the producer is
          last,      \* the last candle sent, 0 for none
          cutoff,    \* candles before it are closed: the time this emit is for
          asked,     \* the time it began
          closed,    \* candles this emit still has to send
          connected, \* what the producer believes
          timer,     \* the interval at whose start the timer fires
          ctxDone,   \* the subscription is cancelled
          emitted,   \* history: the candle taken as sent, then those sent
          late       \* history: a reply reached beyond what was asked for

barVars == <<clock, online, outages, events, producer, last, cutoff, asked, closed, connected,
             timer, ctxDone, emitted, late>>

Event == [type : {"quote"}, at : 1..End] \cup [type : {"status"}, connected : BOOLEAN]

BarsTypeOK ==
  /\ clock \in 1..End /\ outages \in 0..Outages /\ timer \in 0..End
  /\ {online, connected, ctxDone, late} \subseteq BOOLEAN
  /\ events \in Seq(Event) /\ Len(events) <= Queue
  /\ producer \in {"seed", "select", "emit", "send", "ended"}
  /\ {last, asked, cutoff} \subseteq 0..End
  /\ closed \subseteq Traded
  /\ emitted \in Seq(Traded)

BarsInit ==
  /\ clock \in 1..End /\ timer = clock
  /\ online \in BOOLEAN /\ outages = 0
  /\ events = <<>> /\ producer = "seed" /\ last = 0 /\ cutoff = 0 /\ asked = 0 /\ closed = {}
  /\ connected = FALSE /\ ctxDone = FALSE /\ emitted = <<>> /\ late = FALSE

-----------------------------------------------------------------------------
(* The market and the session *)

Push(ev) == events' = IF Len(events) < Queue THEN Append(events, ev) ELSE events

\* A request ends within its timeout, which is shorter than an interval.
Tick ==
  /\ clock < End
  /\ producer = "emit" => clock = asked
  /\ clock' = clock + 1
  /\ UNCHANGED <<online, outages, events, producer, last, cutoff, asked, closed, connected, timer,
                 ctxDone, emitted, late>>

\* A quote is published to the producer; a full queue drops it.
Quote ==
  /\ online /\ clock \in Traded /\ producer # "ended"
  /\ Push([type |-> "quote", at |-> clock])
  /\ UNCHANGED <<clock, online, outages, producer, last, cutoff, asked, closed, connected, timer,
                 ctxDone, emitted, late>>

\* setSessionState, when the session fails or is back.
SessionChanges ==
  /\ producer # "ended"
  /\ online' = ~online
  /\ IF online THEN outages < Outages /\ outages' = outages + 1 ELSE UNCHANGED outages
  /\ Push([type |-> "status", connected |-> ~online])
  /\ UNCHANGED <<clock, producer, last, cutoff, asked, closed, connected, timer,
                 ctxDone, emitted, late>>

Unsubscribe ==
  /\ ~ctxDone
  /\ ctxDone' = TRUE
  /\ UNCHANGED <<clock, online, outages, events, producer, last, cutoff, asked, closed, connected, timer, emitted, late>>

-----------------------------------------------------------------------------
(* History requests *)

\* The last n candles when the exchange has published those up to h.
Newest(n, h) == {b \in Traded : b <= h /\ Cardinality({x \in Traded : b <= x /\ x <= h}) <= n}

\* The candle of the current interval is there or not, and the one before may
\* be published late.
Published == {h \in 0..clock : h >= clock - 2}

\* Faulty: the candles missed while the stream was away are not counted.
CountFixed == MinCount

\* emit: as many candles as intervals passed since the last one, and two more.
CountMissed ==
  LET missed == IF last # 0 /\ cutoff > last THEN cutoff - last + 2 ELSE 0
  IN  Min({Max({MinCount, missed}), MaxCount})

-----------------------------------------------------------------------------
(* streamClosedBars *)

NextClose == IF clock < End THEN clock + 1 ELSE End

\* The newest of some closed candles stands for all that came before.
TakeNewest(candles) ==
  IF candles = {} THEN UNCHANGED <<last, emitted>>
  ELSE last' = Max(candles) /\ emitted' = <<Max(candles)>>

\* The newest candle already closed is taken as sent; without history, none.
Seed ==
  /\ producer = "seed"
  /\ producer' = "select"
  /\ timer' = NextClose
  /\ \/ \E h \in Published :
          LET candles == {b \in Newest(3, h) : b < clock}
          IN  online /\ TakeNewest(candles)
     \/ UNCHANGED <<last, emitted>>
  /\ UNCHANGED <<clock, online, outages, events, cutoff, asked, closed, connected, ctxDone, late>>

EmitAt(now) == cutoff' = now /\ asked' = clock /\ producer' = "emit"

\* The timer of the interval boundary and its grace; 0 until it is set anew.
TimerFires ==
  /\ producer = "select"
  /\ timer # 0 /\ clock >= timer
  /\ timer' = 0
  /\ EmitAt(clock)
  /\ UNCHANGED <<clock, online, outages, events, last, closed, connected, ctxDone, emitted, late>>

\* A status: a reconnection backfills.  A quote: one of a later interval than
\* the last candle emits.
TakeEvent ==
  /\ producer = "select"
  /\ events # <<>>
  /\ events' = Tail(events)
  /\ LET ev == Head(events)
     IN  IF ev.type = "status"
           THEN /\ connected' = ev.connected
                /\ IF ev.connected /\ ~connected THEN EmitAt(clock) ELSE UNCHANGED <<cutoff, asked, producer>>
           ELSE /\ IF ev.at > last THEN EmitAt(ev.at) ELSE UNCHANGED <<cutoff, asked, producer>>
                /\ UNCHANGED connected
  /\ UNCHANGED <<clock, online, outages, last, closed, timer, ctxDone, emitted, late>>

\* Faulty: the timer is not set again.
EmitUntimed == producer' = "select" /\ UNCHANGED timer

\* After an emit the timer that caused it is set for the next boundary.
EmitDone ==
  /\ producer' = "select"
  /\ timer' = IF timer = 0 THEN NextClose ELSE timer

\* The reply to a request for n candles: without a last candle the newest
\* closed one becomes it; else the closed candles after it are to be sent.
Reply(n, h) ==
  LET candles == {b \in Newest(n, h) : b < cutoff}
      due == {b \in candles : b > last}
  IN  /\ producer = "emit"
      /\ online
      /\ IF last = 0
           THEN /\ TakeNewest(candles)
                /\ EmitDone
                /\ UNCHANGED <<closed, late>>
           ELSE /\ closed' = due
                /\ late' = (late \/ h > cutoff + 2 \/ (cutoff > last /\ cutoff - last + 2 > MaxCount))
                /\ IF due = {} THEN EmitDone ELSE producer' = "send" /\ UNCHANGED timer
                /\ UNCHANGED <<last, emitted>>
      /\ UNCHANGED <<clock, online, outages, events, cutoff, asked, connected, ctxDone>>

History == \E h \in Published : Reply(CountMissed, h)
HistoryInTime == \E h \in Published : h >= clock - 1 /\ Reply(CountMissed, h)

\* No session, another request of the series in flight, or a timeout.
HistoryFails ==
  /\ producer = "emit"
  /\ EmitDone
  /\ UNCHANGED <<clock, online, outages, events, last, cutoff, asked, closed, connected, ctxDone, emitted, late>>

\* A candle is handed to the bot, oldest first; the channel has room.
Send ==
  /\ producer = "send"
  /\ LET bar == Min(closed)
     IN  /\ emitted' = Append(emitted, bar)
         /\ last' = bar
         /\ closed' = closed \ {bar}
         /\ IF closed = {bar} THEN EmitDone ELSE UNCHANGED <<producer, timer>>
  /\ UNCHANGED <<clock, online, outages, events, cutoff, asked, connected, ctxDone, late>>

\* The context is done, at the loop's head or in a send.
StreamEnds ==
  /\ ctxDone
  /\ producer \in {"select", "send"}
  /\ producer' = "ended"
  /\ UNCHANGED <<clock, online, outages, events, last, cutoff, asked, closed, connected, timer,
                 ctxDone, emitted, late>>

ProducerStep == Seed \/ TimerFires \/ TakeEvent \/ History \/ HistoryFails \/ Send \/ StreamEnds

BarsNext == Tick \/ Quote \/ SessionChanges \/ Unsubscribe \/ ProducerStep

\* Time goes on; the producer runs; the exchange answers again and again while
\* the session is there; a session that failed comes back.
BarsFairness ==
  /\ WF_barVars(Tick)
  /\ WF_barVars(Seed \/ TakeEvent \/ Send)
  /\ SF_barVars(TimerFires)
  /\ SF_barVars(HistoryInTime)
  /\ WF_barVars(HistoryFails)
  /\ WF_barVars(SessionChanges /\ ~online)

BarsSpec == BarsInit /\ [][BarsNext]_barVars /\ BarsFairness

-----------------------------------------------------------------------------
(* Properties *)

Contiguous ==
  \A i \in 1..Len(emitted) - 1 :
    \A b \in Traded : ~(emitted[i] < b /\ b < emitted[i + 1])

\* Candles come in order and none twice, and none is left out as long as the
\* exchange answers within two intervals of the quote or the timer that made
\* the producer ask, whatever was dropped, lost or reconnected meanwhile.
InOrderAndComplete ==
  /\ \A i \in 1..Len(emitted) - 1 : emitted[i] < emitted[i + 1]
  /\ ~late => Contiguous

\* "It streams the closed candles of one series exactly once, in order ...
\* after a reconnect the missed bars are backfilled from the history without
\* duplicates" (SubscribeClosedBars).
Backfilled == Contiguous

\* A closed candle reaches the bot or was passed by: no loss of quotes or
\* sessions makes the stream stand still before it.
CandlesArrive ==
  \A b \in Traded :
    (b < clock /\ b > last /\ last # 0) ~> (last >= b \/ ctxDone)
=============================================================================
