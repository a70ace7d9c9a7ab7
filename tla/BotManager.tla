----------------------------- MODULE BotManager -----------------------------
(***************************************************************************)
(* terminal/bot: the runs of one bot of the Manager on its paper account.  *)
(*                                                                         *)
(* Start opens a run: a context, a closed-bar stream and a goroutine that  *)
(* consumes it.  state.mu guards the bot, but Start subscribes after the   *)
(* unlock, Stop cancels after the unlock, and an order is decided, checked *)
(* and placed in three steps without it.                                   *)
(*                                                                         *)
(* Bars are their times; what a rule decides on a bar is free.  Quantities *)
(* are counted in units of Bot.Qty, and the position is that of the bot's  *)
(* account in the paper broker (PaperBroker.tla has the whole broker).     *)
(* The journal, Check and the other bots touch nothing of this; Close and  *)
(* StopAll are Stop.                                                       *)
(***************************************************************************)
EXTENDS Naturals, Sequences

CONSTANTS MaxStarts,      \* bound on the runs
          MaxBars,        \* bound on the bars
          Buffered,       \* bars the stream's channel holds
          HistoryLimit    \* barHistoryLimit

ASSUME StartsAssumption == MaxStarts \in Nat
ASSUME BarsAssumption == MaxBars \in Nat
ASSUME BufferedAssumption == Buffered \in Nat \ {0}
ASSUME HistoryAssumption == HistoryLimit \in Nat \ {0}

Run == 1..MaxStarts
Bar == 1..MaxBars
Stage == {"check", "dry_run", "paper", "stopped"}
Runnable == {"dry_run", "paper"}
Signal == {"none", "entry", "exit"}

VARIABLES stage, running,
          cancel,       \* the run state.cancel ends, 0 when it is nil
          bars,         \* the replay window
          lastBar,      \* 0: the zero time
          paperFunded,
          starts,       \* runs so far
          phase,        \* phase[r]: where the run's goroutine is
          cancelling,   \* runs Stop took and is about to cancel, or has
          done,         \* runs whose context is cancelled
          sent,         \* sent[r]: last bar of the run's stream
          stream,       \* stream[r]: its buffered bars
          decision,     \* decision[r]: the signal being executed
          position,
          clientOrderIDs,  \* the bars the account has orders for
          orders        \* history: the bars of the orders, in order

stageVars == <<stage, running, cancel, paperFunded, starts>>
windowVars == <<bars, lastBar>>
streamVars == <<sent, stream>>
accountVars == <<position, clientOrderIDs, orders>>
botVars == <<stageVars, windowVars, phase, cancelling, done, streamVars, decision, accountVars>>

NoDecision == [bar |-> 0, signal |-> "none"]

BotTypeOK ==
  /\ stage \in Stage /\ running \in BOOLEAN /\ (running => stage \in Runnable)
  /\ cancel \in 0..starts /\ starts \in 0..MaxStarts
  /\ bars \in Seq(Bar) /\ Len(bars) <= HistoryLimit
  /\ lastBar \in 0..MaxBars
  /\ paperFunded \in BOOLEAN /\ (stage = "paper" => paperFunded)
  /\ phase \in [Run -> {"none", "subscribing", "consuming", "deciding", "placing", "ended", "failed"}]
  /\ \A r \in Run : r <= starts <=> phase[r] # "none"
  /\ cancelling \subseteq Run /\ done \subseteq Run
  /\ sent \in [Run -> 0..MaxBars]
  /\ stream \in [Run -> Seq(Bar)] /\ \A r \in Run : Len(stream[r]) <= Buffered
  /\ decision \in [Run -> [bar : 0..MaxBars, signal : Signal]]
  /\ position \in Nat
  /\ clientOrderIDs \subseteq Bar /\ orders \in Seq(Bar)

BotInit ==
  /\ stage = "check" /\ running = FALSE /\ cancel = 0
  /\ bars = <<>> /\ lastBar = 0
  /\ paperFunded = FALSE /\ starts = 0
  /\ phase = [r \in Run |-> "none"]
  /\ cancelling = {} /\ done = {}
  /\ sent = [r \in Run |-> 0] /\ stream = [r \in Run |-> <<>>]
  /\ decision = [r \in Run |-> NoDecision]
  /\ position = 0 /\ clientOrderIDs = {} /\ orders = <<>>

-----------------------------------------------------------------------------
(* Manager.Start, Promote, Stop *)

TransitionAllowed(from, to) ==
  \/ from = to
  \/ to = "dry_run" /\ from \in {"check", "stopped"}
  \/ to = "paper" /\ from \in {"check", "dry_run", "stopped"}

\* Up to the unlock; a bot that runs, or an account that cannot be funded,
\* changes nothing.
StartRun(to) ==
  /\ ~running /\ TransitionAllowed(stage, to)
  /\ starts < MaxStarts
  /\ starts' = starts + 1
  /\ paperFunded' = (paperFunded \/ to = "paper")
  /\ cancel' = starts + 1 /\ running' = TRUE /\ stage' = to
  /\ bars' = <<>> /\ lastBar' = 0
  /\ phase' = [phase EXCEPT ![starts + 1] = "subscribing"]
  /\ UNCHANGED <<cancelling, done, streamVars, decision, accountVars>>

SubscribeSucceeds(r) ==
  /\ phase[r] = "subscribing"
  /\ phase' = [phase EXCEPT ![r] = "consuming"]
  /\ UNCHANGED <<stageVars, windowVars, cancelling, done, streamVars, decision, accountVars>>

SubscribeFails(r) ==
  /\ phase[r] = "subscribing"
  /\ phase' = [phase EXCEPT ![r] = "failed"]
  /\ done' = done \cup {r}
  /\ running' = FALSE /\ cancel' = 0 /\ stage' = "stopped"
  /\ UNCHANGED <<starts, paperFunded, windowVars, cancelling, streamVars, decision, accountVars>>

\* Promotion to dry-run; promotion to paper only proposes.
Promote ==
  /\ TransitionAllowed(stage, "dry_run")
  /\ stage' = "dry_run"
  /\ UNCHANGED <<running, cancel, paperFunded, starts, windowVars, phase, cancelling, done,
                 streamVars, decision, accountVars>>

StopTaking(taken, left) ==
  /\ cancel' = 0 /\ running' = FALSE /\ stage' = left
  /\ cancelling' = cancelling \cup (taken \ {0})
  /\ bars' = <<>> /\ lastBar' = 0
  /\ UNCHANGED <<paperFunded, starts, phase, done, streamVars, decision, accountVars>>

\* Faulty: state.cancel is cleared before it is read.
StopForgets == StopTaking({}, "stopped")

Stop == StopTaking({cancel}, "stopped")

\* Faulty: the cancel function is never called.
CancelNothing(r) == r \in cancelling /\ UNCHANGED botVars

\* ... and, after the unlock, the cancellation.
CancelRun(r) ==
  /\ r \in cancelling \ done
  /\ done' = done \cup {r}
  /\ UNCHANGED <<stageVars, windowVars, phase, cancelling, streamVars, decision, accountVars>>

-----------------------------------------------------------------------------
(* The stream and the goroutine of a run *)

\* SubscribeClosedBars: bars once and in order, from where the subscription began.
Emit(r) ==
  /\ phase[r] \in {"consuming", "deciding", "placing"} /\ r \notin done
  /\ Len(stream[r]) < Buffered
  /\ \E t \in (sent[r] + 1)..MaxBars :
       /\ sent' = [sent EXCEPT ![r] = t]
       /\ stream' = [stream EXCEPT ![r] = Append(@, t)]
  /\ UNCHANGED <<stageVars, windowVars, phase, cancelling, done, decision, accountVars>>

\* consume returns: its context is cancelled (the stream closes then, too).
ConsumeEnds(r) ==
  /\ phase[r] = "consuming" /\ r \in done
  /\ phase' = [phase EXCEPT ![r] = "ended"]
  /\ UNCHANGED <<stageVars, windowVars, cancelling, done, streamVars, decision, accountVars>>

Repeated(t) == lastBar # 0 /\ t <= lastBar
Trimmed(window) ==
  IF Len(window) > HistoryLimit THEN SubSeq(window, Len(window) - HistoryLimit + 1, Len(window))
  ELSE window

\* handleBar under state.mu, for a bar that is not `dropped`, with the window
\* `kept` after it: on paper a signal goes on to executePaper.
HandleKeeping(r, dropped, kept) ==
  /\ phase[r] = "consuming" /\ stream[r] # <<>>
  /\ stream' = [stream EXCEPT ![r] = Tail(@)]
  /\ LET t == Head(stream[r])
     IN \/ /\ dropped
           /\ UNCHANGED <<windowVars, phase, decision>>
        \/ /\ ~dropped
           /\ bars' = kept /\ lastBar' = t
           /\ \E signal \in Signal :
                IF signal # "none" /\ stage = "paper"
                  THEN /\ phase' = [phase EXCEPT ![r] = "deciding"]
                       /\ decision' = [decision EXCEPT ![r] = [bar |-> t, signal |-> signal]]
                  ELSE UNCHANGED <<phase, decision>>
  /\ UNCHANGED <<stageVars, cancelling, done, sent, accountVars>>

\* Faulty: the bars already replayed are taken again.
HandleRepeats(r) == HandleKeeping(r, FALSE, Trimmed(Append(bars, Head(stream[r]))))

HandleBar(r) ==
  HandleKeeping(r, Repeated(Head(stream[r])), Trimmed(Append(bars, Head(stream[r]))))

\* executePaper reads the account: an entry needs a flat one, and the risk limits
\* may refuse it.
ReadAccount(r) ==
  /\ phase[r] = "deciding"
  /\ \/ /\ IF decision[r].signal = "entry" THEN position = 0 ELSE position > 0
        /\ phase' = [phase EXCEPT ![r] = "placing"]
     \/ /\ decision[r].signal = "entry" \/ position = 0
        /\ phase' = [phase EXCEPT ![r] = "consuming"]
  /\ UNCHANGED <<stageVars, windowVars, cancelling, done, streamVars, decision, accountVars>>

\* ... and PlaceAt takes the order under the bar's client order id.  The broker
\* may lack the cash for a purchase and never sells short.
PlaceAt(r) ==
  LET refused == decision[r].bar \in clientOrderIDs
  IN  /\ phase[r] = "placing"
      /\ phase' = [phase EXCEPT ![r] = "consuming"]
      /\ \/ refused /\ UNCHANGED accountVars
         \/ /\ ~refused
            /\ clientOrderIDs' = clientOrderIDs \cup {decision[r].bar}
            /\ orders' = Append(orders, decision[r].bar)
            /\ \/ decision[r].signal = "entry" /\ position' = position + 1
               \/ decision[r].signal = "exit" /\ position > 0 /\ position' = position - 1
               \/ (decision[r].signal = "entry" \/ position = 0) /\ position' = position
      /\ UNCHANGED <<stageVars, windowVars, cancelling, done, streamVars, decision>>

Consume(r) == ConsumeEnds(r) \/ HandleBar(r) \/ ReadAccount(r) \/ PlaceAt(r)

BotNext ==
  \/ \E to \in Runnable : StartRun(to)
  \/ Promote \/ Stop
  \/ \E r \in Run : \/ SubscribeSucceeds(r) \/ SubscribeFails(r) \/ CancelRun(r)
                    \/ Emit(r) \/ Consume(r)

\* Goroutines run; nobody has to start or stop a bot, and bars need not come.
BotFairness ==
  \A r \in Run : /\ WF_botVars(SubscribeSucceeds(r) \/ SubscribeFails(r))
                 /\ WF_botVars(CancelRun(r)) /\ WF_botVars(Consume(r))

BotSpec == BotInit /\ [][BotNext]_botVars
BotFairSpec == BotSpec /\ BotFairness

-----------------------------------------------------------------------------
(* Properties *)

\* The replay window never repeats a bar or goes back, whichever runs feed it,
\* and ends with lastBar ("backfills the missed bars and never replays a duplicate").
WindowInOrder ==
  /\ \A i, j \in 1..Len(bars) : i < j => bars[i] < bars[j]
  /\ lastBar = IF bars = <<>> THEN 0 ELSE bars[Len(bars)]

\* A bar has one order at most, over every run and restart of the bot.
OneOrderPerBar == \A i, j \in 1..Len(orders) : i # j => orders[i] # orders[j]

\* Both: a bar is replayed once and traded once.
BarsOnce == WindowInOrder /\ OneOrderPerBar

\* A run that is not over is the one the next Stop ends, or is being ended: the
\* kill-switch reaches every run ("StopAll is the kill-switch of every bot").
Over(r) == phase[r] \in {"ended", "failed"}
Controlled == \A r \in 1..starts : ~Over(r) => r = cancel \/ r \in cancelling

\* The kill-switch reaches every run as long as no subscription has failed: the
\* failure path of Start takes the bot's cancel for its own.
ControlledUntilFailure == (\A r \in Run : phase[r] # "failed") => Controlled

\* A run Stop took ends.
StopEnds == \A r \in Run : r \in cancelling ~> Over(r)
=============================================================================
