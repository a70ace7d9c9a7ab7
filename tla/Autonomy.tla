------------------------------ MODULE Autonomy ------------------------------
(***************************************************************************)
(* terminal/agent/autonomy.go: the paper replay runner of the agent, over  *)
(* the paper broker.  A run replays Bars on the account `AutoAccount`: it  *)
(* fills on the open of a bar what it decided on the close of the one      *)
(* before, and ends by itself, by the kill-switch, or by its daily-loss    *)
(* limit.                                                                  *)
(*                                                                         *)
(* Only the run that is `running` trades on AutoAccount, and Allocate pays *)
(* into it only when no run is; so what a run reads of the account and the *)
(* order it places on it are one step, a call of the broker.  What the     *)
(* strategy decides is free.  Percentages are compared without rounding;   *)
(* log lines, PnL reports and the clamps of the config other than that of  *)
(* the budget are left out.                                                *)
(***************************************************************************)
EXTENDS PaperBroker, Sums, FiniteSets, FiniteSetsExt

CONSTANTS AutoAccount,      \* autonomyAccount
          Asset,            \* the symbol a run trades
          Bars,             \* the replayed history: open, close, trading day
          MaxRuns,          \* bound on the runs started
          MaxOrderPct, MaxPositionPct, StopLossPct, TakeProfitPct, DailyLossPct,
          MaxTradesPerHour, \* Config.Risk
          BarsPerHour       \* bars in an hour of the history

Bar == [open : Nat \ {0}, close : Nat \ {0}, day : Nat]

ASSUME AutoAssumption == AutoAccount \in SubAccount /\ Asset \in Symbol
ASSUME BarsAssumption == Bars \in Seq(Bar) /\ Len(Bars) >= 2
ASSUME MaxRunsAssumption == MaxRuns \in Nat
ASSUME RiskAssumption ==
  /\ {MaxOrderPct, MaxPositionPct, StopLossPct, TakeProfitPct, DailyLossPct} \subseteq Nat \ {0}
  /\ {MaxTradesPerHour, BarsPerHour} \subseteq Nat \ {0}

VARIABLES autonomy, \* Engine.autonomy: the last run started, 0 for none
          phase,    \* where the goroutine of a run is
          running,  \* its status.Running
          stop,     \* its stop channel is closed
          bar,      \* loop variable i
          pending,  \* the decision to fill on the next open
          day,      \* the trading day the daily loss is measured in
          dayStart, \* equity at its start
          sold,     \* tradeTimes: the bars whose open closed a position
          kind,     \* stopKind
          budget    \* history: what Allocate moved for the run

runVars == <<autonomy, phase, running, stop, bar, pending, day, dayStart, sold, kind, budget>>
brokerVars == <<opened, accounts, orders, trades, clientOrderIDs, quote, cursor, allocated>>

Run == 1..MaxRuns
Action == {"hold", "buy", "sell"}
Phase == {"none", "fill", "decide", "wait", "end", "exit", "gone"}
Kind == {"finished", "stop", "stopped_by_risk"}

AutonomyTypeOK ==
  /\ autonomy \in 0..MaxRuns
  /\ phase \in [Run -> Phase]
  /\ running \in [Run -> BOOLEAN]
  /\ stop \in [Run -> BOOLEAN]
  /\ bar \in [Run -> Nat]
  /\ pending \in [Run -> Action]
  /\ day \in [Run -> Nat]
  /\ dayStart \in [Run -> Int]
  /\ sold \in [Run -> SUBSET Nat]
  /\ kind \in [Run -> Kind]
  /\ budget \in [Run -> Nat]

AutonomyInit ==
  /\ autonomy = 0
  /\ phase = [r \in Run |-> "none"]
  /\ running = [r \in Run |-> FALSE]
  /\ stop = [r \in Run |-> FALSE]
  /\ bar = [r \in Run |-> 1]
  /\ pending = [r \in Run |-> "hold"]
  /\ day = [r \in Run |-> Bars[1].day]
  /\ dayStart = [r \in Run |-> 0]
  /\ sold = [r \in Run |-> {}]
  /\ kind = [r \in Run |-> "finished"]
  /\ budget = [r \in Run |-> 0]

-----------------------------------------------------------------------------
(* The account as the run sees it *)

Qty == accounts[AutoAccount].positions[Asset].qty

\* autonomyEquityAt: every position is valued at the one price.
EquityAt(acc, price) ==
  acc.cash + price * Unit * MapThenSumSet(LAMBDA s : acc.positions[s].qty, Symbol)

\* The return of the position, (close - avg) / avg * 100, against a limit.
LossReached(acc, close) ==
  LET avg == acc.positions[Asset].avg
  IN  (close * avg[2] - avg[1]) * 100 <= -(StopLossPct * avg[1])
GainReached(acc, close) ==
  LET avg == acc.positions[Asset].avg
  IN  (close * avg[2] - avg[1]) * 100 >= TakeProfitPct * avg[1]

\* autonomyBuy: what the limits of the order and of the position leave of the cash.
EntryQty(cash, price) ==
  (cash * Min({MaxOrderPct, MaxPositionPct, 100})) \div (100 * price * Unit)

\* autonomyOrder: a market order met by the price of the bar.
AutonomyOrder(side, qty, price) ==
  Place(AutoAccount,
        [symbol |-> Asset, side |-> side, type |-> "market", qty |-> qty, price |-> 0, cid |-> NoId],
        [symbol |-> Asset, last |-> price, bid |-> 0, ask |-> 0])

\* The fill of a pending decision on the open of a bar.
FillPending(r) ==
  LET open == Bars[bar[r]].open
      qty == EntryQty(accounts[AutoAccount].cash, open)
  IN  \/ pending[r] = "buy" /\ Qty = 0 /\ qty >= 1 /\ AutonomyOrder("buy", qty, open)
      \/ pending[r] = "sell" /\ Qty > 0 /\ AutonomyOrder("sell", Qty, open)
      \/ /\ ~(pending[r] = "buy" /\ Qty = 0 /\ qty >= 1)
         /\ ~(pending[r] = "sell" /\ Qty > 0)
         /\ UNCHANGED brokerVars

\* The strategy's wish after the risk exits and the limit of trades in an hour.
Decided(r, wish) ==
  LET acc == accounts[AutoAccount]
      close == Bars[bar[r]].close
      exit == Qty > 0 /\ (LossReached(acc, close) \/ GainReached(acc, close))
      recent == {i \in sold[r] : i > bar[r] - BarsPerHour}
  IN  CASE exit -> "sell"
        [] wish = "sell" /\ Qty = 0 -> "hold"
        [] wish = "buy" /\ Qty = 0 /\ Cardinality(recent) >= MaxTradesPerHour -> "hold"
        [] OTHER -> wish

DailyLoss(r, equity) ==
  dayStart[r] > 0 /\ (equity - dayStart[r]) * 100 <= -(DailyLossPct * dayStart[r])

-----------------------------------------------------------------------------
(* Start and stop *)

\* The last run has not ended.
InProgress == autonomy # 0 /\ running[autonomy]

\* Faulty: the run that is replaced may still be running.
StartUnchecked(amount) ==
  /\ autonomy < MaxRuns
  /\ Allocate(AutoAccount, amount)
  /\ LET r == autonomy + 1
     IN  /\ autonomy' = r
         /\ running' = [running EXCEPT ![r] = TRUE]
         /\ phase' = [phase EXCEPT ![r] = "fill"]
         /\ dayStart' = [dayStart EXCEPT ![r] = EquityAt(accounts'[AutoAccount], Bars[1].open)]
         /\ budget' = [budget EXCEPT ![r] = amount]
  /\ UNCHANGED <<stop, bar, pending, day, sold, kind>>

\* StartAutonomy under Engine.mu: the budget is moved and the run made current
\* only if no run is running.
StartAutonomy(amount) ==
  /\ ~InProgress
  /\ StartUnchecked(amount)

\* StartAutonomy refuses, before or by Allocate, and nothing moves.
StartRefused(amount) ==
  /\ Unlocked
  /\ \/ InProgress
     \/ amount <= 0
     \/ accounts[Main].cash < amount

\* StopAutonomy: the current run is told to stop.
SignalStop(r) ==
  /\ stop' = [stop EXCEPT ![r] = TRUE]
  /\ UNCHANGED <<autonomy, phase, running, bar, pending, day, dayStart, sold, kind, budget>>

-----------------------------------------------------------------------------
(* The goroutine of a run *)

\* The loop's head sees the stop.
SeeStop(r) ==
  /\ phase[r] \in {"fill", "wait"}
  /\ stop[r]
  /\ phase' = [phase EXCEPT ![r] = "end"]
  /\ kind' = [kind EXCEPT ![r] = "stop"]
  /\ UNCHANGED <<autonomy, running, stop, bar, pending, day, dayStart, sold, budget>>
  /\ UNCHANGED brokerVars

\* A bar opens: the pending decision is filled, a new day measured from here.
FillBar(r) ==
  /\ phase[r] = "fill"
  /\ ~stop[r]
  /\ FillPending(r)
  /\ sold' = [sold EXCEPT ![r] = IF pending[r] = "sell" /\ Qty > 0 THEN @ \cup {bar[r]} ELSE @]
  /\ pending' = [pending EXCEPT ![r] = "hold"]
  /\ phase' = [phase EXCEPT ![r] = "decide"]
  /\ LET today == Bars[bar[r]].day
     IN  /\ day' = [day EXCEPT ![r] = today]
         /\ dayStart' = [dayStart EXCEPT
              ![r] = IF today = day[r] THEN @ ELSE EquityAt(accounts'[AutoAccount], Bars[bar[r]].open)]
  /\ UNCHANGED <<autonomy, running, stop, bar, kind, budget>>

\* A bar closes within the daily limit: the decision waits for the next open.
DecideBar(r, wish) ==
  /\ phase[r] = "decide"
  /\ Unlocked
  /\ ~DailyLoss(r, EquityAt(accounts[AutoAccount], Bars[bar[r]].close))
  /\ pending' = [pending EXCEPT ![r] = Decided(r, wish)]
  /\ phase' = [phase EXCEPT ![r] = "wait"]
  /\ UNCHANGED <<autonomy, running, stop, bar, day, dayStart, sold, kind, budget>>
  /\ UNCHANGED brokerVars

\* Faulty: the limit ends the run and leaves its position.
DailyStopOpen(r) ==
  /\ phase[r] = "decide"
  /\ Unlocked
  /\ DailyLoss(r, EquityAt(accounts[AutoAccount], Bars[bar[r]].close))
  /\ phase' = [phase EXCEPT ![r] = "end"]
  /\ kind' = [kind EXCEPT ![r] = "stopped_by_risk"]
  /\ UNCHANGED <<autonomy, running, stop, bar, pending, day, dayStart, sold, budget>>
  /\ UNCHANGED brokerVars

\* A bar closes at or below it: the position is sold at the next open, or at
\* this close when there is none, and the run ends.
DailyStop(r) ==
  LET price == IF bar[r] < Len(Bars) THEN Bars[bar[r] + 1].open ELSE Bars[bar[r]].close
  IN  /\ phase[r] = "decide"
      /\ Unlocked
      /\ DailyLoss(r, EquityAt(accounts[AutoAccount], Bars[bar[r]].close))
      /\ IF Qty > 0 THEN AutonomyOrder("sell", Qty, price) ELSE UNCHANGED brokerVars
      /\ phase' = [phase EXCEPT ![r] = "end"]
      /\ kind' = [kind EXCEPT ![r] = "stopped_by_risk"]
      /\ UNCHANGED <<autonomy, running, stop, bar, pending, day, dayStart, sold, budget>>

\* The timer of the replay speed fires, though the stop may be closed as well.
NextBar(r) ==
  /\ phase[r] = "wait"
  /\ IF bar[r] < Len(Bars)
       THEN /\ bar' = [bar EXCEPT ![r] = @ + 1]
            /\ phase' = [phase EXCEPT ![r] = "fill"]
       ELSE /\ phase' = [phase EXCEPT ![r] = "end"]
            /\ UNCHANGED bar
  /\ UNCHANGED <<autonomy, running, stop, pending, day, dayStart, sold, kind, budget>>
  /\ UNCHANGED brokerVars

\* The run is valued and no longer running: a new one may start from here.
EndRun(r) ==
  /\ phase[r] = "end"
  /\ Unlocked
  /\ running' = [running EXCEPT ![r] = FALSE]
  /\ phase' = [phase EXCEPT ![r] = "exit"]
  /\ UNCHANGED <<autonomy, stop, bar, pending, day, dayStart, sold, kind, budget>>
  /\ UNCHANGED brokerVars

\* close(done).
ExitRun(r) ==
  /\ phase[r] = "exit"
  /\ phase' = [phase EXCEPT ![r] = "gone"]
  /\ UNCHANGED <<autonomy, running, stop, bar, pending, day, dayStart, sold, kind, budget>>
  /\ UNCHANGED brokerVars

RunStep(r) ==
  \/ SeeStop(r)
  \/ FillBar(r)
  \/ \E wish \in Action : DecideBar(r, wish)
  \/ DailyStop(r)
  \/ NextBar(r)
  \/ EndRun(r)
  \/ ExitRun(r)

-----------------------------------------------------------------------------
(* Properties *)

\* One run trades at a time, and AutoAccount was funded once for each run that
\* started: a start that is refused or overtaken moves no money (the two are
\* one critical section in StartAutonomy, but the end of a run is not in it).
FundedOnce ==
  /\ \A r, s \in Run : running[r] /\ running[s] => r = s
  /\ allocated[AutoAccount] = Total(budget)

\* A run that its daily-loss limit ended leaves no position behind, whatever
\* it had bought and on whichever bar the limit struck.
RiskStopFlat ==
  \A r \in Run :
    (phase[r] \in {"end", "exit", "gone"} /\ kind[r] = "stopped_by_risk" /\ autonomy = r)
      => Qty = 0
=============================================================================
