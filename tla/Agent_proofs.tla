----------------------------- MODULE Agent_proofs -----------------------------
(***************************************************************************)
(* The agent that trades on the paper broker (Autonomy.tla, Approval.tla)  *)
(* for any threads, tools, history, ring and number of runs and calls.     *)
(*                                                                         *)
(* The broker's invariant holds under the agent's calls because every call *)
(* is one of the broker's methods (Paper_proofs.tla).  Only the current    *)
(* run is running and its orders on the account never rest, so between two *)
(* of its steps the account stands still: what a risk stop sold stays      *)
(* sold, and what StopAutonomy waited for trades no more.  A proposal's    *)
(* tool runs once because the thread that approved it is the only one with *)
(* its number, and a number is given once, to one of the calls served.     *)
(***************************************************************************)
EXTENDS Approval, Paper_proofs, FiniteSetTheorems

-----------------------------------------------------------------------------
(* The runs *)

\* What is typed of the runs: enough for the orders and transfers they make.
RunsTypeOK ==
  /\ autonomy \in 0..MaxRuns
  /\ phase \in [Run -> Phase] /\ running \in [Run -> BOOLEAN]
  /\ bar \in [Run -> 1..Len(Bars)] /\ kind \in [Run -> Kind] /\ budget \in [Run -> Int]

\* A run is running from its start to its end, and only the last one started.
OneRunning ==
  \A r \in Run :
    /\ running[r] <=> phase[r] \in {"fill", "decide", "wait", "end"}
    /\ running[r] => r = autonomy
    /\ phase[r] = "none" <=> r > autonomy
    /\ phase[r] \in {"none", "fill", "decide", "wait"} => kind[r] = "finished"
    /\ phase[r] = "none" => budget[r] = 0

\* Orders of a run never rest.
NoneRest == \A i \in 1..Len(orders) : orders[i].account = AutoAccount => orders[i].status # "new"

\* The inductive invariant of the runs.
RunsInv ==
  /\ RunsTypeOK /\ OneRunning /\ NoneRest /\ RiskStopFlat
  /\ allocated[AutoAccount] = Total(budget)

-----------------------------------------------------------------------------
(* The calls *)

AnyTool == [name : {"place", "start", "stop", "other"}, order : Request, budget : Int]
Call == [pc : Pc, tool : AnyTool \cup {NoTool}, gate : BOOLEAN, id : Nat, run : 0..MaxRuns]

\* A thread at work has a tool; what it may propose is one it was asked for, and what it records is a
\* proposal's.
Workable(c) ==
  /\ c.pc # "idle" => c.tool \in AnyTool
  /\ c.pc \notin {"idle", "start", "record"} => c.tool \in Tool
  /\ c.pc = "await" => c.run \in Run
  /\ c.pc = "record" => c.id # 0

Proposal == [tool : Tool, status : ProposalStatus]

CallsTypeOK ==
  /\ call \in [Thread -> Call]
  /\ \A t \in Thread : Workable(call[t])
  /\ proposals \in Seq(Proposal)
  /\ runs \in [Id -> Nat]
  /\ served \in 0..MaxCalls
  /\ stopped \subseteq Run

\* Threads at work.
InFlight == {t \in Thread : call[t].pc # "idle"}

\* Every proposal was made by a call, so there are numbers for all of them.
Numbered == IsFiniteSet(InFlight) /\ Len(proposals) + Cardinality(InFlight) <= served

\* A thread with a proposal's number runs its tool alone, after its approval.
Approving ==
  \A t \in Thread : call[t].id # 0 =>
    /\ call[t].pc # "idle"
    /\ call[t].id \in 1..Len(proposals)
    /\ proposals[call[t].id].status = "approved"
    /\ call[t].pc # "record" => runs[call[t].id] = 0
    /\ \A u \in Thread : call[u].id = call[t].id => u = t

\* The tool of a proposal that nobody approved has not run.
RunsCounted ==
  /\ \A i \in 1..Len(proposals) :
       /\ runs[i] \in {0, 1}
       /\ proposals[i].status \notin {"approved", "executed"} => runs[i] = 0
  /\ \A i \in Id : i > Len(proposals) => runs[i] = 0

\* The inductive invariant of the calls and the proposals.
CallsInv == CallsTypeOK /\ Numbered /\ Approving /\ RunsCounted

\* The orders on the main account.
Mine == {k \in 1..Len(orders) : orders[k].account = Main}

\* A thread that holds a slot of the envelope for an order it has not placed yet.
Holds(c) == c.gate /\ c.pc = "execute"
Slots == {t \in Thread : Holds(call[t])}

\* Who passes the gate: a call without it has a proposal's number, and the envelope is asked, and
\* lets pass, only in its mode.
Gate(c) ==
  /\ c.pc # "idle" /\ ~c.gate => c.id # 0
  /\ c.pc \in {"envelope", "envelopeCash", "slot"} => c.gate /\ Mode = "envelope"
  /\ Holds(c) => Mode = "envelope"

\* The inductive invariant of the gate: a slot is counted before its order is placed.
GateInv ==
  /\ autoApprovals \in Nat /\ byHuman \in Nat /\ byEnvelope \in Nat
  /\ \A t \in Thread : Gate(call[t])
  /\ Cardinality(Mine) = byHuman + byEnvelope
  /\ byHuman <= Total(runs)
  /\ Mode # "envelope" => byEnvelope = 0
  /\ byEnvelope + Cardinality(Slots) <= autoApprovals
  /\ MaxOrdersPerRun # 0 => autoApprovals <= MaxOrdersPerRun

\* A run whose stop was awaited is gone.
StoppedGone == \A r \in stopped : phase[r] = "gone"

AgentInv == PaperInv /\ RunsInv /\ CallsInv /\ GateInv /\ StoppedGone

-----------------------------------------------------------------------------
(* The account of the runs *)

\* AutoAccount is not the main account, and the account and asset exist.
LEMMA AutoApart == AutoAccount \in Account /\ Main \in Account /\ AutoAccount # Main /\ Asset \in Symbol
BY AutoAssumption, AccountAssumption DEF Account

\* An order on the main account leaves AutoAccount alone.
LEMMA MainPlaced ==
  ASSUME PaperInv, NoneRest, NEW req \in OrderRequest, NEW q \in View, Place(Main, req, q)
  PROVE  /\ PaperInv' /\ NoneRest' /\ accounts'[AutoAccount] = accounts[AutoAccount]
         /\ allocated' = allocated /\ Mine' = Mine \cup {Len(orders) + 1}
<1>1. PaperInv'
  BY AutoApart, PlaceKeeps
<1>2. PICK n \in Nat : n = Len(orders)
  BY LenProperties DEF PaperInv, TypeOK
<1>3. /\ Len(orders') = n + 1 /\ orders'[n + 1].account = Main
      /\ \A j \in 1..n : orders'[j] = orders[j]
      /\ \A b \in Account : b # Main => accounts'[b] = accounts[b]
  BY <1>2, AutoApart, Placed DEF PaperInv
<1>4. \A j \in 1..n + 1 : j \in 1..n \/ j = n + 1
  BY <1>2
<1>5. NoneRest'
  BY <1>2, <1>3, <1>4, AutoApart DEF NoneRest
<1>6. Mine' = Mine \cup {n + 1}
  <2>1. n + 1 \in 1..n + 1 /\ \A j \in 1..n : j \in 1..n + 1
    BY <1>2
  <2> QED
    BY <1>2, <1>3, <1>4, <2>1 DEF Mine
<1> QED
  BY <1>1, <1>2, <1>3, <1>5, <1>6, AutoApart DEF Place, PlaceRemembering

\* A market order of a run does not rest, and selling all there is leaves nothing.
LEMMA AutoPlaced ==
  ASSUME PaperInv, NoneRest, NEW side \in {"buy", "sell"}, NEW qty \in Nat \ {0},
         NEW price \in Nat \ {0}, AutonomyOrder(side, qty, price)
  PROVE  /\ PaperInv' /\ NoneRest' /\ allocated' = allocated /\ Mine' = Mine
         /\ side = "sell" /\ qty = Qty => Qty' = 0
<1> DEFINE req == [symbol |-> Asset, side |-> side, type |-> "market", qty |-> qty, price |-> 0,
                   cid |-> NoId]
           q == [symbol |-> Asset, last |-> price, bid |-> 0, ask |-> 0]
<1>1. Place(AutoAccount, req, q)
  BY DEF AutonomyOrder
<1>2. req \in OrderRequest /\ q \in View
  BY AutoApart DEF OrderRequest, View, Side, Type
<1>3. /\ req.type = "market" /\ req.side = side /\ req.qty = qty /\ req.symbol = Asset
      /\ q.last = price /\ q.bid = 0 /\ q.ask = 0
  OBVIOUS
<1> HIDE DEF req, q
<1>4. PaperInv'
  BY <1>1, <1>2, AutoApart, PlaceKeeps
<1>5. PICK n \in Nat : n = Len(orders)
  BY LenProperties DEF PaperInv, TypeOK
<1>6. /\ Len(orders') = n + 1
      /\ \A j \in 1..n : orders'[j] = orders[j]
      /\ orders'[n + 1].status = "new" => Proper(orders'[n + 1]) /\ orders'[n + 1].type = "limit"
  BY <1>1, <1>2, <1>5, AutoApart, Placed DEF PaperInv
<1> DEFINE new == NewOrder(AutoAccount, req)
           book == Append(orders, new)
<1>7. /\ new \in Order /\ new.side = side /\ new.qty = qty /\ new.symbol = Asset
      /\ new.account = AutoAccount /\ Proper(new)
  BY <1>2, <1>3, AutoApart DEF NewOrder, OrderRequest, Order, Status, Proper
<1>8. Execute(book, n + 1, MarketPrice(side, q))
  BY <1>1, <1>3, <1>5 DEF Place, PlaceRemembering, Invalid
<1>9. MarketPrice(side, q) = price
  BY <1>3 DEF MarketPrice
<1> HIDE DEF new
<1>10. /\ orders \in Seq(Order) /\ accounts \in [Account -> AccountState] /\ trades \in Seq(Trade)
  BY DEF PaperInv, TypeOK
<1>11. book \in Seq(Order) /\ Len(book) = n + 1 /\ book[n + 1] = new
  BY <1>5, <1>7, <1>10, AppendProperties
<1> HIDE DEF book
<1>12. orders'[n + 1].status # "new"
  <2>1. n + 1 \in 1..Len(book) /\ Proper(book[n + 1]) /\ price \in Nat
    BY <1>5, <1>7, <1>11
  <2>2. orders'[n + 1].status \in {"filled", "rejected"}
    BY <1>8, <1>9, <1>10, <1>11, <2>1, Executed
  <2> QED
    BY <2>2
<1>13. NoneRest'
  <2>1. \A j \in 1..n + 1 : j \in 1..n \/ j = n + 1
    BY <1>5
  <2> QED
    BY <1>5, <1>6, <1>12, <2>1 DEF NoneRest
<1>14. Mine' = Mine
  <2>1. \A j \in 1..n + 1 : j \in 1..n \/ j = n + 1
    BY <1>5
  <2>2. \A j \in 1..n : j \in 1..n + 1
    BY <1>5
  <2>3. orders'[n + 1].account = AutoAccount
    BY <1>1, <1>2, <1>5, AutoApart, Placed DEF PaperInv
  <2> QED
    BY <1>5, <1>6, <2>1, <2>2, <2>3, AutoApart DEF Mine
<1>15. ASSUME side = "sell", qty = Qty
       PROVE  Qty' = 0
  <2>1. accounts[AutoAccount] \in AccountState
    BY <1>10, AutoApart
  <2>2. ~Refuses(accounts[AutoAccount], new, price)
    BY <1>7, <1>15 DEF Refuses, Qty
  <2>3. accounts' = [accounts EXCEPT ![AutoAccount] = Filled(@, new, price)]
    BY <1>7, <1>8, <1>9, <1>11, <2>2 DEF Execute
  <2>4. Filled(accounts[AutoAccount], new, price).positions[Asset].qty =
          accounts[AutoAccount].positions[Asset].qty - qty
    BY <1>7, <1>15, <2>1, <2>2, Filling
  <2>5. accounts'[AutoAccount] = Filled(accounts[AutoAccount], new, price)
    BY <1>10, <2>3, AutoApart
  <2> QED
    BY <1>15, <2>4, <2>5 DEF Qty
<1> QED
  BY <1>1, <1>4, <1>13, <1>14, <1>15 DEF Place, PlaceRemembering

\* A turn of OnQuote's loop leaves AutoAccount alone: nothing of it rests.
LEMMA AutoUnvisited ==
  ASSUME PaperInv, NoneRest, VisitOrder
  PROVE  /\ PaperInv' /\ NoneRest' /\ accounts'[AutoAccount] = accounts[AutoAccount]
         /\ allocated' = allocated /\ Mine' = Mine
<1>1. /\ PaperInv' /\ Len(orders') = Len(orders)
      /\ \A j \in 1..Len(orders) :
           /\ orders'[j].account = orders[j].account
           /\ orders'[j].status = "new" => orders[j].status = "new"
      /\ \A b \in Account :
           \/ accounts'[b] = accounts[b]
           \/ \E j \in 1..Len(orders) : orders[j].account = b /\ orders[j].status = "new"
  BY VisitKeeps
<1>2. NoneRest'
  BY <1>1 DEF NoneRest
<1>3. accounts'[AutoAccount] = accounts[AutoAccount]
  BY <1>1, AutoApart DEF NoneRest
<1>4. Mine' = Mine
  BY <1>1 DEF Mine
<1> QED
  BY <1>1, <1>2, <1>3, <1>4 DEF VisitOrder

\* A quantity to buy is a whole number.
LEMMA EntryQtyInt ==
  ASSUME NEW cash \in Int, NEW price \in Nat \ {0}
  PROVE  EntryQty(cash, price) \in Int
<1> DEFINE pct == {MaxOrderPct, MaxPositionPct, 100}
<1>1. MaxOrderPct \in Nat /\ MaxPositionPct \in Nat
  BY RiskAssumption
<1>2. \E x \in pct : \A y \in pct : x <= y
  <2>1. CASE MaxOrderPct <= MaxPositionPct /\ MaxOrderPct <= 100
    BY <1>1, <2>1
  <2>2. CASE MaxPositionPct <= MaxOrderPct /\ MaxPositionPct <= 100
    BY <1>1, <2>2
  <2>3. CASE 100 <= MaxOrderPct /\ 100 <= MaxPositionPct
    BY <1>1, <2>3
  <2> QED
    BY <1>1, <2>1, <2>2, <2>3
<1>3. PICK least \in Int : least = Min(pct)
  BY <1>1, <1>2 DEF Min
<1>4. PICK m \in Int : m = cash * least
  OBVIOUS
<1>5. PICK d \in Nat \ {0} : d = 100 * price * Unit
  BY DEF Unit
<1>6. m \div d \in Int
  OBVIOUS
<1> QED
  BY <1>3, <1>4, <1>5, <1>6 DEF EntryQty

\* Steps that leave the runs and the position on AutoAccount alone.
LEMMA RunsStand ==
  ASSUME RunsInv, NoneRest',
         UNCHANGED <<autonomy, phase, running, bar, kind, budget, allocated>>,
         Qty' = Qty
  PROVE  RunsInv'
<1>1. RunsTypeOK' /\ OneRunning'
  BY DEF RunsInv, RunsTypeOK, OneRunning
<1>2. RiskStopFlat'
  BY DEF RunsInv, RiskStopFlat
<1> QED
  BY <1>1, <1>2 DEF RunsInv

\* One run goes from a phase to the next and is running until its end; it was the current one if the
\* position moved, and left none if it stopped by risk.
Moves(r, to, why) ==
  /\ phase[r] # "none"
  /\ phase' = [phase EXCEPT ![r] = to] /\ kind' = [kind EXCEPT ![r] = why]
  /\ running' \in [Run -> BOOLEAN]
  /\ \A s \in Run : s # r => running'[s] = running[s]
  /\ running'[r] <=> to \in {"fill", "decide", "wait", "end"}
  /\ to \in {"fill", "decide", "wait", "end"} => running[r]
  /\ to \in {"fill", "decide", "wait"} => why = "finished"
  /\ bar' \in [Run -> 1..Len(Bars)]
  /\ UNCHANGED <<autonomy, budget, allocated>>
  /\ \/ Qty' = Qty /\ phase[r] \in {"end", "exit", "gone"} /\ why = kind[r]
     \/ Qty' = Qty /\ phase[r] \notin {"end", "exit", "gone"} /\ why # "stopped_by_risk"
     \/ running[r] /\ phase[r] # "end" /\ (why = "stopped_by_risk" => Qty' = 0)

\* Such a step keeps the invariant of the runs.
LEMMA RunMoves ==
  ASSUME RunsInv, NoneRest', NEW r \in Run, NEW to \in Phase \ {"none"}, NEW why \in Kind,
         Moves(r, to, why)
  PROVE  RunsInv'
<1> USE DEF Moves
<1>1. /\ RunsTypeOK /\ OneRunning /\ RiskStopFlat /\ allocated[AutoAccount] = Total(budget)
      /\ autonomy \in 0..MaxRuns /\ phase \in [Run -> Phase] /\ kind \in [Run -> Kind]
      /\ budget \in [Run -> Int]
  BY DEF RunsInv, RunsTypeOK
<1>2. RunsTypeOK'
  BY <1>1 DEF RunsTypeOK
<1>3. OneRunning'
  BY <1>1 DEF OneRunning, Phase
<1>4. RiskStopFlat'
  <2> SUFFICES ASSUME NEW s \in Run, phase'[s] \in {"end", "exit", "gone"},
                      kind'[s] = "stopped_by_risk", autonomy = s
               PROVE  Qty' = 0
    BY DEF RiskStopFlat
  <2>1. CASE s = r
    BY <1>1, <2>1 DEF RiskStopFlat
  <2>2. CASE s # r
    BY <1>1, <2>2 DEF RiskStopFlat, OneRunning
  <2> QED
    BY <2>1, <2>2
<1> QED
  BY <1>1, <1>2, <1>3, <1>4 DEF RunsInv

\* A step of a run keeps the broker's invariant and that of the runs, and orders nothing unless the
\* run is the current one.
LEMMA RunStepKeeps ==
  ASSUME PaperInv, RunsInv, NEW r \in Run, RunStep(r)
  PROVE  /\ PaperInv' /\ RunsInv'
         /\ \A s \in Run : phase[s] = "gone" => phase'[s] = "gone"
         /\ Len(orders') # Len(orders) => r = autonomy /\ phase[r] # "gone"
         /\ Mine' = Mine
<1>1. /\ RunsTypeOK /\ OneRunning /\ NoneRest /\ RiskStopFlat
      /\ autonomy \in 0..MaxRuns /\ phase \in [Run -> Phase] /\ kind \in [Run -> Kind]
      /\ running \in [Run -> BOOLEAN] /\ bar \in [Run -> 1..Len(Bars)] /\ budget \in [Run -> Int]
  BY DEF RunsInv, RunsTypeOK
<1>2. /\ kind = [kind EXCEPT ![r] = kind[r]] /\ kind[r] \in Kind /\ "finished" \in Kind
      /\ "stop" \in Kind /\ "stopped_by_risk" \in Kind
  BY <1>1 DEF Kind
<1>3. PICK len \in Nat : len = Len(Bars) /\ len >= 2
  BY BarsAssumption, LenProperties
<1>4. /\ bar[r] \in 1..len
      /\ \A i \in 1..len : Bars[i].open \in Nat \ {0} /\ Bars[i].close \in Nat \ {0}
  <2>1. \A i \in 1..len : Bars[i] \in Bar
    BY <1>3, BarsAssumption
  <2> QED
    BY <1>1, <1>3, <2>1 DEF Bar
<1>5. Qty \in Nat
  <2>1. accounts[AutoAccount] \in AccountState
    BY AutoApart DEF PaperInv, TypeOK
  <2>2. accounts[AutoAccount].positions[Asset] \in Position
    BY <2>1, AutoApart DEF AccountState
  <2> QED
    BY <2>2 DEF Position, Qty
<1>6. accounts[AutoAccount].cash \in Int
  BY AutoApart DEF PaperInv, TypeOK, AccountState
<1>7. /\ phase[r] \in {"fill", "decide", "wait", "end"} => running[r] /\ r = autonomy
      /\ phase[r] \in {"fill", "decide", "wait"} => kind[r] = "finished"
  BY <1>1 DEF OneRunning
<1>8. /\ {"fill", "decide", "wait", "end", "exit", "gone"} \subseteq Phase \ {"none"}
  BY DEF Phase
<1> DEFINE Quiet == UNCHANGED brokerVars
           Goal == /\ PaperInv' /\ RunsInv'
                   /\ \A s \in Run : phase[s] = "gone" => phase'[s] = "gone"
                   /\ Len(orders') # Len(orders) => r = autonomy /\ phase[r] # "gone"
                   /\ Mine' = Mine
<1>9. ASSUME Quiet
      PROVE  /\ PaperInv' /\ NoneRest' /\ allocated' = allocated /\ Qty' = Qty
             /\ orders' = orders /\ Mine' = Mine
  <2>1. PaperInv'
    BY <1>9, QuoteKeeps DEF brokerVars
  <2> QED
    BY <1>1, <1>9, <2>1 DEF brokerVars, NoneRest, Qty, Mine
<1>10. \A to \in Phase : phase' = [phase EXCEPT ![r] = to] /\ phase[r] # "gone" =>
         \A s \in Run : phase[s] = "gone" => phase'[s] = "gone"
  BY <1>1
<1> HIDE DEF Quiet
<1>11. ASSUME SeeStop(r)
       PROVE  Goal
  <2>1. /\ phase[r] \in {"fill", "wait"} /\ phase' = [phase EXCEPT ![r] = "end"]
        /\ kind' = [kind EXCEPT ![r] = "stop"] /\ Quiet
        /\ autonomy' = autonomy /\ running' = running /\ bar' = bar /\ budget' = budget
    BY <1>11 DEF SeeStop, Quiet
  <2>2. Moves(r, "end", "stop")
    BY <1>1, <1>7, <1>9, <2>1 DEF Moves
  <2>3. RunsInv'
    BY <1>2, <1>8, <1>9, <2>1, <2>2, RunMoves
  <2> QED
    BY <1>8, <1>9, <1>10, <2>1, <2>3
<1>12. ASSUME FillBar(r)
       PROVE  Goal
  <2>1. /\ phase[r] = "fill" /\ phase' = [phase EXCEPT ![r] = "decide"]
        /\ kind' = [kind EXCEPT ![r] = "finished"] /\ FillPending(r)
        /\ autonomy' = autonomy /\ running' = running /\ bar' = bar /\ budget' = budget
    BY <1>2, <1>7, <1>12 DEF FillBar
  <2> DEFINE open == Bars[bar[r]].open
  <2>2. open \in Nat \ {0} /\ EntryQty(accounts[AutoAccount].cash, open) \in Int
    BY <1>4, <1>6, EntryQtyInt
  <2>3. PaperInv' /\ NoneRest' /\ allocated' = allocated /\ Mine' = Mine
    <3>1. CASE Quiet
      BY <1>9, <3>1
    <3>2. ASSUME NEW qty \in Nat \ {0}, NEW side \in {"buy", "sell"}, AutonomyOrder(side, qty, open)
          PROVE  PaperInv' /\ NoneRest' /\ allocated' = allocated /\ Mine' = Mine
      BY <1>1, <2>2, <3>2, AutoPlaced
    <3>3. \/ Quiet
          \/ \E qty \in Nat \ {0}, side \in {"buy", "sell"} : AutonomyOrder(side, qty, open)
      <4> DEFINE entry == EntryQty(accounts[AutoAccount].cash, open)
      <4>1. \/ entry >= 1 /\ AutonomyOrder("buy", entry, open)
            \/ Qty > 0 /\ AutonomyOrder("sell", Qty, open)
            \/ Quiet
        BY <2>1 DEF FillPending, Quiet
      <4>2. entry >= 1 => entry \in Nat \ {0}
        BY <2>2
      <4>3. Qty > 0 => Qty \in Nat \ {0}
        BY <1>5
      <4> HIDE DEF entry, open
      <4> QED
        BY <4>1, <4>2, <4>3
    <3> QED
      BY <3>1, <3>2, <3>3
  <2>4. Moves(r, "decide", "finished")
    BY <1>1, <1>7, <2>1, <2>3 DEF Moves
  <2>5. RunsInv'
    BY <1>2, <1>8, <2>3, <2>4, RunMoves
  <2> QED
    BY <1>7, <1>8, <1>10, <2>1, <2>3, <2>5
<1>13. ASSUME NEW wish \in Action, DecideBar(r, wish)
       PROVE  Goal
  <2>1. /\ phase[r] = "decide" /\ phase' = [phase EXCEPT ![r] = "wait"]
        /\ kind' = [kind EXCEPT ![r] = "finished"] /\ Quiet
        /\ autonomy' = autonomy /\ running' = running /\ bar' = bar /\ budget' = budget
    BY <1>2, <1>7, <1>13 DEF DecideBar, Quiet
  <2>2. Moves(r, "wait", "finished")
    BY <1>1, <1>7, <1>9, <2>1 DEF Moves
  <2>3. RunsInv'
    BY <1>2, <1>8, <1>9, <2>1, <2>2, RunMoves
  <2> QED
    BY <1>8, <1>9, <1>10, <2>1, <2>3
<1>14. ASSUME DailyStop(r)
       PROVE  Goal
  <2> DEFINE price == IF bar[r] < Len(Bars) THEN Bars[bar[r] + 1].open ELSE Bars[bar[r]].close
  <2>1. /\ phase[r] = "decide" /\ phase' = [phase EXCEPT ![r] = "end"]
        /\ kind' = [kind EXCEPT ![r] = "stopped_by_risk"]
        /\ IF Qty > 0 THEN AutonomyOrder("sell", Qty, price) ELSE Quiet
        /\ autonomy' = autonomy /\ running' = running /\ bar' = bar /\ budget' = budget
    BY <1>14 DEF DailyStop, Quiet
  <2>2. price \in Nat \ {0}
    BY <1>3, <1>4
  <2> HIDE DEF price
  <2>3. PaperInv' /\ NoneRest' /\ allocated' = allocated /\ Mine' = Mine /\ Qty' = 0
    <3>1. CASE Qty > 0
      <4>1. Qty \in Nat \ {0} /\ "sell" \in {"buy", "sell"}
        BY <1>5, <3>1
      <4> QED
        BY <1>1, <2>1, <2>2, <3>1, <4>1, AutoPlaced
    <3>2. CASE ~(Qty > 0)
      <4>1. Qty = 0
        BY <1>5, <3>2
      <4> QED
        BY <1>9, <2>1, <3>2, <4>1
    <3> QED
      BY <3>1, <3>2
  <2>4. Moves(r, "end", "stopped_by_risk")
    BY <1>1, <1>7, <2>1, <2>3 DEF Moves
  <2>5. RunsInv'
    BY <1>2, <1>8, <2>3, <2>4, RunMoves
  <2> QED
    BY <1>7, <1>8, <1>10, <2>1, <2>3, <2>5
<1>15. ASSUME NextBar(r)
       PROVE  Goal
  <2>1. /\ phase[r] = "wait" /\ Quiet /\ kind' = [kind EXCEPT ![r] = "finished"]
        /\ autonomy' = autonomy /\ running' = running /\ budget' = budget
        /\ \/ /\ bar[r] < len /\ bar' = [bar EXCEPT ![r] = @ + 1]
              /\ phase' = [phase EXCEPT ![r] = "fill"]
           \/ phase' = [phase EXCEPT ![r] = "end"] /\ bar' = bar
    BY <1>2, <1>3, <1>7, <1>15 DEF NextBar, Quiet
  <2>2. bar' \in [Run -> 1..Len(Bars)]
    <3>1. CASE bar' = bar
      BY <1>1, <3>1
    <3>2. CASE bar[r] < len /\ bar' = [bar EXCEPT ![r] = @ + 1]
      <4>1. bar[r] + 1 \in 1..Len(Bars)
        BY <1>3, <1>4, <3>2
      <4> QED
        BY <1>1, <3>2, <4>1
    <3> QED
      BY <2>1, <3>1, <3>2
  <2>3. RunsInv'
    <3>1. CASE phase' = [phase EXCEPT ![r] = "fill"]
      <4>1. Moves(r, "fill", "finished")
        BY <1>1, <1>7, <1>9, <2>1, <2>2, <3>1 DEF Moves
      <4> QED
        BY <1>2, <1>8, <1>9, <2>1, <4>1, RunMoves
    <3>2. CASE phase' = [phase EXCEPT ![r] = "end"]
      <4>1. Moves(r, "end", "finished")
        BY <1>1, <1>7, <1>9, <2>1, <2>2, <3>2 DEF Moves
      <4> QED
        BY <1>2, <1>8, <1>9, <2>1, <4>1, RunMoves
    <3> QED
      BY <2>1, <3>1, <3>2
  <2> QED
    BY <1>8, <1>9, <1>10, <2>1, <2>3
<1>16. ASSUME EndRun(r)
       PROVE  Goal
  <2>1. /\ phase[r] = "end" /\ phase' = [phase EXCEPT ![r] = "exit"] /\ Quiet
        /\ kind' = [kind EXCEPT ![r] = kind[r]] /\ running' = [running EXCEPT ![r] = FALSE]
        /\ autonomy' = autonomy /\ bar' = bar /\ budget' = budget
    BY <1>2, <1>16 DEF EndRun, Quiet
  <2>2. Moves(r, "exit", kind[r])
    BY <1>1, <1>9, <2>1 DEF Moves
  <2>3. RunsInv'
    BY <1>2, <1>8, <1>9, <2>1, <2>2, RunMoves
  <2> QED
    BY <1>8, <1>9, <1>10, <2>1, <2>3
<1>17. ASSUME ExitRun(r)
       PROVE  Goal
  <2>1. /\ phase[r] = "exit" /\ phase' = [phase EXCEPT ![r] = "gone"] /\ Quiet
        /\ kind' = [kind EXCEPT ![r] = kind[r]] /\ running' = running
        /\ autonomy' = autonomy /\ bar' = bar /\ budget' = budget
    BY <1>2, <1>17 DEF ExitRun, Quiet
  <2>2. ~running[r]
    BY <1>1, <2>1 DEF OneRunning
  <2>3. Moves(r, "gone", kind[r])
    BY <1>1, <1>9, <2>1, <2>2 DEF Moves
  <2>4. RunsInv'
    BY <1>2, <1>8, <1>9, <2>1, <2>3, RunMoves
  <2> QED
    BY <1>8, <1>9, <1>10, <2>1, <2>4
<1> HIDE DEF Goal
<1>18. Goal
  BY <1>11, <1>12, <1>13, <1>14, <1>15, <1>16, <1>17 DEF RunStep
<1> QED
  BY <1>18 DEF Goal

\* StartAutonomy funds and starts the next run; Allocate moves money only.
LEMMA StartKeeps ==
  ASSUME PaperInv, RunsInv, NEW amount \in Int, StartAutonomy(amount)
  PROVE  /\ PaperInv' /\ RunsInv' /\ orders' = orders
         /\ \A s \in Run : phase[s] = "gone" => phase'[s] = "gone"
<1>1. /\ RunsTypeOK /\ OneRunning /\ NoneRest /\ RiskStopFlat
      /\ allocated[AutoAccount] = Total(budget)
      /\ autonomy \in 0..MaxRuns /\ phase \in [Run -> Phase] /\ kind \in [Run -> Kind]
      /\ running \in [Run -> BOOLEAN] /\ bar \in [Run -> 1..Len(Bars)] /\ budget \in [Run -> Int]
  BY DEF RunsInv, RunsTypeOK
<1> DEFINE r == autonomy + 1
<1>2. /\ autonomy < MaxRuns /\ ~InProgress /\ Allocate(AutoAccount, amount)
      /\ autonomy' = r /\ running' = [running EXCEPT ![r] = TRUE]
      /\ phase' = [phase EXCEPT ![r] = "fill"] /\ budget' = [budget EXCEPT ![r] = amount]
      /\ bar' = bar /\ kind' = kind
  BY DEF StartAutonomy, StartUnchecked
<1>3. PICK max \in Nat : max = MaxRuns /\ Run = 1..max
  BY MaxRunsAssumption DEF Run
<1>4. r \in Run /\ r > autonomy
  BY <1>1, <1>2, <1>3
<1>5. /\ PaperInv' /\ \A b \in Account : accounts'[b].positions = accounts[b].positions
  BY <1>2, AutoAssumption, AllocateKeeps
<1>6. NoneRest' /\ orders' = orders /\ Qty' = Qty
      /\ allocated' = [allocated EXCEPT ![Main] = @ - amount, ![AutoAccount] = @ + amount]
  BY <1>1, <1>2, <1>5, AutoApart DEF Allocate, NoneRest, Qty
<1>7. phase[r] = "none" /\ budget[r] = 0 /\ kind[r] = "finished"
  BY <1>1, <1>4 DEF OneRunning
<1>8. \A s \in Run : ~running[s]
  BY <1>1, <1>2, <1>3 DEF OneRunning, InProgress
<1>9. RunsTypeOK'
  <2>1. r \in 0..MaxRuns
    BY <1>3, <1>4
  <2> QED
    BY <1>1, <1>2, <1>4, <2>1 DEF RunsTypeOK, Phase
<1>10. OneRunning'
  <2> SUFFICES ASSUME NEW s \in Run
               PROVE  /\ running'[s] <=> phase'[s] \in {"fill", "decide", "wait", "end"}
                      /\ running'[s] => s = r
                      /\ phase'[s] = "none" <=> s > r
                      /\ phase'[s] \in {"none", "fill", "decide", "wait"} => kind'[s] = "finished"
                      /\ phase'[s] = "none" => budget'[s] = 0
    BY <1>2 DEF OneRunning
  <2>1. CASE s = r
    BY <1>1, <1>2, <1>3, <1>4, <1>7, <2>1
  <2>2. CASE s # r
    <3>1. s > r <=> s > autonomy
      BY <1>1, <1>3, <2>2
    <3>2. phase'[s] = phase[s] /\ running'[s] = running[s] /\ budget'[s] = budget[s]
      BY <1>1, <1>2, <2>2
    <3> QED
      BY <1>1, <1>2, <1>8, <3>1, <3>2 DEF OneRunning
  <2> QED
    BY <2>1, <2>2
<1>11. RiskStopFlat'
  BY <1>1, <1>2, <1>4 DEF RiskStopFlat
<1>12. allocated'[AutoAccount] = Total(budget')
  <2>1. budget \in Seq(Int) /\ Len(budget) = max
    BY <1>1, <1>3
  <2>2. r \in 1..Len(budget)
    BY <1>3, <1>4, <2>1
  <2>3. Total(budget') = Total(budget) + (amount - budget[r])
    BY <1>2, <2>1, <2>2, TotalExcept
  <2>4. Total(budget) \in Int
    BY <2>1, TotalInt
  <2>5. allocated'[AutoAccount] = allocated[AutoAccount] + amount
    BY <1>6, AutoApart DEF PaperInv, TypeOK
  <2> QED
    BY <1>1, <1>7, <2>3, <2>4, <2>5
<1>13. \A s \in Run : phase[s] = "gone" => phase'[s] = "gone"
  BY <1>1, <1>2, <1>7
<1> QED
  BY <1>5, <1>6, <1>9, <1>10, <1>11, <1>12, <1>13 DEF RunsInv

-----------------------------------------------------------------------------
(* The broker and the runs under the agent's calls *)

\* Steps of a call that move neither the account nor a run.
Aside(t) ==
  \/ Propose(t) \/ CheckOrderRisk(t) \/ EnvelopeAllowsOrder(t) \/ TakeEnvelopeSlot(t)
  \/ RunOther(t) \/ Prepare(t) \/ AwaitDone(t) \/ RecordResult(t)

\* They leave the account and the runs as they are.
LEMMA AsideStill ==
  ASSUME NEW t \in Thread, Aside(t)
  PROVE  UNCHANGED paperVars
<1>1. Propose(t) => UNCHANGED paperVars
  BY DEF Propose
<1>2. CheckOrderRisk(t) \/ EnvelopeAllowsOrder(t) => UNCHANGED paperVars
  BY DEF CheckOrderRisk, EnvelopeAllowsOrder, Branch
<1>3. TakeEnvelopeSlot(t) \/ RunOther(t) \/ Prepare(t) => UNCHANGED paperVars
  BY DEF TakeEnvelopeSlot, RunOther, Prepare
<1>4. AwaitDone(t) \/ RecordResult(t) => UNCHANGED paperVars
  BY DEF AwaitDone, AwaitUntimely, RecordResult
<1> QED
  BY <1>1, <1>2, <1>3, <1>4 DEF Aside

\* The steps of the agent by what they do to the account and to the runs.
LEMMA StepKinds ==
  ASSUME CallsTypeOK, RunsTypeOK, [ApprovalNext]_allVars
  PROVE  \/ UNCHANGED paperVars
         \/ \E req \in OrderRequest, q \in View : Place(Main, req, q) /\ UNCHANGED runVars
         \/ \E amount \in Int : StartAutonomy(amount)
         \/ \E r \in 1..MaxRuns : SignalStop(r) /\ UNCHANGED vars
         \/ \E r \in Run : RunStep(r)
         \/ VisitOrder /\ UNCHANGED runVars
         \/ EndQuote /\ UNCHANGED runVars
         \/ (\E q \in Quote : BeginQuote(q)) /\ UNCHANGED runVars
<1> DEFINE Goal ==
         \/ UNCHANGED paperVars
         \/ \E req \in OrderRequest, q \in View : Place(Main, req, q) /\ UNCHANGED runVars
         \/ \E amount \in Int : StartAutonomy(amount)
         \/ \E r \in 1..MaxRuns : SignalStop(r) /\ UNCHANGED vars
         \/ \E r \in Run : RunStep(r)
         \/ VisitOrder /\ UNCHANGED runVars
         \/ EndQuote /\ UNCHANGED runVars
         \/ (\E q \in Quote : BeginQuote(q)) /\ UNCHANGED runVars
<1>1. ASSUME NEW t \in Thread, NEW tool \in Tool, Invoke(t, tool)
      PROVE  Goal
  BY <1>1 DEF Invoke
<1>2. ASSUME NEW t \in Thread, NEW i \in DOMAIN proposals, Approve(t, i) \/ Reject(t, i)
      PROVE  Goal
  BY <1>2 DEF Approve, ApproveAgain, Reject
<1>3. ASSUME NEW t \in Thread, Aside(t)
      PROVE  Goal
  BY <1>3, AsideStill
<1>4. ASSUME NEW t \in Thread, PlaceOrder(t)
      PROVE  Goal
  <2> DEFINE order == call[t].tool.order
             req == IF call[t].gate THEN order ELSE [order EXCEPT !.cid = NoId]
  <2>1. /\ call[t].pc = "execute" /\ UNCHANGED runVars
        /\ \/ \E q \in QuotesOf(order) : Place(Main, req, q)
           \/ UNCHANGED vars
    BY <1>4 DEF PlaceOrder, At
  <2>2. order \in Request
    BY <2>1 DEF CallsTypeOK, Workable, AnyTool
  <2>3. order \in OrderRequest
    BY <2>2, RequestAssumption DEF OrderRequest
  <2>4. req \in OrderRequest
    BY <2>3 DEF OrderRequest
  <2>5. QuotesOf(order) \subseteq View
    BY QuoteAssumption DEF QuotesOf, View
  <2> HIDE DEF req, order
  <2> QED
    BY <2>1, <2>4, <2>5 DEF paperVars
<1>5. ASSUME NEW t \in Thread, Start(t)
      PROVE  Goal
  <2>1. /\ call[t].pc = "start"
        /\ StartAutonomy(call[t].tool.budget) \/ UNCHANGED paperVars
    BY <1>5 DEF Start, At
  <2>2. call[t].tool.budget \in Int
    BY <2>1 DEF CallsTypeOK, Workable, AnyTool
  <2> QED
    BY <2>1, <2>2
<1>6. ASSUME NEW t \in Thread, StopAutonomy(t)
      PROVE  Goal
  <2>1. CASE autonomy = 0
    BY <1>6, <2>1 DEF StopAutonomy, paperVars
  <2>2. CASE autonomy # 0
    <3>1. autonomy \in 1..MaxRuns
      BY <2>2, MaxRunsAssumption DEF RunsTypeOK
    <3> QED
      BY <1>6, <2>2, <3>1 DEF StopAutonomy
  <2> QED
    BY <2>1, <2>2
<1>7. ASSUME NEW i \in DOMAIN proposals, WindowPasses(i)
      PROVE  Goal
  BY <1>7 DEF WindowPasses
<1>8. ASSUME ListProposals
      PROVE  Goal
  BY <1>8 DEF ListProposals
<1>9. ASSUME OnQuote
      PROVE  Goal
  <2>1. UNCHANGED approvalVars /\ UNCHANGED runVars
    BY <1>9 DEF OnQuote, QuoteWalks
  <2> QED
    BY <1>9, <2>1 DEF OnQuote, QuoteWalks
<1>10. ASSUME UNCHANGED allVars
       PROVE  Goal
  BY <1>10 DEF allVars, paperVars
<1>11. ASSUME NEW r \in Run, RunStep(r)
       PROVE  Goal
  BY <1>11
<1> HIDE DEF Goal
<1> QED
  <2>1. ASSUME NEW t \in Thread, CallStep(t)
        PROVE  Goal
    <3>1. Aside(t) \/ PlaceOrder(t) \/ Start(t) \/ StopAutonomy(t)
      BY <2>1 DEF CallStep, Aside
    <3> QED
      BY <1>3, <1>4, <1>5, <1>6, <3>1
  <2>2. ASSUME ApprovalNext
        PROVE  Goal
    BY <1>1, <1>2, <1>7, <1>8, <1>9, <1>11, <2>1, <2>2 DEF ApprovalNext
  <2>3. Goal
    BY <1>10, <2>2
  <2> QED
    BY <2>3 DEF Goal

\* The agent keeps the invariants of the broker and of the runs; a run that is gone stays gone, and an
\* order on AutoAccount is placed by the current run before it is.
LEMMA MoneyKeeps ==
  ASSUME PaperInv, RunsInv, CallsTypeOK, [ApprovalNext]_allVars
  PROVE  /\ PaperInv' /\ RunsInv'
         /\ \A s \in Run : phase[s] = "gone" => phase'[s] = "gone"
         /\ Len(orders') > Len(orders) /\ orders'[Len(orders')].account = AutoAccount =>
              autonomy \in Run /\ phase[autonomy] # "gone"
<1> DEFINE Goal ==
         /\ PaperInv' /\ RunsInv'
         /\ \A s \in Run : phase[s] = "gone" => phase'[s] = "gone"
         /\ Len(orders') > Len(orders) /\ orders'[Len(orders')].account = AutoAccount =>
              autonomy \in Run /\ phase[autonomy] # "gone"
<1>1. PICK n \in Nat : n = Len(orders)
  BY LenProperties DEF PaperInv, TypeOK
<1>2. RunsTypeOK /\ NoneRest
  BY DEF RunsInv
<1>3. ASSUME UNCHANGED vars
      PROVE  PaperInv' /\ NoneRest' /\ Qty' = Qty /\ allocated' = allocated /\ orders' = orders
  <2>1. PaperInv'
    BY <1>3, QuoteKeeps DEF vars
  <2> QED
    BY <1>2, <1>3, <2>1 DEF vars, NoneRest, Qty
<1>4. ASSUME UNCHANGED runVars
      PROVE  UNCHANGED <<autonomy, phase, running, bar, kind, budget>>
  BY <1>4 DEF runVars
<1>5. ASSUME UNCHANGED paperVars
      PROVE  Goal
  <2>1. UNCHANGED vars /\ UNCHANGED runVars
    BY <1>5 DEF paperVars
  <2>2. RunsInv'
    BY <1>3, <1>4, <2>1, RunsStand
  <2> QED
    BY <1>1, <1>3, <1>4, <2>1, <2>2
<1>6. ASSUME NEW req \in OrderRequest, NEW q \in View, Place(Main, req, q), UNCHANGED runVars
      PROVE  Goal
  <2>1. PaperInv' /\ NoneRest' /\ accounts'[AutoAccount] = accounts[AutoAccount] /\ allocated' = allocated
    BY <1>2, <1>6, MainPlaced
  <2>2. RunsInv'
    BY <1>4, <1>6, <2>1, RunsStand DEF Qty
  <2>3. Len(orders') = n + 1 /\ orders'[n + 1].account = Main
    BY <1>1, <1>6, AutoApart, Placed DEF PaperInv
  <2> QED
    BY <1>4, <1>6, <2>1, <2>2, <2>3, AutoApart
<1>7. ASSUME NEW amount \in Int, StartAutonomy(amount)
      PROVE  Goal
  BY <1>1, <1>7, StartKeeps
<1>8. ASSUME NEW r \in 1..MaxRuns, SignalStop(r), UNCHANGED vars
      PROVE  Goal
  <2>1. UNCHANGED <<autonomy, phase, running, bar, kind, budget>>
    BY <1>8 DEF SignalStop
  <2>2. RunsInv'
    BY <1>3, <1>8, <2>1, RunsStand
  <2> QED
    BY <1>1, <1>3, <1>8, <2>1, <2>2
<1>9. ASSUME NEW r \in Run, RunStep(r)
      PROVE  Goal
  <2>1. /\ PaperInv' /\ RunsInv'
        /\ \A s \in Run : phase[s] = "gone" => phase'[s] = "gone"
        /\ Len(orders') # Len(orders) => r = autonomy /\ phase[r] # "gone"
    BY <1>9, RunStepKeeps
  <2>2. Len(orders') > Len(orders) => Len(orders') # Len(orders)
    BY <1>1
  <2> QED
    BY <2>1, <2>2
<1>10. ASSUME VisitOrder, UNCHANGED runVars
       PROVE  Goal
  <2>1. PaperInv' /\ NoneRest' /\ accounts'[AutoAccount] = accounts[AutoAccount] /\ allocated' = allocated
    BY <1>2, <1>10, AutoUnvisited
  <2>2. RunsInv'
    BY <1>4, <1>10, <2>1, RunsStand DEF Qty
  <2>3. Len(orders') = n
    BY <1>1, <1>10, VisitKeeps
  <2> QED
    BY <1>1, <1>4, <1>10, <2>1, <2>2, <2>3
<1>11. ASSUME EndQuote \/ \E q \in Quote : BeginQuote(q), UNCHANGED runVars
       PROVE  Goal
  <2>1. PaperInv'
    <3>1. CASE EndQuote
      BY <3>1, QuoteKeeps DEF EndQuote
    <3>2. CASE \E q \in Quote : BeginQuote(q)
      BY <3>2, QuoteKeeps DEF BeginQuote
    <3> QED
      BY <1>11, <3>1, <3>2
  <2>2. accounts' = accounts /\ orders' = orders /\ allocated' = allocated
    BY <1>11 DEF EndQuote, BeginQuote
  <2>3. RunsInv'
    BY <1>2, <1>4, <1>11, <2>2, RunsStand DEF Qty, NoneRest
  <2> QED
    BY <1>1, <1>4, <1>11, <2>1, <2>2, <2>3
<1> HIDE DEF Goal
<1>12. Goal
  BY <1>2, <1>5, <1>6, <1>7, <1>8, <1>9, <1>10, <1>11, StepKinds
<1> QED
  BY <1>12 DEF Goal

-----------------------------------------------------------------------------
(* Calls and proposals *)

\* A call that begins or ends changes the number of those at work by one.
LEMMA Flight ==
  ASSUME call \in [Thread -> Call], IsFiniteSet(InFlight), NEW t \in Thread, NEW c \in Call,
         call' = [call EXCEPT ![t] = c]
  PROVE  /\ Cardinality(InFlight) \in Nat /\ Cardinality(InFlight)' \in Nat
         /\ IsFiniteSet(InFlight)'
         /\ call[t].pc # "idle" /\ c.pc # "idle" => InFlight' = InFlight
         /\ call[t].pc # "idle" /\ c.pc = "idle" => Cardinality(InFlight)' = Cardinality(InFlight) - 1
         /\ call[t].pc = "idle" /\ c.pc # "idle" => Cardinality(InFlight)' = Cardinality(InFlight) + 1
         /\ call[t].pc = "idle" /\ c.pc = "idle" => InFlight' = InFlight
<1>1. InFlight' = IF c.pc = "idle" THEN InFlight \ {t} ELSE InFlight \cup {t}
  BY DEF InFlight
<1>2. t \in InFlight <=> call[t].pc # "idle"
  BY DEF InFlight
<1>3. Cardinality(InFlight) \in Nat
  BY FS_CardinalityType
<1>4. CASE call[t].pc # "idle" /\ c.pc # "idle"
  <2>1. InFlight' = InFlight
    BY <1>1, <1>2, <1>4
  <2> QED
    BY <1>3, <1>4, <2>1
<1>5. CASE call[t].pc # "idle" /\ c.pc = "idle"
  <2>1. /\ IsFiniteSet(InFlight \ {t})
        /\ Cardinality(InFlight \ {t}) = Cardinality(InFlight) - 1
    BY <1>2, <1>5, FS_RemoveElement
  <2>2. InFlight' = InFlight \ {t}
    BY <1>1, <1>5
  <2>3. Cardinality(InFlight \ {t}) \in Nat
    BY <2>1, FS_CardinalityType
  <2> QED
    BY <1>3, <1>5, <2>1, <2>2, <2>3
<1>6. CASE call[t].pc = "idle" /\ c.pc # "idle"
  <2>1. /\ IsFiniteSet(InFlight \cup {t})
        /\ Cardinality(InFlight \cup {t}) = Cardinality(InFlight) + 1
    BY <1>2, <1>6, FS_AddElement
  <2>2. InFlight' = InFlight \cup {t}
    BY <1>1, <1>6
  <2> QED
    BY <1>3, <1>6, <2>1, <2>2
<1>7. CASE call[t].pc = "idle" /\ c.pc = "idle"
  <2>1. InFlight' = InFlight
    BY <1>1, <1>2, <1>7
  <2> QED
    BY <1>3, <1>7, <2>1
<1> QED
  BY <1>4, <1>5, <1>6, <1>7

\* Where the steps of a call may take it: on with its own proposal, or to its end.
Continues(t, c) ==
  /\ call[t].pc # "idle" /\ Workable(c)
  /\ call' = [call EXCEPT ![t] = c]
  /\ c.id = 0 \/ (c.id = call[t].id /\ c.pc # "idle")
  /\ \/ runs' = runs /\ (c.pc # "record" => call[t].pc # "record")
     \/ /\ call[t].id # 0 /\ call[t].pc # "record" /\ c.id # 0 /\ c.pc = "record"
        /\ runs' = [runs EXCEPT ![call[t].id] = @ + 1]
  /\ UNCHANGED <<proposals, served>> /\ stopped' \subseteq Run

\* A step of one call that leaves the proposals alone keeps the invariant.
LEMMA CallContinues ==
  ASSUME CallsInv, NEW t \in Thread, NEW c \in Call, Continues(t, c)
  PROVE  CallsInv'
<1>1. /\ call \in [Thread -> Call] /\ \A u \in Thread : Workable(call[u])
      /\ proposals \in Seq(Proposal) /\ runs \in [Id -> Nat] /\ served \in 0..MaxCalls
  BY DEF CallsInv, CallsTypeOK
<1>2. Numbered /\ Approving /\ RunsCounted
  BY DEF CallsInv
<1>3. PICK n \in Nat : n = Len(proposals)
  BY <1>1, LenProperties
<1>4. /\ call[t].pc # "idle" /\ Workable(c) /\ proposals' = proposals /\ served' = served
      /\ stopped' \subseteq Run
      /\ \A u \in Thread : call'[u] = IF u = t THEN c ELSE call[u]
      /\ c.id = 0 \/ (c.id = call[t].id /\ c.pc # "idle")
  BY <1>1 DEF Continues
<1>5. /\ IsFiniteSet(InFlight) /\ Cardinality(InFlight) \in Nat
      /\ n + Cardinality(InFlight) <= served
      /\ IsFiniteSet(InFlight)' /\ Cardinality(InFlight)' \in Nat
      /\ Cardinality(InFlight)' <= Cardinality(InFlight)
  <2>1. IsFiniteSet(InFlight) /\ n + Cardinality(InFlight) <= served
    BY <1>2, <1>3 DEF Numbered
  <2>2. call' = [call EXCEPT ![t] = c]
    BY DEF Continues
  <2>3. CASE c.pc = "idle"
    <3>1. /\ Cardinality(InFlight) \in Nat /\ Cardinality(InFlight)' \in Nat
          /\ IsFiniteSet(InFlight)'
          /\ Cardinality(InFlight)' = Cardinality(InFlight) - 1
      BY <1>1, <1>4, <2>1, <2>2, <2>3, Flight
    <3> QED
      BY <2>1, <3>1
  <2>4. CASE c.pc # "idle"
    <3>1. InFlight' = InFlight /\ Cardinality(InFlight) \in Nat /\ IsFiniteSet(InFlight)'
      BY <1>1, <1>4, <2>1, <2>2, <2>4, Flight
    <3> QED
      BY <2>1, <3>1
  <2> QED
    BY <2>3, <2>4
<1>6. n <= MaxCalls
  BY <1>1, <1>3, <1>5, EnvelopeAssumption
<1>7. call[t].id # 0 => call[t].id \in 1..n /\ call[t].id \in Id
  BY <1>2, <1>3, <1>6, EnvelopeAssumption DEF Approving, Id
<1>8. CallsTypeOK'
  <2>1. call' \in [Thread -> Call]
    BY <1>1 DEF Continues
  <2>2. runs' \in [Id -> Nat]
    BY <1>1, <1>7 DEF Continues
  <2> QED
    BY <1>1, <1>4, <2>1, <2>2 DEF CallsTypeOK
<1>9. Numbered'
  <2>1. n + Cardinality(InFlight)' <= served'
    BY <1>1, <1>4, <1>5, EnvelopeAssumption
  <2> QED
    BY <1>3, <1>4, <1>5, <2>1 DEF Numbered
<1>10. \A i \in Id : i # call[t].id => runs'[i] = runs[i]
  BY <1>1 DEF Continues
<1>11. call[t].id # 0 => runs'[call[t].id] \in {runs[call[t].id], runs[call[t].id] + 1}
                         /\ (runs'[call[t].id] # runs[call[t].id] => runs[call[t].id] = 0)
  BY <1>1, <1>2, <1>7 DEF Continues, Approving
<1>12. Approving'
  <2> SUFFICES ASSUME NEW u \in Thread, call'[u].id # 0
               PROVE  /\ call'[u].pc # "idle"
                      /\ call'[u].id \in 1..n
                      /\ proposals[call'[u].id].status = "approved"
                      /\ call'[u].pc # "record" => runs'[call'[u].id] = 0
                      /\ \A v \in Thread : call'[v].id = call'[u].id => v = u
    BY <1>3, <1>4 DEF Approving
  <2>1. \A v \in Thread : call'[v].id # 0 => call'[v].id = call[v].id
    BY <1>4
  <2>2. /\ call[u].id # 0 /\ call[u].id \in 1..n /\ call[u].pc # "idle"
        /\ proposals[call[u].id].status = "approved"
        /\ call[u].pc # "record" => runs[call[u].id] = 0
        /\ \A v \in Thread : call[v].id = call[u].id => v = u
    BY <1>2, <1>3, <2>1 DEF Approving
  <2>3. \A v \in Thread : call'[v].id = call'[u].id => v = u
    BY <2>1, <2>2
  <2>4. CASE u = t
    <3>1. call'[u].pc # "record" => runs'[call'[u].id] = 0
      BY <1>4, <2>1, <2>2, <2>4 DEF Continues
    <3> QED
      BY <1>4, <2>1, <2>2, <2>3, <2>4, <3>1
  <2>5. CASE u # t
    <3>1. call[u].id # call[t].id /\ call[u].id \in Id
      BY <1>6, <2>2, <2>5, EnvelopeAssumption DEF Id
    <3> QED
      BY <1>4, <1>10, <2>2, <2>3, <2>5, <3>1
  <2> QED
    BY <2>4, <2>5
<1>13. RunsCounted'
  <2>1. ASSUME NEW i \in 1..n
        PROVE  /\ runs'[i] \in {0, 1}
               /\ proposals[i].status \notin {"approved", "executed"} => runs'[i] = 0
    <3>1. i \in Id
      BY <1>6, EnvelopeAssumption DEF Id
    <3>2. /\ runs[i] \in {0, 1}
          /\ proposals[i].status \notin {"approved", "executed"} => runs[i] = 0
      BY <1>2, <1>3 DEF RunsCounted
    <3>3. CASE i # call[t].id
      BY <1>10, <3>1, <3>2, <3>3
    <3>4. CASE i = call[t].id
      <4>1. i # 0 /\ proposals[i].status = "approved"
        BY <1>2, <3>4 DEF Approving
      <4> QED
        BY <1>11, <3>2, <3>4, <4>1
    <3> QED
      BY <3>3, <3>4
  <2>2. ASSUME NEW i \in Id, i > n
        PROVE  runs'[i] = 0
    <3>1. i # call[t].id
      <4>1. i # 0 /\ i \notin 1..n
        BY <2>2, EnvelopeAssumption DEF Id
      <4> QED
        BY <1>7, <4>1
    <3> QED
      BY <1>2, <1>3, <1>10, <2>2, <3>1 DEF RunsCounted
  <2> QED
    BY <1>3, <1>4, <2>1, <2>2 DEF RunsCounted
<1> QED
  BY <1>8, <1>9, <1>12, <1>13 DEF CallsInv

\* A proposal with another status, among the others.
LEMMA StatusSet ==
  ASSUME proposals \in Seq(Proposal), NEW i \in 1..Len(proposals), NEW status \in ProposalStatus,
         SetStatus(i, status)
  PROVE  /\ proposals' \in Seq(Proposal) /\ Len(proposals') = Len(proposals)
         /\ proposals'[i].status = status
         /\ \A k \in 1..Len(proposals) : k # i => proposals'[k] = proposals[k]
<1> DEFINE p == [proposals[i] EXCEPT !.status = status]
<1>1. proposals[i] \in Proposal
  OBVIOUS
<1>2. p \in Proposal /\ p.status = status
  BY <1>1 DEF Proposal
<1>3. proposals' = [proposals EXCEPT ![i] = p]
  BY DEF SetStatus
<1> HIDE DEF p
<1>4. /\ [proposals EXCEPT ![i] = p] \in Seq(Proposal)
      /\ Len([proposals EXCEPT ![i] = p]) = Len(proposals)
      /\ \A k \in 1..Len(proposals) :
           [proposals EXCEPT ![i] = p][k] = IF k = i THEN p ELSE proposals[k]
  BY <1>2, ExceptSeq
<1> QED
  BY <1>2, <1>3, <1>4

\* Proposals that were not approved may take any other status but an approval; the calls and what ran
\* stay.
Turns ==
  /\ proposals' \in Seq(Proposal) /\ Len(proposals') = Len(proposals)
  /\ \A i \in 1..Len(proposals) :
       \/ proposals'[i].status = proposals[i].status
       \/ {proposals[i].status, proposals'[i].status} \cap {"approved", "executed"} = {}
  /\ UNCHANGED <<call, runs>>
  /\ served' \in served..MaxCalls /\ stopped' = stopped

\* Such a step keeps the invariant.
LEMMA StatusTurns ==
  ASSUME CallsInv, Turns
  PROVE  CallsInv'
<1>1. /\ proposals \in Seq(Proposal) /\ served \in 0..MaxCalls /\ CallsTypeOK
      /\ Numbered /\ Approving /\ RunsCounted
  BY DEF CallsInv, CallsTypeOK
<1>2. PICK n \in Nat : n = Len(proposals)
  BY <1>1, LenProperties
<1>3. /\ proposals' \in Seq(Proposal) /\ Len(proposals') = n /\ call' = call /\ runs' = runs
      /\ served' \in served..MaxCalls /\ stopped' = stopped
      /\ \A i \in 1..n :
           \/ proposals'[i].status = proposals[i].status
           \/ /\ proposals[i].status \notin {"approved", "executed"}
              /\ proposals'[i].status \notin {"approved", "executed"}
  BY <1>2 DEF Turns
<1>4. PICK s \in Nat, z \in Nat, m \in Nat :
        s = served /\ z = served' /\ m = MaxCalls /\ s <= z /\ z <= m
  BY <1>1, <1>3, EnvelopeAssumption
<1>5. CallsTypeOK'
  BY <1>1, <1>3, <1>4 DEF CallsTypeOK
<1>6. Numbered'
  <2>1. InFlight' = InFlight /\ IsFiniteSet(InFlight) /\ n + Cardinality(InFlight) <= s
    BY <1>1, <1>2, <1>3, <1>4 DEF Numbered, InFlight
  <2>2. Cardinality(InFlight) \in Nat
    BY <2>1, FS_CardinalityType
  <2>3. n + Cardinality(InFlight) <= z
    BY <1>4, <2>1, <2>2
  <2> QED
    BY <1>3, <1>4, <2>1, <2>3 DEF Numbered
<1>7. Approving'
  BY <1>1, <1>2, <1>3 DEF Approving
<1>8. RunsCounted'
  BY <1>1, <1>2, <1>3 DEF RunsCounted
<1> QED
  BY <1>5, <1>6, <1>7, <1>8 DEF CallsInv

\* A call begins; it has a proposal's number only if it has just approved it.
Begins(t, c) ==
  /\ call[t].pc = "idle" /\ c.pc \notin {"idle", "record"} /\ Workable(c)
  /\ call' = [call EXCEPT ![t] = c]
  /\ served < MaxCalls /\ served' = served + 1
  /\ \/ c.id = 0 /\ proposals' = proposals
     \/ /\ c.id \in 1..Len(proposals) /\ proposals[c.id].status = "pending"
        /\ SetStatus(c.id, "approved")
  /\ UNCHANGED <<runs, stopped>>

\* A call that begins keeps the invariant.
LEMMA CallBegins ==
  ASSUME CallsInv, NEW t \in Thread, NEW c \in Call, Begins(t, c)
  PROVE  CallsInv'
<1>1. /\ call \in [Thread -> Call] /\ \A u \in Thread : Workable(call[u])
      /\ proposals \in Seq(Proposal) /\ runs \in [Id -> Nat] /\ served \in 0..MaxCalls
      /\ stopped \subseteq Run /\ Numbered /\ Approving /\ RunsCounted
  BY DEF CallsInv, CallsTypeOK
<1>2. PICK n \in Nat : n = Len(proposals)
  BY <1>1, LenProperties
<1>3. /\ call[t].pc = "idle" /\ c.pc \notin {"idle", "record"} /\ Workable(c)
      /\ \A u \in Thread : call'[u] = IF u = t THEN c ELSE call[u]
      /\ served < MaxCalls /\ served' = served + 1 /\ runs' = runs /\ stopped' = stopped
  BY <1>1 DEF Begins
<1>4. call[t].id = 0
  BY <1>1, <1>3 DEF Approving
<1>5. /\ proposals' \in Seq(Proposal) /\ Len(proposals') = n
      /\ \A i \in 1..n :
           \/ i # c.id /\ proposals'[i] = proposals[i]
           \/ /\ i = c.id /\ proposals[i].status = "pending" /\ proposals'[i].status = "approved"
      /\ c.id = 0 \/ c.id \in 1..n
  <2>1. CASE c.id = 0 /\ proposals' = proposals
    <3>1. \A i \in 1..n : i # c.id
      BY <2>1
    <3> QED
      BY <1>1, <1>2, <2>1, <3>1
  <2>2. CASE /\ c.id \in 1..Len(proposals) /\ proposals[c.id].status = "pending"
             /\ SetStatus(c.id, "approved")
    <3>1. "approved" \in ProposalStatus
      BY DEF ProposalStatus
    <3>2. /\ proposals' \in Seq(Proposal) /\ Len(proposals') = Len(proposals)
          /\ proposals'[c.id].status = "approved"
          /\ \A k \in 1..Len(proposals) : k # c.id => proposals'[k] = proposals[k]
      BY <1>1, <2>2, <3>1, StatusSet
    <3> QED
      BY <1>2, <2>2, <3>2
  <2> QED
    BY <2>1, <2>2 DEF Begins
<1>6. PICK s \in Nat, m \in Nat : s = served /\ m = MaxCalls /\ s < m /\ served' = s + 1
  <2>1. MaxCalls \in Nat /\ served \in Nat
    BY <1>1, EnvelopeAssumption
  <2>2. served < MaxCalls /\ served' = served + 1
    BY <1>3
  <2> QED
    BY <2>1, <2>2
<1>7. Numbered' /\ n <= m
  <2>1. IsFiniteSet(InFlight) /\ n + Cardinality(InFlight) <= s
    BY <1>1, <1>2, <1>6 DEF Numbered
  <2>2. call' = [call EXCEPT ![t] = c]
    BY DEF Begins
  <2>3. /\ Cardinality(InFlight) \in Nat /\ IsFiniteSet(InFlight)'
        /\ Cardinality(InFlight)' = Cardinality(InFlight) + 1
    BY <1>1, <1>3, <2>1, <2>2, Flight
  <2>4. n + Cardinality(InFlight)' <= s + 1
    BY <1>6, <2>1, <2>3
  <2>5. n <= m
    BY <1>6, <2>1, <2>3
  <2> QED
    BY <1>5, <1>6, <2>3, <2>4, <2>5 DEF Numbered
<1>8. CallsTypeOK'
  <2>1. call' \in [Thread -> Call]
    BY <1>1 DEF Begins
  <2>2. s + 1 \in 0..m
    BY <1>6
  <2> QED
    BY <1>1, <1>3, <1>5, <1>6, <2>1, <2>2 DEF CallsTypeOK
<1>9. Approving'
  <2> SUFFICES ASSUME NEW u \in Thread, call'[u].id # 0
               PROVE  /\ call'[u].pc # "idle"
                      /\ call'[u].id \in 1..n
                      /\ proposals'[call'[u].id].status = "approved"
                      /\ call'[u].pc # "record" => runs[call'[u].id] = 0
                      /\ \A v \in Thread : call'[v].id = call'[u].id => v = u
    BY <1>3, <1>5 DEF Approving
  <2>1. \A v \in Thread : call[v].id # 0 =>
          /\ call[v].id \in 1..n /\ call[v].id # c.id /\ call[v].pc # "idle"
          /\ proposals[call[v].id].status = "approved"
          /\ call[v].pc # "record" => runs[call[v].id] = 0
          /\ \A w \in Thread : call[w].id = call[v].id => w = v
    BY <1>1, <1>2, <1>5 DEF Approving
  <2>2. CASE u = t
    <3>1. c.id \in 1..n /\ proposals[c.id].status = "pending" /\ proposals'[c.id].status = "approved"
      BY <1>3, <1>5, <2>2
    <3>2. runs[c.id] = 0
      BY <1>1, <1>2, <3>1 DEF RunsCounted
    <3>3. \A v \in Thread : v # t => call'[v].id # c.id
      BY <1>3, <2>1, <3>1
    <3> QED
      BY <1>3, <2>2, <3>1, <3>2, <3>3
  <2>3. CASE u # t
    <3>1. call'[u] = call[u] /\ call[u].id # 0 /\ call[u].id # c.id
      BY <1>3, <2>1, <2>3
    <3>2. proposals'[call[u].id] = proposals[call[u].id]
      BY <1>5, <2>1, <3>1
    <3> QED
      BY <1>3, <2>1, <2>3, <3>1, <3>2
  <2> QED
    BY <2>2, <2>3
<1>10. RunsCounted'
  <2>1. \A i \in 1..n : proposals'[i].status \notin {"approved", "executed"} =>
          proposals[i].status \notin {"approved", "executed"}
    BY <1>5
  <2> QED
    BY <1>1, <1>2, <1>3, <1>5, <2>1 DEF RunsCounted
<1> QED
  BY <1>7, <1>8, <1>9, <1>10 DEF CallsInv

\* A call that ends with a proposal keeps the invariant: its number is new.
LEMMA ProposeKeeps ==
  ASSUME CallsInv, NEW t \in Thread, Propose(t)
  PROVE  CallsInv'
<1>1. /\ call \in [Thread -> Call] /\ \A u \in Thread : Workable(call[u])
      /\ proposals \in Seq(Proposal) /\ runs \in [Id -> Nat] /\ served \in 0..MaxCalls
      /\ stopped \subseteq Run /\ Numbered /\ Approving /\ RunsCounted
  BY DEF CallsInv, CallsTypeOK
<1>2. PICK n \in Nat : n = Len(proposals)
  BY <1>1, LenProperties
<1> DEFINE p == [tool |-> call[t].tool, status |-> "pending"]
<1>3. /\ call[t].pc = "propose" /\ proposals' = Append(proposals, p)
      /\ call' = [call EXCEPT ![t] = Idle] /\ runs' = runs /\ served' = served /\ stopped' = stopped
  BY DEF Propose, At, Done
<1>4. p \in Proposal /\ p.status = "pending"
  <2>1. call[t].tool \in Tool
    BY <1>1, <1>3 DEF Workable
  <2> QED
    BY <2>1 DEF Proposal, ProposalStatus
<1>5. Idle \in Call /\ Idle.pc = "idle" /\ Idle.id = 0
  BY MaxRunsAssumption DEF Idle, Call, Pc
<1> HIDE DEF p
<1>6. /\ proposals' \in Seq(Proposal) /\ Len(proposals') = n + 1 /\ proposals'[n + 1] = p
      /\ \A i \in 1..n : proposals'[i] = proposals[i]
  BY <1>1, <1>2, <1>3, <1>4, AppendProperties
<1>7. \A u \in Thread : call'[u] = IF u = t THEN Idle ELSE call[u]
  BY <1>1, <1>3
<1>8. PICK s \in Nat, m \in Nat : s = served /\ m = MaxCalls /\ s <= m
  <2>1. MaxCalls \in Nat /\ served \in 0..MaxCalls
    BY <1>1, EnvelopeAssumption
  <2> QED
    BY <2>1
<1>9. Numbered' /\ n + 1 <= m
  <2>1. IsFiniteSet(InFlight) /\ n + Cardinality(InFlight) <= s
    BY <1>1, <1>2, <1>8 DEF Numbered
  <2>2. /\ Cardinality(InFlight) \in Nat /\ Cardinality(InFlight)' \in Nat
        /\ IsFiniteSet(InFlight)' /\ Cardinality(InFlight)' = Cardinality(InFlight) - 1
    <3>1. call[t].pc # "idle"
      BY <1>3
    <3> QED
      BY <1>1, <1>3, <1>5, <2>1, <3>1, Flight
  <2>3. (n + 1) + Cardinality(InFlight)' <= s /\ n + 1 <= m
    BY <1>8, <2>1, <2>2
  <2> QED
    BY <1>3, <1>6, <1>8, <2>2, <2>3 DEF Numbered
<1>10. CallsTypeOK'
  <2>1. call' \in [Thread -> Call]
    BY <1>1, <1>3, <1>5
  <2>2. Workable(Idle)
    BY <1>5 DEF Workable
  <2> QED
    BY <1>1, <1>3, <1>6, <1>7, <2>1, <2>2 DEF CallsTypeOK
<1>11. Approving'
  <2> SUFFICES ASSUME NEW u \in Thread, call'[u].id # 0
               PROVE  /\ call'[u].pc # "idle"
                      /\ call'[u].id \in 1..n + 1
                      /\ proposals'[call'[u].id].status = "approved"
                      /\ call'[u].pc # "record" => runs[call'[u].id] = 0
                      /\ \A v \in Thread : call'[v].id = call'[u].id => v = u
    BY <1>3, <1>6 DEF Approving
  <2>1. u # t /\ call'[u] = call[u]
    BY <1>5, <1>7
  <2>2. /\ call[u].id # 0 /\ call[u].id \in 1..n /\ call[u].pc # "idle"
        /\ proposals[call[u].id].status = "approved"
        /\ call[u].pc # "record" => runs[call[u].id] = 0
        /\ \A v \in Thread : call[v].id = call[u].id => v = u
    BY <1>1, <1>2, <2>1 DEF Approving
  <2>3. call[u].id \in 1..n + 1 /\ proposals'[call[u].id] = proposals[call[u].id]
    BY <1>6, <2>2
  <2>4. \A v \in Thread : call'[v].id = call[u].id => v = u
    BY <1>5, <1>7, <2>2
  <2> QED
    BY <2>1, <2>2, <2>3, <2>4
<1>12. RunsCounted'
  <2>1. n + 1 \in Id /\ n + 1 > n
    BY <1>8, <1>9 DEF Id
  <2>2. runs[n + 1] = 0
    BY <1>1, <1>2, <2>1 DEF RunsCounted
  <2>3. \A i \in 1..n + 1 : i \in 1..n \/ i = n + 1
    BY <1>2
  <2>4. \A i \in Id : i > n + 1 => i > n
    BY <1>8 DEF Id
  <2> QED
    BY <1>1, <1>2, <1>3, <1>6, <2>2, <2>3, <2>4 DEF RunsCounted
<1> QED
  BY <1>9, <1>10, <1>11, <1>12 DEF CallsInv

\* Approve records the result; nobody else has the proposal's number.
LEMMA RecordKeeps ==
  ASSUME CallsInv, NEW t \in Thread, RecordResult(t)
  PROVE  CallsInv'
<1>1. /\ call \in [Thread -> Call] /\ \A u \in Thread : Workable(call[u])
      /\ proposals \in Seq(Proposal) /\ runs \in [Id -> Nat] /\ served \in 0..MaxCalls
      /\ stopped \subseteq Run /\ Numbered /\ Approving /\ RunsCounted
  BY DEF CallsInv, CallsTypeOK
<1>2. PICK n \in Nat : n = Len(proposals)
  BY <1>1, LenProperties
<1> DEFINE i == call[t].id
<1>3. /\ call[t].pc = "record" /\ SetStatus(i, "executed")
      /\ call' = [call EXCEPT ![t] = Idle] /\ runs' = runs /\ served' = served /\ stopped' = stopped
  BY DEF RecordResult, At, Done
<1>4. i # 0
  BY <1>1, <1>3 DEF Workable
<1>5. i \in 1..n
  BY <1>1, <1>2, <1>4 DEF Approving
<1> HIDE DEF i
<1>6. /\ proposals' \in Seq(Proposal) /\ Len(proposals') = n /\ proposals'[i].status = "executed"
      /\ \A k \in 1..n : k # i => proposals'[k] = proposals[k]
  <2>1. "executed" \in ProposalStatus
    BY DEF ProposalStatus
  <2> QED
    BY <1>1, <1>2, <1>3, <1>5, <2>1, StatusSet
<1>7. Idle \in Call /\ Idle.pc = "idle" /\ Idle.id = 0
  BY MaxRunsAssumption DEF Idle, Call, Pc
<1>8. \A u \in Thread : call'[u] = IF u = t THEN Idle ELSE call[u]
  BY <1>1, <1>3
<1>9. PICK s \in Nat, m \in Nat : s = served /\ m = MaxCalls /\ s <= m
  BY <1>1, EnvelopeAssumption
<1>10. Numbered'
  <2>1. IsFiniteSet(InFlight) /\ n + Cardinality(InFlight) <= s
    BY <1>1, <1>2, <1>9 DEF Numbered
  <2>2. /\ Cardinality(InFlight) \in Nat /\ Cardinality(InFlight)' \in Nat
        /\ IsFiniteSet(InFlight)' /\ Cardinality(InFlight)' = Cardinality(InFlight) - 1
    <3>1. call[t].pc # "idle"
      BY <1>3
    <3> QED
      BY <1>1, <1>3, <1>7, <2>1, <3>1, Flight
  <2>3. n + Cardinality(InFlight)' <= s
    BY <1>9, <2>1, <2>2
  <2> QED
    BY <1>3, <1>6, <1>9, <2>2, <2>3 DEF Numbered
<1>11. CallsTypeOK'
  <2>1. call' \in [Thread -> Call]
    BY <1>1, <1>3, <1>7
  <2>2. Workable(Idle)
    BY <1>7 DEF Workable
  <2> QED
    BY <1>1, <1>3, <1>6, <1>8, <2>1, <2>2 DEF CallsTypeOK
<1>12. Approving'
  <2> SUFFICES ASSUME NEW u \in Thread, call'[u].id # 0
               PROVE  /\ call'[u].pc # "idle"
                      /\ call'[u].id \in 1..n
                      /\ proposals'[call'[u].id].status = "approved"
                      /\ call'[u].pc # "record" => runs[call'[u].id] = 0
                      /\ \A v \in Thread : call'[v].id = call'[u].id => v = u
    BY <1>3, <1>6 DEF Approving
  <2>1. u # t /\ call'[u] = call[u]
    BY <1>7, <1>8
  <2>2. /\ call[u].id # 0 /\ call[u].id \in 1..n /\ call[u].pc # "idle"
        /\ proposals[call[u].id].status = "approved"
        /\ call[u].pc # "record" => runs[call[u].id] = 0
        /\ \A v \in Thread : call[v].id = call[u].id => v = u
    BY <1>1, <1>2, <2>1 DEF Approving
  <2>3. call[u].id # i /\ proposals'[call[u].id] = proposals[call[u].id]
    BY <1>6, <2>1, <2>2 DEF i
  <2>4. \A v \in Thread : call'[v].id = call[u].id => v = u
    BY <1>7, <1>8, <2>2
  <2> QED
    BY <2>1, <2>2, <2>3, <2>4
<1>13. RunsCounted'
  BY <1>1, <1>2, <1>3, <1>6 DEF RunsCounted
<1> QED
  BY <1>10, <1>11, <1>12, <1>13 DEF CallsInv

\* A call with another place to go on from is a call.
LEMMA Gone ==
  ASSUME NEW c \in Call, NEW pc \in Pc
  PROVE  /\ [c EXCEPT !.pc = pc] \in Call
         /\ [c EXCEPT !.pc = pc].pc = pc /\ [c EXCEPT !.pc = pc].tool = c.tool
         /\ [c EXCEPT !.pc = pc].id = c.id /\ [c EXCEPT !.pc = pc].run = c.run
         /\ [c EXCEPT !.pc = pc].gate = c.gate
         /\ Idle \in Call /\ Idle.pc = "idle" /\ Idle.id = 0
BY MaxRunsAssumption DEF Call, Idle, Pc

\* A call that goes on with its tool keeps the invariant.
LEMMA CallGoesOn ==
  ASSUME CallsInv, NEW t \in Thread, call[t].pc \notin {"idle", "start", "record"},
         NEW pc \in Pc \ {"idle", "await", "record"}, Goto(t, pc),
         UNCHANGED <<proposals, runs, served, stopped>>
  PROVE  CallsInv'
<1>1. call \in [Thread -> Call] /\ Workable(call[t]) /\ stopped \subseteq Run
  BY DEF CallsInv, CallsTypeOK
<1> DEFINE c == [call[t] EXCEPT !.pc = pc]
<1>2. c \in Call /\ c.pc = pc /\ c.tool = call[t].tool /\ c.id = call[t].id
  BY <1>1, Gone
<1>3. call' = [call EXCEPT ![t] = c]
  BY DEF Goto
<1> HIDE DEF c
<1>4. Workable(c)
  BY <1>1, <1>2 DEF Workable
<1>5. Continues(t, c)
  BY <1>1, <1>2, <1>3, <1>4 DEF Continues
<1> QED
  BY <1>2, <1>5, CallContinues

\* A call that returns keeps the invariant, whether its tool ran or not.
LEMMA CallReturns ==
  ASSUME CallsInv, NEW t \in Thread, call[t].pc \notin {"idle", "record"}, Return(t),
         UNCHANGED <<proposals, served, stopped>>, runs' = runs \/ CountRun(t)
  PROVE  CallsInv'
<1>1. /\ call \in [Thread -> Call] /\ Workable(call[t]) /\ stopped \subseteq Run
      /\ runs \in [Id -> Nat]
  BY DEF CallsInv, CallsTypeOK
<1>2. CASE call[t].id = 0
  <2>1. call' = [call EXCEPT ![t] = Idle] /\ Idle \in Call /\ Idle.pc = "idle" /\ Idle.id = 0
    BY <1>1, <1>2, Gone DEF Return, Done, Pc
  <2>2. Workable(Idle)
    BY <2>1 DEF Workable
  <2>3. runs' = runs
    BY <1>2 DEF CountRun
  <2>4. Continues(t, Idle)
    BY <1>1, <2>1, <2>2, <2>3 DEF Continues
  <2> QED
    BY <2>1, <2>4, CallContinues
<1>3. CASE call[t].id # 0
  <2> DEFINE c == [call[t] EXCEPT !.pc = "record"]
  <2>1. c \in Call /\ c.pc = "record" /\ c.tool = call[t].tool /\ c.id = call[t].id
    BY <1>1, Gone DEF Pc
  <2>2. call' = [call EXCEPT ![t] = c]
    BY <1>3 DEF Return, Goto
  <2> HIDE DEF c
  <2>3. Workable(c)
    BY <1>1, <1>3, <2>1 DEF Workable
  <2>4. runs' = runs \/ runs' = [runs EXCEPT ![call[t].id] = @ + 1]
    BY <1>3 DEF CountRun
  <2>5. Continues(t, c)
    BY <1>1, <1>3, <2>1, <2>2, <2>3, <2>4 DEF Continues
  <2> QED
    BY <2>1, <2>5, CallContinues
<1> QED
  BY <1>2, <1>3

\* A call that is done without a proposal keeps the invariant.
LEMMA CallDone ==
  ASSUME CallsInv, NEW t \in Thread, call[t].pc \notin {"idle", "record"}, Done(t),
         UNCHANGED <<proposals, runs, served>>, stopped' \subseteq Run
  PROVE  CallsInv'
<1>1. call \in [Thread -> Call]
  BY DEF CallsInv, CallsTypeOK
<1>2. call' = [call EXCEPT ![t] = Idle] /\ Idle \in Call /\ Idle.pc = "idle" /\ Idle.id = 0
  BY <1>1, Gone DEF Done, Pc
<1>3. Workable(Idle)
  BY <1>2 DEF Workable
<1>4. Continues(t, Idle)
  BY <1>2, <1>3 DEF Continues
<1> QED
  BY <1>2, <1>4, CallContinues

\* A request of the model or of a client begins a call.
LEMMA InvokeKeeps ==
  ASSUME CallsInv, NEW t \in Thread, NEW tool \in Tool, Invoke(t, tool)
  PROVE  CallsInv'
<1> DEFINE pc == IF tool.name = "other" THEN "propose" ELSE Entry(tool)
           c == [Idle EXCEPT !.pc = pc, !.tool = tool, !.gate = TRUE]
<1>1. tool \in AnyTool
  BY ToolAssumption DEF AnyTool
<1>2. pc \in Pc \ {"idle", "start", "await", "record"}
  BY <1>1 DEF AnyTool, Entry, Pc
<1> HIDE DEF pc
<1>3. c \in Call /\ c.pc = pc /\ c.tool = tool /\ c.id = 0
  <2>1. Idle \in Call /\ Idle.id = 0
    BY MaxRunsAssumption DEF Call, Idle, Pc
  <2>2. pc \in Pc /\ TRUE \in BOOLEAN
    BY <1>2
  <2> QED
    BY <1>1, <2>1, <2>2 DEF Call
<1>4. /\ call[t].pc = "idle" /\ call' = [call EXCEPT ![t] = c] /\ served < MaxCalls
      /\ served' = served + 1 /\ UNCHANGED <<proposals, runs, stopped>>
  BY DEF Invoke, At, ringVars, pc
<1> HIDE DEF c
<1>5. Workable(c)
  BY <1>1, <1>2, <1>3 DEF Workable
<1>6. Begins(t, c)
  BY <1>2, <1>3, <1>4, <1>5 DEF Begins
<1> QED
  BY <1>3, <1>6, CallBegins

\* Time to serve one more request.
LEMMA OneMore ==
  ASSUME CallsInv, served < MaxCalls, served' = served + 1
  PROVE  served' \in served..MaxCalls
<1>1. MaxCalls \in Nat /\ served \in 0..MaxCalls
  BY EnvelopeAssumption DEF CallsInv, CallsTypeOK
<1> QED
  BY <1>1

\* An expired proposal turns.
LEMMA ExpireTurns ==
  ASSUME CallsInv, NEW i \in DOMAIN proposals, ExpireNow(i),
         UNCHANGED <<call, runs, stopped>>, served' \in served..MaxCalls
  PROVE  CallsInv'
<1>1. proposals \in Seq(Proposal) /\ i \in 1..Len(proposals)
  BY DEF CallsInv, CallsTypeOK
<1>2. Turns
  <2>1. CASE proposals[i].status = "pending"
    <3>1. SetStatus(i, "expired") /\ "expired" \in ProposalStatus
      BY <2>1 DEF ExpireNow, ProposalStatus
    <3> QED
      BY <1>1, <2>1, <3>1, StatusSet DEF Turns
  <2>2. CASE proposals[i].status # "pending"
    <3>1. proposals' = proposals
      BY <2>2 DEF ExpireNow
    <3> QED
      BY <1>1, <3>1 DEF Turns
  <2> QED
    BY <2>1, <2>2
<1> QED
  BY <1>2, StatusTurns

\* An approval in time begins the call of the proposal's tool; one too late expires it.
LEMMA ApproveKeeps ==
  ASSUME CallsInv, NEW t \in Thread, NEW i \in DOMAIN proposals, Approve(t, i)
  PROVE  CallsInv'
<1>1. proposals \in Seq(Proposal) /\ i \in 1..Len(proposals)
  BY DEF CallsInv, CallsTypeOK
<1>2. /\ call[t].pc = "idle" /\ served < MaxCalls /\ served' = served + 1
      /\ UNCHANGED <<runs, stopped>>
      /\ proposals[i].status \in {"pending", "expired"}
  BY DEF Approve, ApproveAgain, At
<1>3. CASE Expired(i)
  <2>1. ExpireNow(i) /\ call' = call
    BY <1>3 DEF Approve, ApproveAgain
  <2> QED
    BY <1>2, <2>1, OneMore, ExpireTurns
<1>4. CASE ~Expired(i)
  <2> DEFINE tool == proposals[i].tool
             c == [Idle EXCEPT !.pc = Entry(tool), !.tool = tool, !.id = i]
  <2>1. proposals[i].status = "pending" /\ tool \in Tool /\ tool \in AnyTool /\ i # 0
    <3>1. proposals[i].status = "pending"
      BY <1>2, <1>4 DEF Expired
    <3>2. proposals[i] \in Proposal
      BY <1>1
    <3>3. tool \in Tool
      BY <3>2 DEF Proposal
    <3>4. tool \in AnyTool
      BY <3>3, ToolAssumption DEF AnyTool
    <3> QED
      BY <1>1, <3>1, <3>3, <3>4
  <2>2. Entry(tool) \in Pc \ {"idle", "start", "await", "record"}
    BY <2>1 DEF AnyTool, Entry, Pc
  <2>3. SetStatus(i, "approved") /\ call' = [call EXCEPT ![t] = c]
    BY <1>4 DEF Approve, ApproveAgain
  <2> HIDE DEF tool
  <2>4. c \in Call /\ c.pc = Entry(tool) /\ c.tool = tool /\ c.id = i
    <3>1. Idle \in Call
      BY MaxRunsAssumption DEF Call, Idle, Pc
    <3>2. Entry(tool) \in Pc /\ i \in Nat
      BY <1>1, <2>2
    <3> QED
      BY <2>1, <3>1, <3>2 DEF Call
  <2> HIDE DEF c
  <2>5. Workable(c)
    BY <2>1, <2>2, <2>4 DEF Workable
  <2>6. Begins(t, c)
    BY <1>1, <1>2, <2>1, <2>2, <2>3, <2>4, <2>5 DEF Begins
  <2> QED
    BY <2>4, <2>6, CallBegins
<1> QED
  BY <1>3, <1>4

\* A rejection approves nothing.
LEMMA RejectKeeps ==
  ASSUME CallsInv, NEW t \in Thread, NEW i \in DOMAIN proposals, Reject(t, i)
  PROVE  CallsInv'
<1>1. proposals \in Seq(Proposal) /\ i \in 1..Len(proposals)
  BY DEF CallsInv, CallsTypeOK
<1>2. /\ served < MaxCalls /\ served' = served + 1 /\ UNCHANGED <<runs, stopped, call>>
      /\ proposals[i].status \in {"pending", "expired"}
  BY DEF Reject
<1>3. CASE Expired(i)
  BY <1>2, <1>3, OneMore, ExpireTurns DEF Reject
<1>4. CASE ~Expired(i)
  <2>1. SetStatus(i, "rejected") /\ "rejected" \in ProposalStatus
    BY <1>4 DEF Reject, ProposalStatus
  <2>2. Turns
    BY <1>1, <1>2, <2>1, OneMore, StatusSet DEF Turns
  <2> QED
    BY <2>2, StatusTurns
<1> QED
  BY <1>3, <1>4

\* Listing approves nothing.
LEMMA ListKeeps ==
  ASSUME CallsInv, ListProposals
  PROVE  CallsInv'
<1>1. /\ proposals \in Seq(Proposal) /\ served \in 0..MaxCalls /\ served' = served
      /\ UNCHANGED <<call, runs, stopped>>
  BY DEF CallsInv, CallsTypeOK, ListProposals
<1>2. PICK n \in Nat : n = Len(proposals)
  BY <1>1, LenProperties
<1> DEFINE to(i) == IF Kept(i) /\ Expired(i) THEN [proposals[i] EXCEPT !.status = "expired"]
                    ELSE proposals[i]
<1>3. proposals' = [i \in 1..n |-> to(i)]
  BY <1>1, <1>2 DEF ListProposals
<1>4. \A i \in 1..n :
        /\ to(i) \in Proposal
        /\ \/ to(i).status = proposals[i].status
           \/ proposals[i].status \in {"pending", "expired"} /\ to(i).status = "expired"
  <2> SUFFICES ASSUME NEW i \in 1..n
               PROVE  /\ to(i) \in Proposal
                      /\ \/ to(i).status = proposals[i].status
                         \/ /\ proposals[i].status \in {"pending", "expired"}
                            /\ to(i).status = "expired"
    OBVIOUS
  <2>1. proposals[i] \in Proposal
    BY <1>1, <1>2
  <2> QED
    BY <2>1 DEF Expired, Proposal, ProposalStatus
<1> HIDE DEF to
<1>5. proposals' \in Seq(Proposal) /\ Len(proposals') = n /\ \A i \in 1..n : proposals'[i] = to(i)
  BY <1>2, <1>3, <1>4
<1>6. served \in served..MaxCalls
  BY <1>1, EnvelopeAssumption
<1>7. Turns
  BY <1>1, <1>2, <1>4, <1>5, <1>6 DEF Turns
<1> QED
  BY <1>7, StatusTurns

\* What leaves the calls and the proposals alone.
LEMMA CallsStand ==
  ASSUME CallsInv, UNCHANGED <<call, proposals, runs, served, stopped>>
  PROVE  CallsInv'
<1>1. proposals \in Seq(Proposal) /\ served \in 0..MaxCalls
  BY DEF CallsInv, CallsTypeOK
<1>2. served \in served..MaxCalls
  BY <1>1, EnvelopeAssumption
<1>3. Turns
  BY <1>1, <1>2 DEF Turns
<1> QED
  BY <1>3, StatusTurns

\* The checks of an order read and go on, or refuse.
LEMMA ChecksKeep ==
  ASSUME CallsInv, NEW t \in Thread, CheckOrderRisk(t) \/ EnvelopeAllowsOrder(t)
  PROVE  CallsInv'
<1>1. ASSUME NEW pc \in {"riskCash", "riskPosition", "envelope", "envelopeCash"}, NEW allowed,
             NEW yes \in Pc \ {"idle", "await", "record"}, NEW no \in {"refused", "propose"},
             Branch(t, pc, allowed, yes, no)
      PROVE  CallsInv'
  <2>1. /\ call[t].pc = pc /\ UNCHANGED <<proposals, runs, served, stopped>>
        /\ Goto(t, yes) \/ Goto(t, "propose") \/ Return(t)
    BY <1>1 DEF Branch, At, ringVars
  <2>2. "propose" \in Pc \ {"idle", "await", "record"}
    BY DEF Pc
  <2> QED
    BY <2>1, <2>2, CallGoesOn, CallReturns
<1>2. {"riskPosition", "envelope", "propose", "execute", "envelopeCash", "slot"}
        \subseteq Pc \ {"idle", "await", "record"}
  BY DEF Pc
<1>3. CASE CheckOrderRisk(t)
  <2> DEFINE order == call[t].tool.order
             checked == IF call[t].gate THEN IF Mode = "envelope" THEN "envelope" ELSE "propose"
                        ELSE "execute"
  <2>1. checked \in {"envelope", "propose", "execute"}
    OBVIOUS
  <2>2. PICK q \in QuotesOf(order) :
          \/ Branch(t, "riskCash", RiskCashAllows(order, q), "riskPosition", "refused")
          \/ Branch(t, "riskPosition", RiskPositionAllows(order, q), checked, "refused")
    BY <1>3 DEF CheckOrderRisk
  <2> HIDE DEF order, checked
  <2> QED
    BY <1>1, <1>2, <2>1, <2>2
<1>4. CASE EnvelopeAllowsOrder(t)
  <2> DEFINE order == call[t].tool.order
             read == IF order.side = "buy" THEN "envelopeCash" ELSE "slot"
  <2>1. read \in {"envelopeCash", "slot"}
    OBVIOUS
  <2>2. PICK q \in QuotesOf(order) :
          \/ Branch(t, "envelope", EnvelopePositionAllows(order, q), read, "propose")
          \/ Branch(t, "envelopeCash", EnvelopeCashAllows(order, q), "slot", "propose")
    BY <1>4 DEF EnvelopeAllowsOrder
  <2> HIDE DEF order, read
  <2> QED
    BY <1>1, <1>2, <2>1, <2>2
<1> QED
  BY <1>3, <1>4

\* Start and stop of the autonomy keep the calls.
LEMMA AutonomyCallsKeep ==
  ASSUME CallsInv, PaperInv, RunsTypeOK, NEW t \in Thread,
         Prepare(t) \/ Start(t) \/ StopAutonomy(t) \/ AwaitDone(t)
  PROVE  CallsInv'
<1>1. call \in [Thread -> Call] /\ Workable(call[t]) /\ stopped \subseteq Run
  BY DEF CallsInv, CallsTypeOK
<1>2. CASE Prepare(t)
  <2>1. call[t].pc = "prepare" /\ UNCHANGED <<proposals, runs, served, stopped>>
    BY <1>2 DEF Prepare, At, ringVars
  <2>2. CASE call[t].gate
    <3>1. Return(t) \/ Goto(t, "propose")
      BY <1>2, <2>2 DEF Prepare
    <3>2. "propose" \in Pc \ {"idle", "await", "record"}
      BY DEF Pc
    <3> QED
      BY <2>1, <3>1, <3>2, CallGoesOn, CallReturns
  <2>3. CASE ~call[t].gate
    <3> DEFINE amount == Clamped(call[t].tool.budget)
               tool == [call[t].tool EXCEPT !.budget = amount]
               c == [call[t] EXCEPT !.pc = "start", !.tool = tool]
    <3>1. call' = [call EXCEPT ![t] = c]
      <4> DEFINE d == [call[t] EXCEPT !.pc = "start"]
      <4>1. d.tool = call[t].tool
        BY <1>1, Gone DEF Pc
      <4> DEFINE e == [call EXCEPT ![t].pc = "start"]
      <4>2. e[t] = d /\ e = [call EXCEPT ![t] = d]
        BY <1>1
      <4>3. call' = [e EXCEPT ![t].tool.budget = Clamped(e[t].tool.budget)]
        BY <1>2, <2>3 DEF Prepare
      <4> HIDE DEF d, e
      <4>4. call' = [e EXCEPT ![t] = [d EXCEPT !.tool = [d.tool EXCEPT !.budget = Clamped(d.tool.budget)]]]
        BY <4>2, <4>3
      <4>5. call' = [call EXCEPT ![t] = [d EXCEPT !.tool = tool]]
        BY <1>1, <4>1, <4>2, <4>4
      <4> QED
        BY <4>5 DEF d
    <3>2. call[t] \in Call /\ call[t].tool \in AnyTool
      BY <1>1, <2>1 DEF Workable
    <3>3. amount \in Int
      <4>1. call[t].tool.budget \in Int /\ accounts[Main].cash \in Int
        BY <3>2, AutoApart DEF AnyTool, PaperInv, TypeOK, AccountState
      <4> QED
        BY <4>1 DEF Clamped
    <3> HIDE DEF amount
    <3>4. tool \in AnyTool
      BY <3>2, <3>3 DEF AnyTool
    <3> HIDE DEF tool
    <3>5. "start" \in Pc
      BY DEF Pc
    <3>6. c \in Call /\ c.pc = "start" /\ c.tool = tool /\ c.id = call[t].id
      BY <3>2, <3>4, <3>5 DEF Call
    <3> HIDE DEF c
    <3>7. Workable(c)
      BY <3>4, <3>6 DEF Workable
    <3>8. Continues(t, c)
      BY <1>1, <2>1, <3>1, <3>6, <3>7 DEF Continues
    <3> QED
      BY <3>6, <3>8, CallContinues
  <2> QED
    BY <2>2, <2>3
<1>3. CASE Start(t)
  <2>1. /\ call[t].pc = "start" /\ UNCHANGED <<proposals, served, stopped>>
        /\ CountRun(t) /\ Return(t)
    BY <1>3 DEF Start, At
  <2> QED
    BY <2>1, CallReturns
<1>4. CASE StopAutonomy(t)
  <2>1. call[t].pc = "stop" /\ UNCHANGED <<proposals, runs, served, stopped>>
    BY <1>4 DEF StopAutonomy, At, ringVars
  <2>2. CASE autonomy = 0
    BY <1>1, <1>4, <2>1, <2>2, CallDone DEF StopAutonomy
  <2>3. CASE autonomy # 0
    <3> DEFINE c == [call[t] EXCEPT !.pc = "await", !.run = autonomy]
    <3>1. call' = [call EXCEPT ![t] = c]
      BY <1>1, <1>4, <2>3 DEF StopAutonomy
    <3>2. autonomy \in 0..MaxRuns /\ autonomy \in Run
      BY <2>3, MaxRunsAssumption DEF RunsTypeOK, Run
    <3>3. "await" \in Pc /\ call[t] \in Call
      BY <1>1 DEF Pc
    <3>4. c \in Call /\ c.pc = "await" /\ c.tool = call[t].tool /\ c.id = call[t].id
          /\ c.run = autonomy
      BY <3>2, <3>3 DEF Call
    <3> HIDE DEF c
    <3>5. Workable(c)
      BY <1>1, <2>1, <3>2, <3>4 DEF Workable
    <3>6. Continues(t, c)
      BY <1>1, <2>1, <3>1, <3>4, <3>5 DEF Continues
    <3> QED
      BY <3>4, <3>6, CallContinues
  <2> QED
    BY <2>2, <2>3
<1>5. CASE AwaitDone(t)
  <2>1. /\ call[t].pc = "await" /\ Done(t) /\ UNCHANGED <<proposals, runs, served>>
        /\ stopped' = stopped \cup {call[t].run}
    BY <1>5 DEF AwaitDone, AwaitUntimely, At, ringVars
  <2>2. stopped' \subseteq Run
    BY <1>1, <2>1 DEF Workable
  <2> QED
    BY <2>1, <2>2, CallDone
<1> QED
  BY <1>2, <1>3, <1>4, <1>5

\* Every step of the agent keeps the invariant of the calls and the proposals.
LEMMA CallsKeep ==
  ASSUME CallsInv, PaperInv, RunsTypeOK, [ApprovalNext]_allVars
  PROVE  CallsInv'
<1>1. ASSUME NEW t \in Thread, NEW tool \in Tool, Invoke(t, tool)
      PROVE  CallsInv'
  BY <1>1, InvokeKeeps
<1>2. ASSUME NEW t \in Thread, NEW i \in DOMAIN proposals, Approve(t, i) \/ Reject(t, i)
      PROVE  CallsInv'
  BY <1>2, ApproveKeeps, RejectKeeps
<1>3. ASSUME NEW t \in Thread, Propose(t) \/ RecordResult(t)
      PROVE  CallsInv'
  BY <1>3, ProposeKeeps, RecordKeeps
<1>4. ASSUME NEW t \in Thread, CheckOrderRisk(t) \/ EnvelopeAllowsOrder(t)
      PROVE  CallsInv'
  BY <1>4, ChecksKeep
<1>5. ASSUME NEW t \in Thread, TakeEnvelopeSlot(t)
      PROVE  CallsInv'
  <2>1. /\ call[t].pc = "slot"
        /\ Goto(t, "propose") \/ Goto(t, "execute")
        /\ UNCHANGED <<proposals, runs, served, stopped>>
    BY <1>5 DEF TakeEnvelopeSlot, At, ringVars
  <2>2. {"propose", "execute"} \subseteq Pc \ {"idle", "await", "record"}
    BY DEF Pc
  <2> QED
    BY <2>1, <2>2, CallGoesOn
<1>6. ASSUME NEW t \in Thread, PlaceOrder(t) \/ RunOther(t)
      PROVE  CallsInv'
  <2>1. /\ call[t].pc = "execute" /\ UNCHANGED <<proposals, served, stopped>>
        /\ CountRun(t) /\ Return(t)
    BY <1>6 DEF PlaceOrder, RunOther, At
  <2> QED
    BY <2>1, CallReturns
<1>7. ASSUME NEW t \in Thread, Prepare(t) \/ Start(t) \/ StopAutonomy(t) \/ AwaitDone(t)
      PROVE  CallsInv'
  BY <1>7, AutonomyCallsKeep
<1>8. ASSUME NEW t \in Thread, CallStep(t)
      PROVE  CallsInv'
  BY <1>3, <1>4, <1>5, <1>6, <1>7, <1>8 DEF CallStep
<1>9. ASSUME NEW i \in DOMAIN proposals, WindowPasses(i)
      PROVE  CallsInv'
  BY <1>9, CallsStand DEF WindowPasses
<1>10. ASSUME ListProposals
       PROVE  CallsInv'
  BY <1>10, ListKeeps
<1>11. ASSUME NEW r \in Run, RunStep(r), UNCHANGED approvalVars
       PROVE  CallsInv'
  BY <1>11, CallsStand DEF approvalVars
<1>12. ASSUME OnQuote
       PROVE  CallsInv'
  BY <1>12, CallsStand DEF OnQuote, QuoteWalks, approvalVars
<1>13. ASSUME UNCHANGED allVars
       PROVE  CallsInv'
  BY <1>13, CallsStand DEF allVars, approvalVars
<1> QED
  BY <1>1, <1>2, <1>8, <1>9, <1>10, <1>11, <1>12, <1>13 DEF ApprovalNext

-----------------------------------------------------------------------------
(* The gate *)

\* Each run of a proposal's tool counts once.
LEMMA RunsTotal ==
  ASSUME CallsInv, NEW t \in Thread, call[t].pc # "idle", runs' = runs \/ CountRun(t)
  PROVE  /\ Total(runs) \in Int /\ Total(runs') \in Int /\ Total(runs) <= Total(runs')
         /\ CountRun(t) /\ call[t].id # 0 => Total(runs') = Total(runs) + 1
<1>1. runs \in [Id -> Nat] /\ proposals \in Seq(Proposal) /\ served \in 0..MaxCalls
  BY DEF CallsInv, CallsTypeOK
<1>2. PICK max \in Nat : max = MaxCalls /\ Id = 1..max
  BY EnvelopeAssumption DEF Id
<1>3. runs \in Seq(Int) /\ Len(runs) = max
  BY <1>1, <1>2
<1>4. Total(runs) \in Int
  BY <1>3, TotalInt
<1>5. CASE runs' = runs /\ ~(CountRun(t) /\ call[t].id # 0)
  BY <1>4, <1>5
<1>6. CASE CountRun(t) /\ call[t].id # 0
  <2> DEFINE i == call[t].id
  <2>1. i \in 1..Len(proposals)
    BY <1>6 DEF CallsInv, Approving
  <2>2. Len(proposals) <= max
    <3>1. PICK n \in Nat : n = Len(proposals)
      BY <1>1, LenProperties
    <3>2. IsFiniteSet(InFlight) /\ n + Cardinality(InFlight) <= served
      BY <3>1 DEF CallsInv, Numbered
    <3>3. Cardinality(InFlight) \in Nat
      BY <3>2, FS_CardinalityType
    <3> QED
      BY <1>1, <1>2, <3>1, <3>2, <3>3
  <2>3. i \in 1..Len(runs)
    <3>1. PICK n \in Nat : n = Len(proposals)
      BY <1>1, LenProperties
    <3> QED
      BY <1>2, <1>3, <2>1, <2>2, <3>1
  <2>4. runs' = [runs EXCEPT ![i] = runs[i] + 1] /\ runs[i] \in Int /\ runs[i] + 1 \in Int
    BY <1>1, <1>2, <1>3, <1>6, <2>3 DEF CountRun
  <2> HIDE DEF i
  <2>5. Total(runs') = Total(runs) + ((runs[i] + 1) - runs[i])
    BY <1>3, <2>3, <2>4, TotalExcept
  <2> QED
    BY <1>4, <1>6, <2>4, <2>5
<1> QED
  BY <1>5, <1>6 DEF CountRun

\* The slots held after the step of a thread.
LEMMA SlotsMove ==
  ASSUME CallsInv, NEW t \in Thread, NEW c, call' = [call EXCEPT ![t] = c]
  PROVE  /\ Cardinality(Slots) \in Nat /\ Cardinality(Slots)' \in Nat
         /\ ~Holds(c) => Cardinality(Slots)' <= Cardinality(Slots)
         /\ Holds(call[t]) /\ ~Holds(c) => Cardinality(Slots)' = Cardinality(Slots) - 1
         /\ Cardinality(Slots)' <= Cardinality(Slots) + 1
<1>1. IsFiniteSet(Slots)
  <2>1. Slots \subseteq InFlight
    BY DEF Slots, InFlight, Holds
  <2> QED
    BY <2>1, FS_Subset DEF CallsInv, Numbered
<1>2. \A u \in Thread : call'[u] = IF u = t THEN c ELSE call[u]
  BY DEF CallsInv, CallsTypeOK
<1>3. Slots' = IF Holds(c) THEN Slots \cup {t} ELSE Slots \ {t}
  BY <1>2 DEF Slots, Holds
<1>4. t \in Slots <=> Holds(call[t])
  BY DEF Slots
<1>5. Cardinality(Slots) \in Nat
  BY <1>1, FS_CardinalityType
<1>6. CASE Holds(c)
  <2>1. Slots' = Slots \cup {t}
    BY <1>3, <1>6
  <2>2. /\ IsFiniteSet(Slots \cup {t})
        /\ Cardinality(Slots \cup {t}) = IF t \in Slots THEN Cardinality(Slots)
                                         ELSE Cardinality(Slots) + 1
    BY <1>1, FS_AddElement
  <2> QED
    BY <1>5, <1>6, <2>1, <2>2
<1>7. CASE ~Holds(c)
  <2>1. Slots' = Slots \ {t}
    BY <1>3, <1>7
  <2>2. /\ IsFiniteSet(Slots \ {t})
        /\ Cardinality(Slots \ {t}) = IF t \in Slots THEN Cardinality(Slots) - 1
                                      ELSE Cardinality(Slots)
    BY <1>1, FS_RemoveElement
  <2>3. Cardinality(Slots \ {t}) \in Nat
    BY <2>2, FS_CardinalityType
  <2> QED
    BY <1>4, <1>5, <1>7, <2>1, <2>2, <2>3
<1> QED
  BY <1>6, <1>7

\* A thread goes to where it holds no slot, past no gate that is not open.
Passes(t, c) ==
  /\ call' = [call EXCEPT ![t] = c] /\ Gate(c) /\ ~Holds(c)
  /\ runs' = runs \/ (call[t].pc # "idle" /\ CountRun(t))

\* If it orders nothing, the gate's invariant stays.
LEMMA GatePasses ==
  ASSUME CallsInv, GateInv, NEW t \in Thread, NEW c, Passes(t, c), UNCHANGED orderVars, Mine' = Mine
  PROVE  GateInv'
<1>1. \A u \in Thread : call'[u] = IF u = t THEN c ELSE call[u]
  BY DEF CallsInv, CallsTypeOK, Passes
<1>2. \A u \in Thread : Gate(call'[u])
  BY <1>1 DEF GateInv, Passes
<1>3. byHuman <= Total(runs')
  <2>1. CASE runs' = runs
    BY <2>1 DEF GateInv
  <2>2. CASE call[t].pc # "idle" /\ CountRun(t)
    <3>1. Total(runs) \in Int /\ Total(runs') \in Int /\ Total(runs) <= Total(runs')
      BY <2>2, RunsTotal
    <3>2. byHuman \in Nat /\ byHuman <= Total(runs)
      BY DEF GateInv
    <3> QED
      BY <3>1, <3>2
  <2> QED
    BY <2>1, <2>2 DEF Passes
<1>4. byEnvelope + Cardinality(Slots)' <= autoApprovals
  <2>1. /\ Cardinality(Slots) \in Nat /\ Cardinality(Slots)' \in Nat
        /\ Cardinality(Slots)' <= Cardinality(Slots)
    BY SlotsMove DEF Passes
  <2>2. /\ byEnvelope \in Nat /\ autoApprovals \in Nat
        /\ byEnvelope + Cardinality(Slots) <= autoApprovals
    BY DEF GateInv
  <2> QED
    BY <2>1, <2>2
<1>5. /\ autoApprovals' = autoApprovals /\ byHuman' = byHuman /\ byEnvelope' = byEnvelope
      /\ Cardinality(Mine)' = Cardinality(Mine)
  BY DEF orderVars
<1>6. \A u \in Thread : Gate(call[u])'
  BY <1>2 DEF Gate, Holds
<1> QED
  BY <1>3, <1>4, <1>5, <1>6 DEF GateInv

\* A call that returns holds no slot.
LEMMA ReturnPasses ==
  ASSUME CallsInv, NEW t \in Thread, call[t].pc # "idle", Gate(call[t]), Return(t),
         runs' = runs \/ CountRun(t)
  PROVE  \E c : Passes(t, c)
<1>1. call[t] \in Call
  BY DEF CallsInv, CallsTypeOK
<1>2. CASE call[t].id = 0
  <2>1. call' = [call EXCEPT ![t] = Idle]
    BY <1>2 DEF Return, Done
  <2>2. Gate(Idle) /\ ~Holds(Idle)
    BY DEF Gate, Holds, Idle
  <2> QED
    BY <2>1, <2>2 DEF Passes
<1>3. CASE call[t].id # 0
  <2> DEFINE c == [call[t] EXCEPT !.pc = "record"]
  <2>1. c.pc = "record" /\ c.id # 0
    BY <1>1, <1>3, Gone DEF Pc
  <2>2. call' = [call EXCEPT ![t] = c]
    BY <1>3 DEF Return, Goto
  <2> HIDE DEF c
  <2>3. Gate(c) /\ ~Holds(c)
    BY <2>1 DEF Gate, Holds
  <2> QED
    BY <2>2, <2>3 DEF Passes
<1> QED
  BY <1>2, <1>3

\* A call that goes on without a slot, and to the envelope only from the gate in its mode.
LEMMA GotoPasses ==
  ASSUME CallsInv, NEW t \in Thread, call[t].pc # "idle", Gate(call[t]), runs' = runs,
         NEW pc \in Pc, Goto(t, pc),
         pc \in {"envelope", "envelopeCash", "slot"} => call[t].gate /\ Mode = "envelope",
         pc = "execute" => ~call[t].gate
  PROVE  \E c : Passes(t, c)
<1> DEFINE c == [call[t] EXCEPT !.pc = pc]
<1>1. c.pc = pc /\ c.id = call[t].id /\ c.gate = call[t].gate
  BY Gone DEF CallsInv, CallsTypeOK
<1>2. call' = [call EXCEPT ![t] = c]
  BY DEF Goto
<1> HIDE DEF c
<1>3. Gate(c) /\ ~Holds(c)
  BY <1>1 DEF Gate, Holds
<1> QED
  BY <1>2, <1>3 DEF Passes

\* Steps that leave the calls and the orders of the main account alone.
LEMMA GateStands ==
  ASSUME GateInv, UNCHANGED <<call, runs>>, UNCHANGED orderVars, Mine' = Mine
  PROVE  GateInv'
<1>1. \A t \in Thread : Gate(call[t])'
  BY DEF GateInv, Gate, Holds
<1>2. Slots' = Slots
  BY DEF Slots
<1> QED
  BY <1>1, <1>2 DEF GateInv, orderVars

\* A slot is counted when it is taken, and there is one.
LEMMA SlotKeeps ==
  ASSUME CallsInv, GateInv, NEW t \in Thread, TakeEnvelopeSlot(t)
  PROVE  GateInv'
<1>1. /\ call[t].pc = "slot" /\ Gate(call[t]) /\ runs' = runs /\ byHuman' = byHuman
      /\ byEnvelope' = byEnvelope /\ UNCHANGED paperVars
      /\ autoApprovals \in Nat
  BY DEF TakeEnvelopeSlot, At, ringVars, GateInv
<1>2. Mine' = Mine
  BY <1>1 DEF paperVars, vars, Mine
<1>3. CASE MaxOrdersPerRun # 0 /\ autoApprovals >= MaxOrdersPerRun
  <2>1. Goto(t, "propose") /\ autoApprovals' = autoApprovals /\ "propose" \in Pc
    BY <1>3 DEF TakeEnvelopeSlot, Pc
  <2>2. \E c : Passes(t, c)
    BY <1>1, <2>1, GotoPasses
  <2> QED
    BY <1>1, <1>2, <2>1, <2>2, GatePasses DEF orderVars
<1>4. CASE ~(MaxOrdersPerRun # 0 /\ autoApprovals >= MaxOrdersPerRun)
  <2> DEFINE c == [call[t] EXCEPT !.pc = "execute"]
  <2>1. call' = [call EXCEPT ![t] = c] /\ autoApprovals' = autoApprovals + 1
    BY <1>4 DEF TakeEnvelopeSlot, Goto
  <2>2. c.pc = "execute" /\ c.gate = call[t].gate /\ c.id = call[t].id
    BY Gone DEF CallsInv, CallsTypeOK, Pc
  <2> HIDE DEF c
  <2>3. Gate(c)
    BY <1>1, <2>2 DEF Gate, Holds
  <2>4. \A u \in Thread : Gate(call[u])'
    <3>1. \A u \in Thread : call'[u] = IF u = t THEN c ELSE call[u]
      BY <2>1 DEF CallsInv, CallsTypeOK
    <3>2. \A u \in Thread : Gate(call'[u])
      BY <2>3, <3>1 DEF GateInv
    <3> QED
      BY <3>2 DEF Gate, Holds
  <2>5. byEnvelope + Cardinality(Slots)' <= autoApprovals + 1
    <3>1. /\ Cardinality(Slots) \in Nat /\ Cardinality(Slots)' \in Nat
          /\ Cardinality(Slots)' <= Cardinality(Slots) + 1
      BY <2>1, SlotsMove
    <3>2. byEnvelope \in Nat /\ byEnvelope + Cardinality(Slots) <= autoApprovals
      BY DEF GateInv
    <3> QED
      BY <1>1, <3>1, <3>2
  <2>6. MaxOrdersPerRun # 0 => autoApprovals + 1 <= MaxOrdersPerRun
    <3>1. MaxOrdersPerRun \in Nat
      BY EnvelopeAssumption
    <3> QED
      BY <1>1, <1>4, <3>1
  <2>7. Cardinality(Mine)' = Cardinality(Mine) /\ autoApprovals + 1 \in Nat
    BY <1>1, <1>2
  <2> QED
    BY <1>1, <2>1, <2>4, <2>5, <2>6, <2>7 DEF GateInv
<1> QED
  BY <1>3, <1>4

\* An order on the main account is counted with the human who approved it or with the slot it took.
LEMMA PlaceCounts ==
  ASSUME PaperInv, RunsInv, CallsInv, GateInv, NEW t \in Thread, PlaceOrder(t)
  PROVE  GateInv'
<1> DEFINE order == call[t].tool.order
           req == IF call[t].gate THEN order ELSE [order EXCEPT !.cid = NoId]
<1>1. /\ call[t].pc = "execute" /\ CountRun(t) /\ Return(t) /\ autoApprovals' = autoApprovals
      /\ Gate(call[t])
  BY DEF PlaceOrder, At, GateInv
<1>2. PICK c : Passes(t, c)
  BY <1>1, ReturnPasses
<1>3. CASE UNCHANGED <<vars, byHuman, byEnvelope>>
  <2>1. Mine' = Mine
    BY <1>3 DEF vars, Mine
  <2>2. UNCHANGED orderVars
    BY <1>1, <1>3 DEF orderVars
  <2> QED
    BY <1>2, <2>1, <2>2, GatePasses
<1>4. ASSUME NEW q \in QuotesOf(order), Place(Main, req, q),
             byHuman' = byHuman + (IF call[t].gate THEN 0 ELSE 1),
             byEnvelope' = byEnvelope + (IF call[t].gate THEN 1 ELSE 0)
      PROVE  GateInv'
  <2>1. order \in Request
    BY <1>1 DEF CallsInv, CallsTypeOK, Workable, AnyTool
  <2>2. order \in OrderRequest
    BY <2>1, RequestAssumption DEF OrderRequest
  <2>3. req \in OrderRequest
    BY <2>2 DEF OrderRequest
  <2>4. q \in View
    BY QuoteAssumption DEF QuotesOf, View
  <2> HIDE DEF order, req
  <2>5. Mine' = Mine \cup {Len(orders) + 1}
    BY <1>4, <2>3, <2>4, MainPlaced DEF RunsInv
  <2>6. Cardinality(Mine') = Cardinality(Mine) + 1 /\ Cardinality(Mine) \in Nat
    <3>1. PICK n \in Nat : n = Len(orders)
      BY LenProperties DEF PaperInv, TypeOK
    <3>2. IsFiniteSet(Mine)
      <4>1. IsFiniteSet(1..n)
        BY FS_Interval
      <4> QED
        BY <3>1, <4>1, FS_Subset DEF Mine
    <3>3. n + 1 \notin Mine
      BY <3>1 DEF Mine
    <3> QED
      BY <2>5, <3>1, <3>2, <3>3, FS_AddElement, FS_CardinalityType
  <2>7. /\ byHuman \in Nat /\ byEnvelope \in Nat /\ Cardinality(Mine) = byHuman + byEnvelope
        /\ byHuman <= Total(runs) /\ byEnvelope + Cardinality(Slots) <= autoApprovals
        /\ autoApprovals \in Nat
        /\ Mode # "envelope" => byEnvelope = 0
        /\ MaxOrdersPerRun # 0 => autoApprovals <= MaxOrdersPerRun
    BY DEF GateInv
  <2>8. Total(runs) \in Int /\ Total(runs') \in Int /\ Total(runs) <= Total(runs')
        /\ (call[t].id # 0 => Total(runs') = Total(runs) + 1)
    BY <1>1, RunsTotal
  <2>9. /\ Cardinality(Slots) \in Nat /\ Cardinality(Slots)' \in Nat
        /\ Cardinality(Slots)' <= Cardinality(Slots)
        /\ call[t].gate => Cardinality(Slots)' = Cardinality(Slots) - 1
    BY <1>1, <1>2, SlotsMove DEF Passes, Holds
  <2>10. \A u \in Thread : Gate(call[u])'
    <3>1. \A u \in Thread : call'[u] = IF u = t THEN c ELSE call[u]
      BY <1>2 DEF CallsInv, CallsTypeOK, Passes
    <3>2. \A u \in Thread : Gate(call'[u])
      BY <1>2, <3>1 DEF GateInv, Passes
    <3> QED
      BY <3>2 DEF Gate, Holds
  <2>11. CASE call[t].gate
    <3>1. /\ byHuman' = byHuman /\ byEnvelope' = byEnvelope + 1 /\ byEnvelope' \in Nat
          /\ Cardinality(Mine') = byHuman' + byEnvelope'
      BY <1>4, <2>6, <2>7, <2>11
    <3>2. Mode = "envelope"
      BY <1>1, <2>11 DEF Gate, Holds
    <3>3. byEnvelope' + Cardinality(Slots)' <= autoApprovals'
      BY <1>1, <2>7, <2>9, <2>11, <3>1
    <3>4. byHuman' <= Total(runs')
      BY <2>7, <2>8, <3>1
    <3> QED
      BY <1>1, <2>7, <2>10, <3>1, <3>2, <3>3, <3>4 DEF GateInv
  <2>12. CASE ~call[t].gate
    <3>1. /\ byHuman' = byHuman + 1 /\ byHuman' \in Nat /\ byEnvelope' = byEnvelope
          /\ Cardinality(Mine') = byHuman' + byEnvelope'
      BY <1>4, <2>6, <2>7, <2>12
    <3>2. call[t].id # 0
      BY <1>1, <2>12 DEF Gate
    <3>3. byEnvelope' + Cardinality(Slots)' <= autoApprovals'
      BY <1>1, <2>7, <2>9, <3>1
    <3>4. byHuman' <= Total(runs')
      BY <2>7, <2>8, <3>1, <3>2
    <3> QED
      BY <1>1, <2>7, <2>10, <3>1, <3>3, <3>4 DEF GateInv
  <2> QED
    BY <2>11, <2>12
<1> QED
  BY <1>3, <1>4 DEF PlaceOrder

\* The calls that neither take a slot nor place an order pass no gate that is not open.
LEMMA StepPasses ==
  ASSUME PaperInv, RunsInv, CallsInv, GateInv, NEW t \in Thread, CallStep(t),
         ~TakeEnvelopeSlot(t), ~PlaceOrder(t)
  PROVE  (\E c : Passes(t, c)) /\ UNCHANGED orderVars /\ orders' = orders
<1>1. Gate(call[t]) /\ call \in [Thread -> Call] /\ Gate(Idle) /\ ~Holds(Idle)
  BY DEF GateInv, CallsInv, CallsTypeOK, Gate, Holds, Idle
<1>2. {"riskPosition", "envelope", "propose", "execute", "envelopeCash", "slot"} \subseteq Pc
  BY DEF Pc
<1>3. ASSUME Done(t), runs' = runs
      PROVE  \E c : Passes(t, c)
  BY <1>1, <1>3 DEF Done, Passes
<1>4. CASE Propose(t)
  <2>1. Done(t) /\ runs' = runs /\ UNCHANGED orderVars /\ orders' = orders
    BY <1>4 DEF Propose, paperVars, vars
  <2> QED
    BY <1>3, <2>1
<1>5. CASE CheckOrderRisk(t)
  <2> DEFINE checked == IF call[t].gate THEN IF Mode = "envelope" THEN "envelope" ELSE "propose"
                        ELSE "execute"
  <2>1. /\ call[t].pc # "idle" /\ runs' = runs /\ UNCHANGED orderVars /\ orders' = orders
        /\ Goto(t, "riskPosition") \/ Goto(t, checked) \/ Return(t)
    <3> DEFINE order == call[t].tool.order
    <3>1. PICK q \in QuotesOf(order) :
            \/ Branch(t, "riskCash", RiskCashAllows(order, q), "riskPosition", "refused")
            \/ Branch(t, "riskPosition", RiskPositionAllows(order, q), checked, "refused")
      BY <1>5 DEF CheckOrderRisk
    <3> HIDE DEF order, checked
    <3> QED
      BY <3>1 DEF Branch, At, ringVars, paperVars, vars
  <2>2. /\ checked \in {"envelope", "propose", "execute"}
        /\ checked = "envelope" => call[t].gate /\ Mode = "envelope"
        /\ checked = "execute" => ~call[t].gate
    OBVIOUS
  <2> HIDE DEF checked
  <2>3. CASE Goto(t, "riskPosition")
    BY <1>1, <1>2, <2>1, <2>3, GotoPasses
  <2>4. CASE Goto(t, checked)
    <3>1. /\ checked \in Pc
          /\ checked \in {"envelope", "envelopeCash", "slot"} => call[t].gate /\ Mode = "envelope"
      BY <1>2, <2>2
    <3> QED
      BY <1>1, <2>1, <2>2, <2>4, <3>1, GotoPasses
  <2>5. CASE Return(t)
    BY <1>1, <2>1, <2>5, ReturnPasses
  <2> QED
    BY <2>1, <2>3, <2>4, <2>5
<1>6. CASE EnvelopeAllowsOrder(t)
  <2>1. /\ call[t].pc \in {"envelope", "envelopeCash"} /\ runs' = runs /\ UNCHANGED orderVars
        /\ orders' = orders
        /\ Goto(t, "envelopeCash") \/ Goto(t, "slot") \/ Goto(t, "propose")
    <3> DEFINE order == call[t].tool.order
               read == IF order.side = "buy" THEN "envelopeCash" ELSE "slot"
    <3>1. PICK q \in QuotesOf(order) :
            \/ Branch(t, "envelope", EnvelopePositionAllows(order, q), read, "propose")
            \/ Branch(t, "envelopeCash", EnvelopeCashAllows(order, q), "slot", "propose")
      BY <1>6 DEF EnvelopeAllowsOrder
    <3>2. read \in {"envelopeCash", "slot"}
      OBVIOUS
    <3> HIDE DEF order, read
    <3> QED
      BY <3>1, <3>2 DEF Branch, At, ringVars, paperVars, vars
  <2>2. call[t].gate /\ Mode = "envelope" /\ call[t].pc # "idle"
    BY <1>1, <2>1 DEF Gate
  <2> QED
    BY <1>1, <1>2, <2>1, <2>2, GotoPasses
<1>7. CASE RunOther(t)
  <2>1. /\ call[t].pc # "idle" /\ CountRun(t) /\ Return(t) /\ UNCHANGED orderVars
        /\ orders' = orders
    BY <1>7 DEF RunOther, At, paperVars, vars
  <2> QED
    BY <1>1, <2>1, ReturnPasses
<1>8. CASE Prepare(t)
  <2>1. call[t].pc = "prepare" /\ runs' = runs /\ UNCHANGED orderVars /\ orders' = orders
    BY <1>8 DEF Prepare, At, ringVars, paperVars, vars
  <2>2. CASE call[t].gate
    <3>1. Return(t) \/ Goto(t, "propose")
      BY <1>8, <2>2 DEF Prepare
    <3> QED
      BY <1>1, <1>2, <2>1, <3>1, ReturnPasses, GotoPasses
  <2>3. CASE ~call[t].gate
    <3> DEFINE c == call'[t]
    <3>1. /\ call' = [call EXCEPT ![t] = c]
          /\ c.pc = "start" /\ c.gate = call[t].gate /\ c.id = call[t].id
      BY <1>1, <1>8, <2>3 DEF Prepare, Call
    <3> HIDE DEF c
    <3>2. Gate(c) /\ ~Holds(c)
      BY <1>1, <2>1, <3>1 DEF Gate, Holds
    <3> QED
      BY <2>1, <3>1, <3>2 DEF Passes
  <2> QED
    BY <2>2, <2>3
<1>9. CASE Start(t)
  <2>1. /\ call[t].pc = "start" /\ CountRun(t) /\ Return(t) /\ UNCHANGED orderVars
        /\ StartAutonomy(call[t].tool.budget) \/ UNCHANGED paperVars
    BY <1>9 DEF Start, At
  <2>2. orders' = orders
    BY <2>1 DEF StartAutonomy, StartUnchecked, Allocate, paperVars, vars
  <2> QED
    BY <1>1, <2>1, <2>2, ReturnPasses
<1>10. CASE StopAutonomy(t)
  <2>1. call[t].pc = "stop" /\ runs' = runs /\ UNCHANGED orderVars /\ orders' = orders
    BY <1>10 DEF StopAutonomy, At, ringVars, vars
  <2>2. CASE autonomy = 0
    BY <1>3, <1>10, <2>1, <2>2 DEF StopAutonomy
  <2>3. CASE autonomy # 0
    <3> DEFINE c == [call[t] EXCEPT !.pc = "await", !.run = autonomy]
    <3>1. call' = [call EXCEPT ![t] = c]
      BY <1>1, <1>10, <2>3 DEF StopAutonomy
    <3>2. c.pc = "await" /\ c.gate = call[t].gate /\ c.id = call[t].id
      BY <1>1 DEF Call
    <3> HIDE DEF c
    <3>3. Gate(c) /\ ~Holds(c)
      BY <1>1, <2>1, <3>2 DEF Gate, Holds
    <3> QED
      BY <2>1, <3>1, <3>3 DEF Passes
  <2> QED
    BY <2>2, <2>3
<1>11. CASE AwaitDone(t) \/ RecordResult(t)
  <2>1. Done(t) /\ runs' = runs /\ UNCHANGED orderVars /\ orders' = orders
    BY <1>11 DEF AwaitDone, AwaitUntimely, RecordResult, ringVars, paperVars, vars
  <2> QED
    BY <1>3, <2>1
<1> QED
  BY <1>4, <1>5, <1>6, <1>7, <1>8, <1>9, <1>10, <1>11 DEF CallStep

\* Every step of the agent keeps the invariant of the gate.
LEMMA GateKeeps ==
  ASSUME PaperInv, RunsInv, CallsInv, GateInv, [ApprovalNext]_allVars
  PROVE  GateInv'
<1>1. ASSUME NEW t \in Thread, NEW tool \in Tool, Invoke(t, tool)
      PROVE  GateInv'
  <2> DEFINE pc == IF tool.name = "other" THEN "propose" ELSE Entry(tool)
             c == [Idle EXCEPT !.pc = pc, !.tool = tool, !.gate = TRUE]
  <2>1. pc \notin {"envelope", "envelopeCash", "slot", "execute"}
    <3>1. tool.name \in {"place", "start", "stop", "other"}
      BY ToolAssumption
    <3> QED
      BY <3>1 DEF Entry
  <2>2. call' = [call EXCEPT ![t] = c] /\ runs' = runs /\ UNCHANGED orderVars /\ Mine' = Mine
    BY <1>1 DEF Invoke, ringVars, paperVars, vars, Mine
  <2> HIDE DEF pc
  <2>3. c.pc = pc /\ c.gate
    BY DEF Idle
  <2> HIDE DEF c
  <2>4. Gate(c) /\ ~Holds(c)
    BY <2>1, <2>3 DEF Gate, Holds
  <2> QED
    BY <2>2, <2>4, GatePasses DEF Passes
<1>2. ASSUME NEW t \in Thread, NEW i \in DOMAIN proposals, Approve(t, i)
      PROVE  GateInv'
  <2>1. runs' = runs /\ UNCHANGED orderVars /\ Mine' = Mine
    BY <1>2 DEF Approve, ApproveAgain, paperVars, vars, Mine
  <2>2. CASE Expired(i)
    <3>1. call' = call
      BY <1>2, <2>2 DEF Approve, ApproveAgain
    <3> QED
      BY <2>1, <3>1, GateStands
  <2>3. CASE ~Expired(i)
    <3> DEFINE tool == proposals[i].tool
               c == [Idle EXCEPT !.pc = Entry(tool), !.tool = tool, !.id = i]
    <3>1. call' = [call EXCEPT ![t] = c]
      BY <1>2, <2>3 DEF Approve, ApproveAgain
    <3>2. i \in 1..Len(proposals)
      BY DEF CallsInv, CallsTypeOK
    <3>3. i # 0
      BY <3>2
    <3>4. tool.name \in {"place", "start", "stop", "other"}
      <4>1. proposals[i] \in Proposal
        BY <3>2 DEF CallsInv, CallsTypeOK
      <4>2. tool \in Tool
        BY <4>1 DEF Proposal
      <4> QED
        BY <4>2, ToolAssumption
    <3>5. Entry(tool) \notin {"envelope", "envelopeCash", "slot"}
      BY <3>4 DEF Entry
    <3> HIDE DEF tool
    <3>6. c.pc = Entry(tool) /\ ~c.gate /\ c.id = i
      BY DEF Idle
    <3> HIDE DEF c
    <3>7. Gate(c) /\ ~Holds(c)
      BY <3>3, <3>5, <3>6 DEF Gate, Holds
    <3> QED
      BY <2>1, <3>1, <3>7, GatePasses DEF Passes
  <2> QED
    BY <2>2, <2>3
<1>3. ASSUME NEW t \in Thread, NEW i \in DOMAIN proposals, Reject(t, i)
      PROVE  GateInv'
  BY <1>3, GateStands DEF Reject, paperVars, vars, Mine
<1>4. ASSUME NEW t \in Thread, CallStep(t)
      PROVE  GateInv'
  <2>1. CASE TakeEnvelopeSlot(t)
    BY <2>1, SlotKeeps
  <2>2. CASE PlaceOrder(t)
    BY <2>2, PlaceCounts
  <2>3. CASE ~TakeEnvelopeSlot(t) /\ ~PlaceOrder(t)
    <3>1. (\E c : Passes(t, c)) /\ UNCHANGED orderVars /\ orders' = orders
      BY <1>4, <2>3, StepPasses
    <3>2. Mine' = Mine
      BY <3>1 DEF Mine
    <3> QED
      BY <3>1, <3>2, GatePasses
  <2> QED
    BY <2>1, <2>2, <2>3
<1>5. ASSUME NEW i \in DOMAIN proposals, WindowPasses(i)
      PROVE  GateInv'
  BY <1>5, GateStands DEF WindowPasses, paperVars, vars, Mine
<1>6. ASSUME ListProposals
      PROVE  GateInv'
  BY <1>6, GateStands DEF ListProposals, paperVars, vars, Mine
<1>7. ASSUME NEW r \in Run, RunStep(r), UNCHANGED approvalVars
      PROVE  GateInv'
  <2>1. Mine' = Mine
    BY <1>7, RunStepKeeps
  <2> QED
    BY <1>7, <2>1, GateStands DEF approvalVars, orderVars
<1>8. ASSUME OnQuote
      PROVE  GateInv'
  <2>1. UNCHANGED approvalVars
    BY <1>8 DEF OnQuote, QuoteWalks
  <2>2. VisitOrder \/ orders' = orders
    BY <1>8 DEF OnQuote, QuoteWalks, BeginQuote, EndQuote
  <2>3. Mine' = Mine
    <3>1. CASE VisitOrder
      BY <3>1, AutoUnvisited DEF RunsInv
    <3>2. CASE orders' = orders
      BY <3>2 DEF Mine
    <3> QED
      BY <2>2, <3>1, <3>2
  <2> QED
    BY <2>1, <2>3, GateStands DEF approvalVars, orderVars
<1>9. ASSUME UNCHANGED allVars
      PROVE  GateInv'
  BY <1>9, GateStands DEF allVars, approvalVars, orderVars, vars, Mine
<1> QED
  BY <1>1, <1>2, <1>3, <1>4, <1>5, <1>6, <1>7, <1>8, <1>9 DEF ApprovalNext

-----------------------------------------------------------------------------
(* The agent *)

\* Zeros add up to zero.
LEMMA TotalZero ==
  ASSUME NEW s \in Seq(Int), \A k \in 1..Len(s) : s[k] = 0
  PROVE  Total(s) = 0
<1>1. PICK n \in Nat : n = Len(s)
  BY LenProperties
<1> DEFINE f == Sums(s)
           zero == [k \in 0..n |-> 0]
<1>2. f \in [0..n -> Int] /\ f[0] = 0 /\ \A k \in 1..n : f[k] = f[k - 1] + s[k]
  BY <1>1, SumsDef
<1> HIDE DEF f
<1>3. Abreast(f, zero, 0, n, 0)
  <2>1. \A k \in 0..n : k # 0 => k \in 1..n /\ k - 1 \in 0..n
    BY <1>1
  <2>2. \A k \in 0..n : k # 0 => f[k] - f[k - 1] = 0
    BY <1>1, <1>2, <2>1
  <2>3. 0 \in 0..n /\ \A k \in 0..n : zero[k] = 0
    BY <1>1
  <2>4. \A k \in 0..n : k # 0 => zero[k] - zero[k - 1] = 0
    BY <2>1, <2>3
  <2> HIDE DEF zero
  <2> QED
    BY <1>2, <2>2, <2>3, <2>4 DEF Abreast
<1>4. \A k \in 0..n : f[k] = zero[k] + 0
  BY <1>3, SameSums
<1>5. n \in 0..n
  BY <1>1
<1> QED
  BY <1>1, <1>4, <1>5 DEF Total, f

\* The agent starts without runs, calls and proposals.
LEMMA AgentStarts ==
  ASSUME ApprovalInit
  PROVE  AgentInv
<1>1. PaperInv
  BY PaperStarts DEF ApprovalInit
<1>2. /\ autonomy = 0 /\ phase = [r \in Run |-> "none"] /\ running = [r \in Run |-> FALSE]
      /\ bar = [r \in Run |-> 1] /\ kind = [r \in Run |-> "finished"] /\ budget = [r \in Run |-> 0]
  BY DEF ApprovalInit, AutonomyInit
<1>3. PICK max \in Nat : max = MaxRuns /\ Run = 1..max
  BY MaxRunsAssumption DEF Run
<1>4. RunsInv
  <2>1. 1 \in 1..Len(Bars) /\ 0 \in 0..MaxRuns
    <3>1. Len(Bars) \in Nat /\ Len(Bars) >= 2
      BY BarsAssumption, LenProperties
    <3> QED
      BY <1>3, <3>1
  <2>2. RunsTypeOK
    BY <1>2, <2>1 DEF RunsTypeOK, Phase, Kind
  <2>3. OneRunning
    BY <1>2, <1>3 DEF OneRunning
  <2>4. NoneRest
    BY DEF NoneRest, ApprovalInit, Init
  <2>5. RiskStopFlat
    BY <1>2 DEF RiskStopFlat
  <2>6. budget \in Seq(Int) /\ \A k \in 1..Len(budget) : budget[k] = 0
    BY <1>2, <1>3
  <2>7. Total(budget) = 0 /\ allocated[AutoAccount] = 0
    BY <2>6, TotalZero, AutoApart DEF ApprovalInit, Init
  <2> QED
    BY <2>2, <2>3, <2>4, <2>5, <2>7 DEF RunsInv
<1>5. CallsInv
  <2>1. /\ proposals = <<>> /\ call = [t \in Thread |-> Idle] /\ served = 0
        /\ runs = [i \in Id |-> 0] /\ stopped = {}
    BY DEF ApprovalInit
  <2>2. Idle \in Call /\ Idle.pc = "idle" /\ Idle.id = 0
    BY MaxRunsAssumption DEF Idle, Call, Pc
  <2>3. proposals \in Seq(Proposal) /\ Len(proposals) = 0
    BY <2>1
  <2>4. CallsTypeOK
    <3>1. Workable(Idle) /\ 0 \in 0..MaxCalls
      BY <2>2, EnvelopeAssumption DEF Workable
    <3> QED
      BY <2>1, <2>2, <2>3, <3>1 DEF CallsTypeOK
  <2>5. Numbered
    <3>1. InFlight = {}
      BY <2>1, <2>2 DEF InFlight
    <3> QED
      BY <2>1, <2>3, <3>1, FS_EmptySet DEF Numbered
  <2>6. Approving /\ RunsCounted
    BY <2>1, <2>2, <2>3 DEF Approving, RunsCounted
  <2> QED
    BY <2>4, <2>5, <2>6 DEF CallsInv
<1>6. StoppedGone
  BY DEF StoppedGone, ApprovalInit
<1>7. GateInv
  <2>1. /\ call = [t \in Thread |-> Idle] /\ autoApprovals = 0 /\ byHuman = 0 /\ byEnvelope = 0
        /\ runs = [i \in Id |-> 0]
    BY DEF ApprovalInit
  <2>2. \A t \in Thread : Gate(call[t]) /\ ~Holds(call[t])
    BY <2>1 DEF Gate, Holds, Idle
  <2>3. Slots = {} /\ Mine = {}
    BY <2>2 DEF Slots, Mine, ApprovalInit, Init
  <2>4. Total(runs) = 0
    <3>1. PICK top \in Nat : top = MaxCalls /\ Id = 1..top
      BY EnvelopeAssumption DEF Id
    <3>2. runs \in Seq(Int) /\ \A k \in 1..Len(runs) : runs[k] = 0
      BY <2>1, <3>1
    <3> QED
      BY <3>2, TotalZero
  <2>5. Cardinality(Slots) = 0 /\ Cardinality(Mine) = 0
    BY <2>3, FS_EmptySet
  <2>6. MaxOrdersPerRun # 0 => 0 <= MaxOrdersPerRun
    BY EnvelopeAssumption
  <2> QED
    BY <2>1, <2>2, <2>4, <2>5, <2>6 DEF GateInv
<1> QED
  BY <1>1, <1>4, <1>5, <1>6, <1>7 DEF AgentInv

\* A run is counted as stopped when it is gone.
LEMMA StoppedKeeps ==
  ASSUME StoppedGone, CallsTypeOK, [ApprovalNext]_allVars,
         \A s \in Run : phase[s] = "gone" => phase'[s] = "gone"
  PROVE  StoppedGone'
<1>1. stopped \subseteq Run
  BY DEF CallsTypeOK
<1>2. CASE stopped' = stopped
  BY <1>1, <1>2 DEF StoppedGone
<1>3. ASSUME NEW t \in Thread, AwaitDone(t)
      PROVE  StoppedGone'
  <2>1. phase[call[t].run] = "gone" /\ stopped' = stopped \cup {call[t].run} /\ call[t].pc = "await"
    BY <1>3 DEF AwaitDone, AwaitUntimely, At
  <2>2. call[t].run \in Run
    BY <2>1 DEF CallsTypeOK, Workable
  <2> QED
    BY <1>1, <2>1, <2>2 DEF StoppedGone
<1>4. ASSUME NEW t \in Thread, CallStep(t), ~AwaitDone(t)
      PROVE  stopped' = stopped
  <2>1. CheckOrderRisk(t) \/ EnvelopeAllowsOrder(t) => stopped' = stopped
    BY DEF CheckOrderRisk, EnvelopeAllowsOrder, Branch
  <2>2. Propose(t) \/ TakeEnvelopeSlot(t) \/ PlaceOrder(t) \/ RunOther(t) \/ Prepare(t) \/ Start(t)
          \/ StopAutonomy(t) \/ RecordResult(t) => stopped' = stopped
    BY DEF Propose, TakeEnvelopeSlot, PlaceOrder, RunOther, Prepare, Start, StopAutonomy, RecordResult
  <2> QED
    BY <1>4, <2>1, <2>2 DEF CallStep
<1>5. ASSUME NEW t \in Thread, NEW tool \in Tool, Invoke(t, tool)
      PROVE  stopped' = stopped
  BY <1>5 DEF Invoke
<1>6. ASSUME NEW t \in Thread, NEW i \in DOMAIN proposals, Approve(t, i) \/ Reject(t, i)
      PROVE  stopped' = stopped
  BY <1>6 DEF Approve, ApproveAgain, Reject
<1>7. ASSUME NEW i \in DOMAIN proposals, WindowPasses(i)
      PROVE  stopped' = stopped
  BY <1>7 DEF WindowPasses
<1>8. ListProposals => stopped' = stopped
  BY DEF ListProposals
<1>9. OnQuote \/ UNCHANGED approvalVars \/ UNCHANGED allVars => stopped' = stopped
  BY DEF OnQuote, QuoteWalks, approvalVars, allVars
<1> QED
  BY <1>2, <1>3, <1>4, <1>5, <1>6, <1>7, <1>8, <1>9 DEF ApprovalNext

\* The inductive invariant of the agent holds in every state, for any threads, tools, market, history
\* and bounds.
THEOREM AgentInvariance == ApprovalSpec => []AgentInv
<1>1. ApprovalInit => AgentInv
  BY AgentStarts
<1>2. AgentInv /\ [ApprovalNext]_allVars => AgentInv'
  <2> SUFFICES ASSUME AgentInv, [ApprovalNext]_allVars
               PROVE  AgentInv'
    OBVIOUS
  <2>1. PaperInv /\ RunsInv /\ CallsInv /\ GateInv /\ StoppedGone /\ RunsTypeOK /\ CallsTypeOK
    BY DEF AgentInv, RunsInv, CallsInv
  <2>2. PaperInv' /\ RunsInv' /\ \A s \in Run : phase[s] = "gone" => phase'[s] = "gone"
    BY <2>1, MoneyKeeps
  <2>3. CallsInv'
    BY <2>1, CallsKeep
  <2>4. StoppedGone'
    BY <2>1, <2>2, StoppedKeeps
  <2>5. GateInv'
    BY <2>1, GateKeeps
  <2> QED
    BY <2>2, <2>3, <2>4, <2>5 DEF AgentInv
<1> QED
  BY <1>1, <1>2, PTL DEF ApprovalSpec

\* One run trades at a time, and the account was funded once for each run that started
\* (StartAutonomy's critical section against the end of the run before it).
THEOREM OneRunFundedOnce == ApprovalSpec => []FundedOnce
<1>1. AgentInv => FundedOnce
  BY DEF AgentInv, RunsInv, OneRunning, FundedOnce
<1> QED
  BY <1>1, AgentInvariance, PTL

\* The position of a run that its daily-loss limit ended stays sold out until the next run.
THEOREM FlatAfterRiskStop == ApprovalSpec => []RiskStopFlat
<1>1. AgentInv => RiskStopFlat
  BY DEF AgentInv, RunsInv
<1> QED
  BY <1>1, AgentInvariance, PTL

\* The tool of a proposal runs at most once and only after an approval in time (Approve).
THEOREM ToolRunsOnce == ApprovalSpec => []ApprovedOnce
<1>1. AgentInv => ApprovedOnce
  <2> SUFFICES ASSUME CallsInv, NEW i \in DOMAIN proposals
               PROVE  runs[i] <= 1 /\ (runs[i] = 1 => proposals[i].status \in {"approved", "executed"})
    BY DEF AgentInv, ApprovedOnce
  <2>1. i \in 1..Len(proposals)
    BY DEF CallsInv, CallsTypeOK
  <2>2. runs[i] \in {0, 1} /\ (proposals[i].status \notin {"approved", "executed"} => runs[i] = 0)
    BY <2>1 DEF CallsInv, RunsCounted
  <2> QED
    BY <2>2
<1> QED
  BY <1>1, AgentInvariance, PTL

\* Every order on the main account is an approved proposal's or one of the MaxOrdersPerRun slots
\* (the gate of place_order, Approve and takeEnvelopeSlot).
THEOREM NothingBehindTheHuman == ApprovalSpec => []HumanOrEnvelope
<1>1. AgentInv => HumanOrEnvelope
  <2> SUFFICES ASSUME CallsInv, GateInv
               PROVE  HumanOrEnvelope
    BY DEF AgentInv
  <2>1. IsFiniteSet(Slots)
    <3>1. Slots \subseteq InFlight
      BY DEF Slots, InFlight, Holds
    <3> QED
      BY <3>1, FS_Subset DEF CallsInv, Numbered
  <2>2. Cardinality(Slots) \in Nat
    BY <2>1, FS_CardinalityType
  <2>3. MaxOrdersPerRun # 0 => byEnvelope <= MaxOrdersPerRun
    <3>1. /\ byEnvelope \in Nat /\ autoApprovals \in Nat
          /\ byEnvelope + Cardinality(Slots) <= autoApprovals
          /\ MaxOrdersPerRun # 0 => autoApprovals <= MaxOrdersPerRun
      BY DEF GateInv
    <3>2. MaxOrdersPerRun \in Nat
      BY EnvelopeAssumption
    <3> QED
      BY <2>2, <3>1, <3>2
  <2> QED
    BY <2>3 DEF GateInv, HumanOrEnvelope, Mine
<1> QED
  BY <1>1, AgentInvariance, PTL

\* A run whose stop has returned places no order any more (the kill-switch of StopAutonomy).
THEOREM StoppedTradesNoMore == ApprovalSpec => SilentAfterStop
<1>1. AgentInv /\ [ApprovalNext]_allVars =>
        [Len(orders') > Len(orders) /\ orders'[Len(orders')].account = AutoAccount
           => autonomy \notin stopped]_allVars
  <2> SUFFICES ASSUME AgentInv, [ApprovalNext]_allVars, Len(orders') > Len(orders),
                      orders'[Len(orders')].account = AutoAccount
               PROVE  autonomy \notin stopped
    OBVIOUS
  <2>1. PaperInv /\ RunsInv /\ CallsTypeOK /\ StoppedGone
    BY DEF AgentInv, CallsInv
  <2>2. autonomy \in Run /\ phase[autonomy] # "gone"
    BY <2>1, MoneyKeeps
  <2> QED
    BY <2>1, <2>2 DEF StoppedGone
<1> QED
  BY <1>1, AgentInvariance, PTL DEF ApprovalSpec, SilentAfterStop

=============================================================================
