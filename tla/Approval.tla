------------------------------ MODULE Approval ------------------------------
(***************************************************************************)
(* terminal/agent: the tool calls of the model and of HTTP clients, the    *)
(* approval gate with its proposals, the order envelope, and the calls of  *)
(* people who approve, reject and list.  proposals.go, risk.go, and the    *)
(* mutating tools of tools.go, over the autonomy runner and the paper      *)
(* broker: `place` is place_order, `start` and `stop` the autonomy, `other`*)
(* a gated tool whose effect lies elsewhere (cancel_order, bot_start).     *)
(*                                                                         *)
(* One action is one critical section of proposalMu, one call of the       *)
(* broker, or one read of the portfolio.  The market moves freely: every   *)
(* read of a quote takes any of Quote.  `due` is the clock: the proposals  *)
(* whose window has passed.                                                *)
(***************************************************************************)
EXTENDS Autonomy

CONSTANTS Thread,          \* goroutines that serve requests
          Tool,            \* the tool calls they are asked for
          Mode,            \* ApprovalPolicy.Mode
          MaxOrdersPerRun, \* envelope auto-approvals; 0: no limit
          EnvelopePct,     \* Envelope.MaxOrderPct and MaxPositionPct
          MaxProposals,    \* size of the ring
          MaxCalls         \* bound on the calls served

ASSUME ModeAssumption == Mode \in {"confirm", "envelope"}
ASSUME EnvelopeAssumption == {MaxOrdersPerRun, EnvelopePct, MaxCalls} \subseteq Nat
ASSUME MaxProposalsAssumption == MaxProposals \in Nat \ {0}
ASSUME ToolAssumption ==
  Tool \subseteq [name : {"place", "start", "stop", "other"}, order : Request, budget : Nat]

VARIABLES proposals,     \* every proposal ever made: its tool and status
          proposalOrder, \* the ring: the numbers of those still kept
          proposalResults,
          autoApprovals,
          due,
          call,          \* what a thread is doing
          served,        \* bound: calls begun
          runs,          \* history: how often the tool of a proposal ran
          byHuman,       \* history: orders placed by an approved call
          byEnvelope,    \* history: orders placed by the envelope
          stopped        \* history: runs whose StopAutonomy has returned

approvalVars == <<proposals, proposalOrder, proposalResults, autoApprovals, due, call, served,
           runs, byHuman, byEnvelope, stopped>>
allVars == <<vars, runVars, approvalVars>>

ProposalStatus == {"pending", "approved", "rejected", "expired", "executed"}
Id == 1..MaxCalls
NoTool == [name |-> "none"]
Pc == {"idle", "riskCash", "riskPosition", "envelope", "envelopeCash", "slot", "propose",
       "execute", "prepare", "start", "stop", "await", "record"}
Idle == [pc |-> "idle", tool |-> NoTool, gate |-> FALSE, id |-> 0, run |-> 0]

ApprovalTypeOK ==
  /\ proposals \in Seq([tool : Tool, status : ProposalStatus])
  /\ proposalOrder \in Seq(Id) /\ Len(proposalOrder) <= MaxProposals
  /\ proposalResults \subseteq Id
  /\ autoApprovals \in Nat
  /\ due \subseteq Id
  /\ \A t \in Thread : call[t].pc \in Pc /\ call[t].id \in 0..Len(proposals)
  /\ served \in 0..MaxCalls
  /\ runs \in [Id -> Nat]
  /\ {byHuman, byEnvelope} \subseteq Nat
  /\ stopped \subseteq Run

ApprovalInit ==
  /\ Init /\ AutonomyInit
  /\ proposals = <<>>
  /\ proposalOrder = <<>>
  /\ proposalResults = {}
  /\ autoApprovals = 0
  /\ due = {}
  /\ call = [t \in Thread |-> Idle]
  /\ served = 0
  /\ runs = [i \in Id |-> 0]
  /\ byHuman = 0
  /\ byEnvelope = 0
  /\ stopped = {}

-----------------------------------------------------------------------------
(* Helpers *)

ringVars == <<proposals, proposalOrder, proposalResults, due, runs>>
orderVars == <<autoApprovals, byHuman, byEnvelope>>
paperVars == <<vars, runVars>>

At(t, pc) == call[t].pc = pc
Goto(t, pc) == call' = [call EXCEPT ![t].pc = pc]
Done(t) == call' = [call EXCEPT ![t] = Idle]

\* A call ends: an approved one still has to record its result.
Return(t) == IF call[t].id = 0 THEN Done(t) ELSE Goto(t, "record")

\* expireLocked: the window of a pending proposal has passed.
Expired(i) ==
  \/ proposals[i].status = "expired"
  \/ proposals[i].status = "pending" /\ i \in due

SetStatus(i, status) == proposals' = [proposals EXCEPT ![i].status = status]

\* The first call of a tool.
Entry(tool) ==
  CASE tool.name = "place" -> "riskCash"
    [] tool.name = "start" -> "prepare"
    [] tool.name = "stop" -> "stop"
    [] tool.name = "other" -> "execute"

-----------------------------------------------------------------------------
(* Reads of the market and of the account *)

\* referencePrice: the touch, or the last price.
ReferencePrice(order, q) ==
  IF order.type = "limit" THEN order.price ELSE MarketPrice(order.side, q)

Notional(order, q) == ReferencePrice(order, q) * order.qty * Unit

\* Portfolio.TotalValue and the value of one position, at the last price.
PositionValue(s, q) == accounts[Main].positions[s].qty * q.last * Unit
TotalValue(q) == accounts[Main].cash + PositionValue(q.symbol, q)

\* checkOrderRisk, up to its read of the cash: structure, funds, order size.
RiskCashAllows(order, q) ==
  LET cash == accounts[Main].cash
      cost == Notional(order, q)
  IN  /\ ~Invalid(order)
      /\ ReferencePrice(order, q) > 0
      /\ order.side = "buy" =>
           /\ cash > 0
           /\ cost + Fee(order, ReferencePrice(order, q)) <= cash
           /\ 100 * cost <= MaxOrderPct * cash

\* checkOrderRisk, its read of the portfolio: size of the position, no short.
RiskPositionAllows(order, q) ==
  IF order.side = "buy"
    THEN 100 * (PositionValue(order.symbol, q) + Notional(order, q)) <= MaxPositionPct * TotalValue(q)
    ELSE accounts[Main].positions[order.symbol].qty >= order.qty

\* envelopeAllowsOrder reads the portfolio, then, for a buy, the cash.
EnvelopePositionAllows(order, q) ==
  /\ ReferencePrice(order, q) > 0
  /\ IF order.side = "buy"
       THEN 100 * (PositionValue(order.symbol, q) + Notional(order, q)) <= EnvelopePct * TotalValue(q)
       ELSE accounts[Main].positions[order.symbol].qty >= order.qty
EnvelopeCashAllows(order, q) ==
  /\ accounts[Main].cash > 0
  /\ 100 * Notional(order, q) <= EnvelopePct * accounts[Main].cash

QuotesOf(order) == {q \in Quote : q.symbol = order.symbol}

-----------------------------------------------------------------------------
(* Requests *)

\* A tool call of the model or of an HTTP client, with the gate.
Invoke(t, tool) ==
  /\ At(t, "idle")
  /\ served < MaxCalls
  /\ served' = served + 1
  /\ call' = [call EXCEPT ![t] = [Idle EXCEPT
       !.pc = IF tool.name = "other" THEN "propose" ELSE Entry(tool),
       !.tool = tool, !.gate = TRUE]]
  /\ UNCHANGED <<paperVars, ringVars, orderVars, stopped>>

\* Approve and Reject look up the proposal; when its window has passed it
\* expires now.
ExpireNow(i) ==
  /\ Expired(i)
  /\ IF proposals[i].status = "pending"
       THEN SetStatus(i, "expired")
       ELSE UNCHANGED proposals

Kept(i) == \E k \in 1..Len(proposalOrder) : proposalOrder[k] = i

\* Faulty: a proposal that was handled before is approved again.
ApproveAgain(t, i) ==
  /\ At(t, "idle")
  /\ served < MaxCalls
  /\ served' = served + 1
  /\ Kept(i)
  /\ IF Expired(i)
       THEN ExpireNow(i) /\ UNCHANGED call
       ELSE /\ SetStatus(i, "approved")
            /\ call' = [call EXCEPT ![t] = [Idle EXCEPT
                 !.pc = Entry(proposals[i].tool), !.tool = proposals[i].tool, !.id = i]]
  /\ UNCHANGED <<paperVars, proposalOrder, proposalResults, due, runs, orderVars, stopped>>

\* Approve: a pending proposal becomes approved, and its tool runs without the
\* gate after the unlock.
Approve(t, i) ==
  /\ proposals[i].status \in {"pending", "expired"}
  /\ ApproveAgain(t, i)

\* Reject.
Reject(t, i) ==
  /\ At(t, "idle")
  /\ served < MaxCalls
  /\ served' = served + 1
  /\ Kept(i)
  /\ proposals[i].status \in {"pending", "expired"}
  /\ IF Expired(i)
       THEN ExpireNow(i)
       ELSE SetStatus(i, "rejected")
  /\ UNCHANGED <<paperVars, proposalOrder, proposalResults, due, runs, orderVars, stopped, call>>

\* Proposals: listing expires what is due, and tells nobody.
ListProposals ==
  /\ \E k \in 1..Len(proposalOrder) :
       proposals[proposalOrder[k]].status = "pending" /\ proposalOrder[k] \in due
  /\ proposals' = [i \in DOMAIN proposals |->
       IF Kept(i) /\ Expired(i) THEN [proposals[i] EXCEPT !.status = "expired"] ELSE proposals[i]]
  /\ UNCHANGED <<paperVars, proposalOrder, proposalResults, due, runs, orderVars, stopped,
                 call, served>>

\* The clock: the window of a pending proposal passes.
WindowPasses(i) ==
  /\ i \notin due
  /\ proposals[i].status = "pending"
  /\ due' = due \cup {i}
  /\ UNCHANGED <<paperVars, proposals, proposalOrder, proposalResults, runs, orderVars,
                 stopped, call, served>>

-----------------------------------------------------------------------------
(* The steps of a call *)

\* newProposalLocked: the oldest proposal leaves a full ring.
RingWith(i) ==
  LET ring == Append(proposalOrder, i)
  IN  IF Len(ring) > MaxProposals THEN Tail(ring) ELSE ring

\* propose and Propose: the call ends with a pending proposal as its result.
Propose(t) ==
  LET i == Len(proposals) + 1
  IN  /\ At(t, "propose")
      /\ proposals' = Append(proposals, [tool |-> call[t].tool, status |-> "pending"])
      /\ proposalOrder' = RingWith(i)
      /\ proposalResults' = IF Len(proposalOrder) = MaxProposals
                              THEN proposalResults \ {Head(proposalOrder)} ELSE proposalResults
      /\ Done(t)
      /\ UNCHANGED <<paperVars, due, runs, orderVars, stopped, served>>

\* A read that decides where the call goes on.
Branch(t, pc, allowed, yes, no) ==
  /\ At(t, pc)
  /\ Unlocked
  /\ IF allowed THEN Goto(t, yes)
     ELSE IF no = "refused" THEN Return(t) ELSE Goto(t, no)
  /\ UNCHANGED <<paperVars, ringVars, orderVars, stopped, served>>

CheckOrderRisk(t) ==
  LET order == call[t].tool.order
      checked == IF call[t].gate THEN IF Mode = "envelope" THEN "envelope" ELSE "propose"
                 ELSE "execute"
  IN  /\ call[t].pc \in {"riskCash", "riskPosition"}
      /\ \E q \in QuotesOf(order) :
           \/ Branch(t, "riskCash", RiskCashAllows(order, q), "riskPosition", "refused")
           \/ Branch(t, "riskPosition", RiskPositionAllows(order, q), checked, "refused")

EnvelopeAllowsOrder(t) ==
  LET order == call[t].tool.order
      read == IF order.side = "buy" THEN "envelopeCash" ELSE "slot"
  IN  /\ call[t].pc \in {"envelope", "envelopeCash"}
      /\ \E q \in QuotesOf(order) :
           \/ Branch(t, "envelope", EnvelopePositionAllows(order, q), read, "propose")
           \/ Branch(t, "envelopeCash", EnvelopeCashAllows(order, q), "slot", "propose")

\* Faulty: the quota is compared after it was used.
TakeSlotLate(t) ==
  /\ At(t, "slot")
  /\ IF MaxOrdersPerRun # 0 /\ autoApprovals > MaxOrdersPerRun
       THEN Goto(t, "propose") /\ UNCHANGED autoApprovals
       ELSE Goto(t, "execute") /\ autoApprovals' = autoApprovals + 1
  /\ UNCHANGED <<paperVars, ringVars, byHuman, byEnvelope, stopped, served>>

\* takeEnvelopeSlot: a slot is never given back, also when the order fails.
\* (Without a limit the code does not count; the count is then never read.)
TakeEnvelopeSlot(t) ==
  /\ At(t, "slot")
  /\ IF MaxOrdersPerRun # 0 /\ autoApprovals >= MaxOrdersPerRun
       THEN Goto(t, "propose") /\ UNCHANGED autoApprovals
       ELSE Goto(t, "execute") /\ autoApprovals' = autoApprovals + 1
  /\ UNCHANGED <<paperVars, ringVars, byHuman, byEnvelope, stopped, served>>

\* The tool ran for a proposal.
CountRun(t) ==
  runs' = IF call[t].id = 0 THEN runs ELSE [runs EXCEPT ![call[t].id] = @ + 1]

\* broker.Place on the main account; an approved call has no key of its own.
PlaceOrder(t) ==
  LET order == call[t].tool.order
      req == IF call[t].gate THEN order ELSE [order EXCEPT !.cid = NoId]
  IN  /\ At(t, "execute")
      /\ call[t].tool.name = "place"
      /\ Unlocked
      /\ \/ \E q \in QuotesOf(order) :
              /\ Place(Main, req, q)
              /\ byHuman' = byHuman + (IF call[t].gate THEN 0 ELSE 1)
              /\ byEnvelope' = byEnvelope + (IF call[t].gate THEN 1 ELSE 0)
         \/ req.cid \in clientOrderIDs /\ UNCHANGED <<vars, byHuman, byEnvelope>>
      /\ CountRun(t)
      /\ Return(t)
      /\ UNCHANGED <<runVars, proposals, proposalOrder, proposalResults, due, autoApprovals,
                     stopped, served>>

\* cancel_order, bot_start and the like, approved.
RunOther(t) ==
  /\ At(t, "execute")
  /\ call[t].tool.name = "other"
  /\ CountRun(t)
  /\ Return(t)
  /\ UNCHANGED <<paperVars, proposals, proposalOrder, proposalResults, due, orderVars,
                 stopped, served>>

\* clampAutonomy: the budget is capped by the cash that main has now.
Clamped(amount) ==
  LET cash == accounts[Main].cash
  IN  IF cash > 0 /\ amount > cash THEN cash ELSE amount

\* start_autonomy: prepareAutonomy reads the cash before the start takes its lock; with the gate
\* the start is proposed with the arguments as they came.
Prepare(t) ==
  /\ At(t, "prepare")
  /\ Unlocked
  /\ IF ~call[t].gate
       THEN call' = [call EXCEPT ![t].pc = "start", ![t].tool.budget = Clamped(@)]
     ELSE IF InProgress THEN Return(t)
     ELSE Goto(t, "propose")
  /\ UNCHANGED <<paperVars, ringVars, orderVars, stopped, served>>

Start(t) ==
  /\ At(t, "start")
  /\ \/ StartAutonomy(call[t].tool.budget)
     \/ StartRefused(call[t].tool.budget) /\ UNCHANGED paperVars
  /\ CountRun(t)
  /\ Return(t)
  /\ UNCHANGED <<proposals, proposalOrder, proposalResults, due, orderVars, stopped, served>>

\* stop_autonomy: no gate; the stop is signalled, then the run's end awaited.
StopAutonomy(t) ==
  /\ At(t, "stop")
  /\ IF autonomy = 0
       THEN Done(t) /\ UNCHANGED runVars
       ELSE /\ call' = [call EXCEPT ![t].pc = "await", ![t].run = autonomy]
            /\ SignalStop(autonomy)
  /\ UNCHANGED <<vars, ringVars, orderVars, stopped, served>>

\* Faulty: the stop returns as soon as the run is no longer running.
AwaitUntimely(t) ==
  /\ At(t, "await")
  /\ stopped' = stopped \cup {call[t].run}
  /\ Done(t)
  /\ UNCHANGED <<paperVars, ringVars, orderVars, served>>

AwaitDone(t) == At(t, "await") /\ phase[call[t].run] = "gone" /\ AwaitUntimely(t)

\* Approve after the tool: the proposal is executed and its result kept, also
\* when the ring has dropped it meanwhile.
RecordResult(t) ==
  /\ At(t, "record")
  /\ SetStatus(call[t].id, "executed")
  /\ proposalResults' = proposalResults \cup {call[t].id}
  /\ Done(t)
  /\ UNCHANGED <<paperVars, proposalOrder, due, runs, orderVars, stopped, served>>

CallStep(t) ==
  \/ Propose(t) \/ CheckOrderRisk(t) \/ EnvelopeAllowsOrder(t) \/ TakeEnvelopeSlot(t)
  \/ PlaceOrder(t) \/ RunOther(t) \/ Prepare(t) \/ Start(t)
  \/ StopAutonomy(t) \/ AwaitDone(t) \/ RecordResult(t)

\* The event loop of the API drives resting limit orders against a quote.
QuoteWalks == (VisitOrder \/ EndQuote) /\ UNCHANGED <<runVars, approvalVars>>
OnQuote ==
  \/ \E q \in Quote : BeginQuote(q) /\ UNCHANGED <<runVars, approvalVars>>
  \/ QuoteWalks

ApprovalNext ==
  \/ \E t \in Thread :
       \/ \E tool \in Tool : Invoke(t, tool)
       \/ \E i \in DOMAIN proposals : Approve(t, i) \/ Reject(t, i)
       \/ CallStep(t)
  \/ \E i \in DOMAIN proposals : WindowPasses(i)
  \/ ListProposals
  \/ \E r \in Run : RunStep(r) /\ UNCHANGED approvalVars
  \/ OnQuote

\* The broker's mutex is handed to those who wait for it (a Go mutex does not
\* starve), its holder goes on, goroutines run and timers fire.
ApprovalFairness ==
  /\ SF_allVars(\E r \in Run : RunStep(r) /\ UNCHANGED approvalVars)
  /\ \A t \in Thread : WF_allVars(AwaitDone(t))
  /\ WF_allVars(QuoteWalks)

ApprovalSpec == ApprovalInit /\ [][ApprovalNext]_allVars /\ ApprovalFairness

-----------------------------------------------------------------------------
(* Properties *)

\* The tool of a proposal runs at most once and only after an approval that
\* came in time, although approvals, rejections and listings race and the
\* tool runs outside the lock ("Approve executes one pending, not expired
\* proposal exactly once").
ApprovedOnce ==
  \A i \in DOMAIN proposals :
    /\ runs[i] <= 1
    /\ runs[i] = 1 => proposals[i].status \in {"approved", "executed"}

\* Nothing reaches the main account behind the human's back: each order there
\* belongs to an approved proposal or to one of the MaxOrdersPerRun slots.
HumanOrEnvelope ==
  LET mine == {k \in 1..Len(orders) : orders[k].account = Main}
  IN  /\ Cardinality(mine) = byHuman + byEnvelope
      /\ byHuman <= Total(runs)
      /\ Mode = "confirm" => byEnvelope = 0
      /\ MaxOrdersPerRun # 0 => byEnvelope <= MaxOrdersPerRun

\* When StopAutonomy has returned, its run trades no more: an order on AutoAccount
\* comes from a run nobody has finished stopping.
SilentAfterStop ==
  [][Len(orders') > Len(orders) /\ orders'[Len(orders')].account = AutoAccount
       => autonomy \notin stopped]_allVars

\* The kill-switch works: StopAutonomy returns.
StopReturns == \A t \in Thread : At(t, "await") ~> At(t, "idle")

\* The kill-switch: it returns, and the run it stopped has traded its last.
KillSwitch == SilentAfterStop /\ StopReturns

=============================================================================
