----------------------------- MODULE LobReplay -----------------------------
(***************************************************************************)
(* terminal/lobreplay: one recorded event after the other goes through the *)
(* book, the fill model and a strategy.  Orders are hypothetical: they are *)
(* filled by the recorded trades and levels and change neither.            *)
(*                                                                         *)
(* A level is a side and a price; time advances by one with each event.    *)
(* The strategy is free: it may place any of ReplayOrder at any event.     *)
(* Equity points and metrics are computed from this state afterwards.      *)
(***************************************************************************)
EXTENDS LobBook, Sums, SequencesExt

CONSTANTS Event,     \* recorded rows
          ReplayOrder, \* orders the strategy may place
          Latency,   \* FillModel.LatencyMs, in events
          QueuePosition, \* FillModel.QueuePosition
          ReplayFeeBps, \* FillModel.FeeBps
          MaxEvents, \* bound on the events replayed
          MaxPlaced \* bound on the orders placed

ASSUME ReplayAssumption ==
  /\ Latency \in Nat /\ QueuePosition \in BOOLEAN /\ ReplayFeeBps \in 0..9999
  /\ MaxEvents \in Nat /\ MaxPlaced \in Nat
  /\ Event \subseteq [kind : {"snapshot", "level"}, level : Level, qty : 0..MaxQty]
                     \cup [kind : {"gap"}]
                     \cup [kind : {"trade"}, side : {"buy", "sell", "none"}, price : Nat, qty : Nat, no : Nat]
  /\ ReplayOrder \subseteq [side : {"buy", "sell"}, type : {"limit", "market"}, price : Nat, qty : Nat \ {0}]

VARIABLES lob,       \* the book
          events,    \* events replayed
          seenTrades, \* numbers of the trades replayed
          working,   \* orders in flight
          placed,    \* fillEngine.orders
          filled,    \* orders filled completely
          cancelled, \* orders dropped by a gap
          unfilled,  \* unfilledQty: what the market orders could not get
          account,   \* the portfolio
          history    \* history: per order what was ahead of it and traded since

lobVars == <<lob, events, seenTrades, working, placed, filled, cancelled, unfilled, account, history>>

\* The portfolio: the signed position, its average price, the fees paid on it,
\* cash, the result and fees of the round trips, and the fees of all the fills.
NewAccount == [position |-> 0, average |-> 0, entryFee |-> 0, cash |-> 0, gross |-> 0, fees |-> 0, charged |-> 0]

LobInit ==
  /\ lob = EmptyBook /\ events = 0 /\ seenTrades = {}
  /\ working = <<>> /\ placed = 0 /\ filled = 0 /\ cancelled = 0 /\ unfilled = 0
  /\ account = NewAccount
  /\ history = <<>>

Abs(x) == IF x < 0 THEN -x ELSE x
Lesser(x, y) == IF x < y THEN x ELSE y

\* Go's integer division truncates towards zero.
Quotient(x, y) == IF x < 0 THEN -((-x) \div y) ELSE x \div y

-----------------------------------------------------------------------------
(* portfolio.apply *)

Direction(side) == IF side = "buy" THEN 1 ELSE -1

\* fee: half a unit is rounded up.
FillFee(price, qty) == (price * qty * ReplayFeeBps + 5000) \div 10000

Open(a, dir, price, qty, fee) ==
  [a EXCEPT !.position = dir * qty, !.average = price, !.entryFee = fee]

Increase(a, dir, price, qty, fee) ==
  LET held == Abs(a.position)
  IN  [a EXCEPT !.average = (a.average * held + price * qty) \div (held + qty),
                !.entryFee = a.entryFee + fee,
                !.position = a.position + dir * qty]

\* Faulty: the fees paid at the entry stay with the position.
CloseWithoutFee(a, dir, price, qty, fee) ==
  LET left == a.position + dir * qty
  IN  [a EXCEPT !.position = left,
                !.average = IF left = 0 THEN 0 ELSE a.average,
                !.entryFee = IF left = 0 THEN 0 ELSE a.entryFee,
                !.gross = a.gross - dir * (price - a.average) * qty,
                !.fees = a.fees + fee]

\* close: a round trip takes its share of the fees paid at the entry.
CloseTrip(a, dir, price, qty, fee) ==
  LET share == Quotient(a.entryFee * qty, Abs(a.position))
      left == a.position + dir * qty
  IN  [a EXCEPT !.position = left,
                !.average = IF left = 0 THEN 0 ELSE a.average,
                !.entryFee = IF left = 0 THEN 0 ELSE a.entryFee - share,
                !.gross = a.gross - dir * (price - a.average) * qty,
                !.fees = a.fees + share + fee]

\* A fill opens a position, adds to it, or closes it and opens the opposite
\* one with what is left.
Settle(a, dir, price, qty, fee) ==
  LET held == Abs(a.position)
      closing == Lesser(held, qty)
      part == Quotient(fee * closing, qty)
  IN  CASE held = 0 -> Open(a, dir, price, qty, fee)
        [] held # 0 /\ (a.position > 0) = (dir > 0) -> Increase(a, dir, price, qty, fee)
        [] OTHER ->
             LET closed == CloseTrip(a, dir, price, closing, part)
             IN  IF qty = closing THEN closed ELSE Open(closed, dir, price, qty - closing, fee - part)

RecordFill(a, side, price, qty) ==
  LET dir == Direction(side)
      fee == FillFee(price, qty)
  IN  Settle([a EXCEPT !.cash = a.cash - dir * price * qty - fee, !.charged = a.charged + fee],
             dir, price, qty, fee)

-----------------------------------------------------------------------------
(* fillEngine: a step carries [working, account, filled, unfilled, history]. *)

BookSide(side) == IF side = "buy" THEN "bid" ELSE "ask"
OtherSide(side) == IF side = "buy" THEN "ask" ELSE "bid"

Resting(book, side, price) == IF <<side, price>> \in Level THEN book.levels[<<side, price>>] ELSE 0

\* The queue an order joins: what rests at its price when it becomes visible.
QueueAhead(book, order) ==
  IF QueuePosition THEN Resting(book, BookSide(order.side), order.price) ELSE 0

\* The prices of one side of the book, and the worst of some of them.
SidePrices(book, side) == {l[2] : l \in {x \in Level : x[1] = side /\ book.levels[x] > 0}}
Worst(side, prices) == IF side = "ask" THEN Max(prices) ELSE Min(prices)

\* executeMarket takes what it can at one price.
Take(book, order, price, acc) ==
  LET qty == Lesser(book.levels[<<OtherSide(order.side), price>>], acc.left)
  IN  IF qty = 0 THEN acc
      ELSE [left |-> acc.left - qty, account |-> RecordFill(acc.account, order.side, price, qty)]

\* executeMarket: walk the other side, the worst price last; what is not there is given up.
ExecuteMarket(e, book, order) ==
  LET side == OtherSide(order.side)
      done == MapThenFoldSet(LAMBDA price, acc : Take(book, order, price, acc),
                             [left |-> order.remaining, account |-> e.account],
                             LAMBDA price : price, LAMBDA prices : Worst(side, prices),
                             SidePrices(book, side))
  IN  [e EXCEPT !.account = done.account,
                !.filled = @ + (IF done.left = 0 THEN 1 ELSE 0),
                !.unfilled = @ + done.left,
                !.history = [@ EXCEPT ![order.id].got = order.remaining - done.left]]

ActivateOne(acc, book, now, order) ==
  IF order.active \/ now < order.activeAt THEN [acc EXCEPT !.working = Append(@, order)]
  ELSE IF order.type = "market" THEN ExecuteMarket(acc, book, order)
  ELSE [acc EXCEPT
          !.working = Append(@, [order EXCEPT !.active = TRUE, !.queueAhead = QueueAhead(book, order)]),
          !.history = [@ EXCEPT ![order.id].ahead = Resting(book, BookSide(order.side), order.price)]]

\* activate: the orders whose time has come.
Activate(e, book, now) ==
  FoldLeft(LAMBDA acc, order : ActivateOne(acc, book, now, order), [e EXCEPT !.working = <<>>], e.working)

\* A trade meets an order that rests on the other side at its price.
Meets(ev, order) ==
  order.active /\ order.price = ev.price /\ ev.side # "none" /\ ev.side # order.side /\ ev.qty > 0

\* Faulty: a trade that is larger than the queue fills the order with all of it.
ThroughQueueAll(order, qty) ==
  IF QueuePosition /\ order.queueAhead > 0
    THEN IF qty <= order.queueAhead THEN [ahead |-> order.queueAhead - qty, qty |-> 0]
         ELSE [ahead |-> 0, qty |-> Lesser(qty, order.remaining)]
    ELSE [ahead |-> order.queueAhead, qty |-> Lesser(qty, order.remaining)]

\* The trade consumes the queue first; only what is over fills the order.
ThroughQueue(order, qty) ==
  LET ahead == IF QueuePosition THEN Lesser(qty, order.queueAhead) ELSE 0
  IN  [ahead |-> order.queueAhead - ahead, qty |-> Lesser(qty - ahead, order.remaining)]

\* The past of an order that met a trade.
Met(past, got, traded) == [past EXCEPT !.got = @ + got, !.traded = @ + traded]

TradeOne(acc, ev, order) ==
  LET hit == ThroughQueue(order, ev.qty)
      left == order.remaining - hit.qty
  IN  IF ~Meets(ev, order) THEN [acc EXCEPT !.working = Append(@, order)]
      ELSE [acc EXCEPT
              !.account = IF hit.qty = 0 THEN @ ELSE RecordFill(@, order.side, ev.price, hit.qty),
              !.filled = @ + (IF left = 0 THEN 1 ELSE 0),
              !.working = IF left = 0 THEN @
                          ELSE Append(@, [order EXCEPT !.remaining = left, !.queueAhead = hit.ahead]),
              !.history = [acc.history EXCEPT ![order.id] = Met(@, hit.qty, ev.qty)]]

\* onTrade: the working orders meet the trade, the oldest first.
OnTrade(e, ev) ==
  FoldLeft(LAMBDA acc, order : TradeOne(acc, ev, order), [e EXCEPT !.working = <<>>], e.working)

\* An order's id is its index in the history.
SubmitOne(acc, o, now) ==
  [acc EXCEPT
     !.working = Append(@, [id |-> Len(acc.history) + 1, side |-> o.side, type |-> o.type, price |-> o.price,
                            remaining |-> o.qty, active |-> FALSE, activeAt |-> now + Latency, queueAhead |-> 0]),
     !.history = Append(@, [order |-> o, ahead |-> 0, traded |-> 0, got |-> 0])]

\* submit
Submit(e, placing, now) == FoldLeft(LAMBDA acc, o : SubmitOne(acc, o, now), e, placing)

-----------------------------------------------------------------------------
(* replayer.step *)

\* cancelAll
CancelAll(e) == [e EXCEPT !.cancelled = @ + Len(e.working), !.working = <<>>]

Duplicate(ev) == ev.kind = "trade" /\ ev.no # 0 /\ ev.no \in seenTrades

\* A trade recorded twice only ends a run of snapshot rows.
SkipDuplicate(ev) ==
  /\ Duplicate(ev)
  /\ lob' = Apply(lob, ev)
  /\ UNCHANGED <<seenTrades, working, placed, filled, cancelled, unfilled, account, history>>

\* The book, the orders that are due, the fills of a trade, the strategy's
\* orders, and those of them that are due at once.
Step(ev, placing) ==
  LET now == events + 1
      book == Apply(lob, ev)
      e0 == [working |-> working, account |-> account, filled |-> filled, unfilled |-> unfilled,
             cancelled |-> cancelled, history |-> history]
      e1 == IF ev.kind = "gap" THEN CancelAll(e0) ELSE e0
      e2 == Activate(e1, book, now)
      e3 == IF ev.kind = "trade" THEN OnTrade(e2, ev) ELSE e2
      e4 == Submit(e3, placing, now)
      e5 == Activate(e4, book, now)
  IN  /\ ~Duplicate(ev)
      /\ lob' = book
      /\ seenTrades' = IF ev.kind = "trade" /\ ev.no # 0 THEN seenTrades \cup {ev.no} ELSE seenTrades
      /\ placed' = placed + Len(placing)
      /\ working' = e5.working /\ account' = e5.account /\ filled' = e5.filled
      /\ unfilled' = e5.unfilled /\ cancelled' = e5.cancelled /\ history' = e5.history

LobNext ==
  /\ events < MaxEvents
  /\ events' = events + 1
  /\ \E ev \in Event :
       \/ SkipDuplicate(ev)
       \/ Step(ev, <<>>)
       \/ \E o \in ReplayOrder : placed < MaxPlaced /\ Step(ev, <<o>>)

LobSpec == LobInit /\ [][LobNext]_lobVars

-----------------------------------------------------------------------------
(* Properties *)

\* A resting order never got more than what traded at its price beyond the
\* volume that was ahead of it, and the counts of the result say what became of
\* the orders: the filled ones got everything, and what was ordered is what was
\* got, what is still open, what was given up and what a gap dropped.
HonestFills ==
  /\ \A i \in 1..Len(history) :
       LET h == history[i]
       IN  /\ h.got <= h.order.qty
           /\ h.order.type = "limit" /\ QueuePosition /\ h.got > 0 => h.got <= h.traded - h.ahead
  /\ filled = Cardinality({i \in 1..Len(history) : history[i].got = history[i].order.qty})
  /\ LET ordered == Total([i \in 1..Len(history) |-> history[i].order.qty])
         got == Total([i \in 1..Len(history) |-> history[i].got])
         open == Total([i \in 1..Len(working) |-> working[i].remaining])
     IN  cancelled = 0 => ordered = got + open + unfilled

\* What the round trips and the open position say was paid is what the fills
\* charged, to the last unit, and what they say was earned is what the cash
\* account says, up to the truncated average price of the position: a fill that
\* adds to it loses less than one unit of money per unit held, and no more is
\* held than was got.
TripsMatchCash ==
  LET got == Total([i \in 1..Len(history) |-> history[i].got])
      booked == account.gross - account.position * account.average
  IN  /\ account.fees + account.entryFee = account.charged
      /\ 2 * Abs(account.cash + account.charged - booked) <= got * (got - 1)

\* The result of a replay: its fills could have happened, and its trips, fees
\* and cash tell of the same fills.
HonestReplay == HonestFills /\ TripsMatchCash
=============================================================================
