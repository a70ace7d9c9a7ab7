----------------------------- MODULE PaperBroker -----------------------------
(***************************************************************************)
(* terminal/paper/paper.go: the in-process paper-trading broker.  Every    *)
(* method runs under Broker.mu, so one action is one method call, except   *)
(* that OnQuote's walk over the orders is one action per order with the    *)
(* mutex held in between (quote # NoQuote).                                *)
(*                                                                         *)
(* Money is counted in 1/10000 of the price unit, which makes a fee in     *)
(* basis points a whole number; the code's float64 average price and       *)
(* realized profit are exact fractions <<numerator, denominator>> here.    *)
(* Timestamps, messages and the per-position profit of a report are left   *)
(* out, and a position of quantity zero stands for an absent map entry.    *)
(***************************************************************************)
EXTENDS Integers, Sequences, FiniteSets

CONSTANTS Main,          \* MainAccount
          SubAccount,    \* the accounts funded by Allocate
          Symbol,        \* instruments
          ClientId,      \* idempotency keys a request may carry
          NoId,          \* a request without one
          FeeBps,        \* commission in basis points, positive after New
          InitialCash,   \* cash of the main account, in money units
          Request,       \* order requests the callers send
          Quote,         \* market views the orders meet
          Amount,        \* amounts passed to Allocate
          MaxOrders      \* bound on the orders placed

Account == SubAccount \cup {Main}
Unit == 10000
Side == {"buy", "sell", "unknown"}
Type == {"market", "limit", "unknown"}
Status == {"new", "filled", "cancelled", "rejected"}

ASSUME FeeAssumption == FeeBps \in Nat \ {0}
ASSUME CashAssumption == InitialCash \in Nat
ASSUME AccountAssumption == Main \notin SubAccount
ASSUME IdAssumption == NoId \notin ClientId
ASSUME SymbolAssumption == IsFiniteSet(Symbol)
ASSUME AmountAssumption == Amount \subseteq Int
ASSUME MaxOrdersAssumption == MaxOrders \in Nat
ASSUME RequestAssumption ==
  Request \subseteq [symbol : Symbol, side : Side, type : Type, qty : Int,
                     price : Int, cid : ClientId \cup {NoId}]
ASSUME QuoteAssumption ==
  Quote \subseteq [symbol : Symbol, last : Nat, bid : Nat, ask : Nat]

VARIABLES opened,         \* accountOrder, as a set: the accounts that exist
          accounts,       \* the accountState of every account
          orders,         \* orders in orderOrder; an order's id is its index
          trades,         \* Broker.trades
          clientOrderIDs, \* the idempotency keys seen so far
          quote,          \* the view OnQuote is applying, or NoQuote
          cursor,         \* OnQuote's next index into orderOrder
          allocated       \* history: net transfers into an account

vars == <<opened, accounts, orders, trades, clientOrderIDs, quote, cursor, allocated>>

NoQuote == [symbol |-> NoId, last |-> 0, bid |-> 0, ask |-> 0]
NoPosition == [qty |-> 0, avg |-> <<0, 1>>]
Fraction == Int \X (Nat \ {0})
Position == [qty : Nat, avg : Fraction]
AccountState == [cash : Int, fees : Nat, realized : Fraction,
                 positions : [Symbol -> Position], posOrder : Seq(Symbol)]
Order == [account : Account, symbol : Symbol, side : Side, type : Type, qty : Int,
          price : Int, cid : ClientId \cup {NoId}, status : Status, filled : Int]
Trade == [order : Nat, account : Account, symbol : Symbol, side : Side,
          qty : Nat, price : Nat]

TypeOK ==
  /\ opened \subseteq Account
  /\ accounts \in [Account -> AccountState]
  /\ orders \in Seq(Order)
  /\ trades \in Seq(Trade)
  /\ clientOrderIDs \subseteq ClientId
  /\ quote \in Quote \cup {NoQuote}
  /\ cursor \in Nat
  /\ allocated \in [Account -> Int]

EmptyAccount == [cash |-> 0, fees |-> 0, realized |-> <<0, 1>>,
                 positions |-> [s \in Symbol |-> NoPosition], posOrder |-> <<>>]

Init ==
  /\ opened = {Main}
  /\ accounts = [a \in Account |->
                   [EmptyAccount EXCEPT !.cash = IF a = Main THEN InitialCash ELSE 0]]
  /\ orders = <<>>
  /\ trades = <<>>
  /\ clientOrderIDs = {}
  /\ quote = NoQuote
  /\ cursor = 1
  /\ allocated = [a \in Account |-> 0]

-----------------------------------------------------------------------------
(* Fractions and prices *)

Add(x, y) == <<x[1] * y[2] + y[1] * x[2], x[2] * y[2]>>
Times(n, x) == <<n * x[1], x[2]>>
Over(x, n) == <<x[1], x[2] * n>>
Equal(x, y) == x[1] * y[2] = y[1] * x[2]

Turnover(o, price) == price * o.qty * Unit
Fee(o, price) == price * o.qty * FeeBps

\* validateRequest: the reasons are told apart only by their wording.
Invalid(req) ==
  \/ req.qty <= 0
  \/ req.side = "unknown"
  \/ req.type = "unknown"
  \/ req.type = "limit" /\ req.price <= 0

\* marketPrice: the touch, or the last price when that side is empty.
MarketPrice(side, q) ==
  LET touch == IF side = "buy" THEN q.ask ELSE q.bid
  IN  IF touch <= 0 THEN q.last ELSE touch

\* marketablePrice: the limit crosses the quote, and it fills at the touch.
Crosses(o, q) ==
  /\ o.price > 0
  /\ \/ o.side = "buy" /\ q.ask > 0 /\ q.ask <= o.price
     \/ o.side = "sell" /\ q.bid > 0 /\ q.bid >= o.price
TouchPrice(side, q) == IF side = "buy" THEN q.ask ELSE q.bid

-----------------------------------------------------------------------------
(* executeLocked *)

\* The reasons executeLocked gives for not filling o.
Refuses(acc, o, price) ==
  \/ price <= 0
  \/ o.side = "buy" /\ acc.cash < Turnover(o, price) + Fee(o, price)
  \/ o.side = "sell" /\ acc.positions[o.symbol].qty < o.qty

\* Faulty bookkeeping of a buy: the new lot's price replaces the average.
LastPrice(pos, o, price) == <<price, 1>>

\* The average price of a position and a new lot, weighted by quantity.
AvgPrice(pos, o, price) ==
  Over(Add(Times(pos.qty, pos.avg), <<price * o.qty, 1>>), pos.qty + o.qty)

\* posOrder after a buy of s: a symbol without a position is appended.
PosOrder(acc, s) ==
  IF acc.positions[s] = NoPosition THEN Append(acc.posOrder, s) ELSE acc.posOrder

\* A buy: cash pays turnover and fee, the lot joins the position.
Bought(acc, o, price) ==
  LET pos == acc.positions[o.symbol]
  IN  [acc EXCEPT !.cash = @ - (Turnover(o, price) + Fee(o, price)),
                  !.fees = @ + Fee(o, price),
                  !.positions[o.symbol] = [qty |-> pos.qty + o.qty,
                                           avg |-> AvgPrice(pos, o, price)],
                  !.posOrder = PosOrder(acc, o.symbol)]

\* A sell: the profit over the average price is realized, a position sold out
\* leaves the map and stays in posOrder.
Sold(acc, o, price) ==
  LET pos == acc.positions[o.symbol]
      pnl == Times(o.qty, Add(<<price, 1>>, Times(-1, pos.avg)))
      qty == pos.qty - o.qty
  IN  [acc EXCEPT !.cash = @ + (Turnover(o, price) - Fee(o, price)),
                  !.fees = @ + Fee(o, price),
                  !.realized = Add(@, pnl),
                  !.positions[o.symbol] = IF qty = 0 THEN NoPosition
                                          ELSE [qty |-> qty, avg |-> pos.avg]]

Filled(acc, o, price) ==
  IF o.side = "buy" THEN Bought(acc, o, price) ELSE Sold(acc, o, price)

TradeOf(i, o, price) ==
  [order |-> i, account |-> o.account, symbol |-> o.symbol, side |-> o.side,
   qty |-> o.qty, price |-> price]

\* executeLocked on order i of the list `book`, and the rejection of a failure.
Execute(book, i, price) ==
  LET o == book[i]
      a == o.account
  IN  IF Refuses(accounts[a], o, price)
        THEN /\ orders' = [book EXCEPT ![i].status = "rejected"]
             /\ UNCHANGED <<accounts, trades>>
        ELSE /\ orders' = [book EXCEPT ![i].status = "filled", ![i].filled = o.qty]
             /\ accounts' = [accounts EXCEPT ![a] = Filled(@, o, price)]
             /\ trades' = Append(trades, TradeOf(i, o, price))

-----------------------------------------------------------------------------
(* The methods *)

Unlocked == quote = NoQuote

\* Allocate: main pays, the account is created on demand.
Allocate(a, amount) ==
  /\ Unlocked
  /\ a # Main
  /\ amount > 0
  /\ accounts[Main].cash >= amount
  /\ accounts' = [accounts EXCEPT ![Main].cash = @ - amount, ![a].cash = @ + amount]
  /\ opened' = opened \cup {a}
  /\ allocated' = [allocated EXCEPT ![Main] = @ - amount, ![a] = @ + amount]
  /\ UNCHANGED <<orders, trades, clientOrderIDs, quote, cursor>>

NewOrder(a, req) ==
  [account |-> a, symbol |-> req.symbol, side |-> req.side, type |-> req.type,
   qty |-> req.qty, price |-> req.price, cid |-> req.cid, status |-> "new", filled |-> 0]

\* placeLocked when the key is remembered in `remembered`.
PlaceRemembering(a, req, q, remembered) ==
  LET book == Append(orders, NewOrder(a, req))
      i == Len(orders) + 1
  IN  /\ Unlocked
      /\ Len(orders) < MaxOrders
      /\ req.cid \notin clientOrderIDs
      /\ clientOrderIDs' = clientOrderIDs \cup remembered
      /\ opened' = opened \cup {a}
      /\ IF Invalid(req)
           THEN /\ orders' = [book EXCEPT ![i].status = "rejected"]
                /\ UNCHANGED <<accounts, trades>>
         ELSE IF req.type = "limit" /\ ~Crosses(req, q)
           THEN /\ orders' = book
                /\ UNCHANGED <<accounts, trades>>
         ELSE Execute(book, i, IF req.type = "limit" THEN TouchPrice(req.side, q)
                                                     ELSE MarketPrice(req.side, q))
      /\ UNCHANGED <<quote, cursor, allocated>>

\* A faulty idempotency: no key is recorded.
PlaceForgetting(a, req, q) == PlaceRemembering(a, req, q, {})

\* Place and PlaceAt: a key seen before is refused before an order exists; the
\* key is kept whatever becomes of the order.
Place(a, req, q) == PlaceRemembering(a, req, q, {req.cid} \ {NoId})

\* Cancel: only a resting order can be cancelled.
Cancel(i) ==
  /\ Unlocked
  /\ orders[i].status = "new"
  /\ orders' = [orders EXCEPT ![i].status = "cancelled"]
  /\ UNCHANGED <<opened, accounts, trades, clientOrderIDs, quote, cursor, allocated>>

\* OnQuote locks the broker and starts its walk at the oldest order.
BeginQuote(q) ==
  /\ Unlocked
  /\ orders # <<>>
  /\ quote' = q
  /\ cursor' = 1
  /\ UNCHANGED <<opened, accounts, orders, trades, clientOrderIDs, allocated>>

\* Faulty: only limits on the buy side are walked.
TouchedBuys(o) == o.status = "new" /\ o.type = "limit" /\ o.symbol = quote.symbol
                  /\ o.side = "buy" /\ Crosses(o, quote)

\* The resting orders the quote touches.
Touched(o) == o.status = "new" /\ o.type = "limit" /\ o.symbol = quote.symbol
              /\ Crosses(o, quote)

\* One turn of OnQuote's loop: fill or reject the order, or pass over it.
VisitOrder ==
  /\ ~Unlocked
  /\ cursor <= Len(orders)
  /\ IF Touched(orders[cursor])
       THEN Execute(orders, cursor, TouchPrice(orders[cursor].side, quote))
       ELSE UNCHANGED <<accounts, orders, trades>>
  /\ cursor' = cursor + 1
  /\ UNCHANGED <<opened, clientOrderIDs, quote, allocated>>

EndQuote ==
  /\ ~Unlocked
  /\ cursor > Len(orders)
  /\ quote' = NoQuote
  /\ cursor' = 1
  /\ UNCHANGED <<opened, accounts, orders, trades, clientOrderIDs, allocated>>

Next ==
  \/ \E a \in SubAccount, amount \in Amount : Allocate(a, amount)
  \/ \E a \in Account, req \in Request, q \in Quote :
       q.symbol = req.symbol /\ Place(a, req, q)
  \/ \E i \in 1..Len(orders) : Cancel(i)
  \/ \E q \in Quote : BeginQuote(q)
  \/ VisitOrder
  \/ EndQuote

Spec == Init /\ [][Next]_vars

-----------------------------------------------------------------------------
(* Properties *)

\* No account is overdrawn: a buy is paid in full, fee included, and a transfer
\* takes only what main has, whatever resting orders fill in between (nothing
\* is reserved for them).
Solvent == \A a \in Account : accounts[a].cash >= 0

\* The trade log and the order book tell the same story: every trade belongs to
\* one filled order with its symbol, side and quantity, and every filled order
\* has exactly one trade, although Place and OnQuote can both fill it.
FilledOnce ==
  /\ \A t \in 1..Len(trades) :
       LET i == trades[t].order
       IN  /\ i \in 1..Len(orders)
           /\ orders[i].status = "filled"
           /\ trades[t] = TradeOf(i, orders[i], trades[t].price)
  /\ \A t, u \in 1..Len(trades) : trades[t].order = trades[u].order => t = u
  /\ \A i \in 1..Len(orders) :
       orders[i].status = "filled" => \E t \in 1..Len(trades) : trades[t].order = i

\* An idempotency key creates at most one order over the life of the broker,
\* also when its first order was rejected (placeLocked).
ClientIdOnce ==
  \A i, j \in 1..Len(orders) :
    orders[i].cid = orders[j].cid /\ orders[i].cid # NoId => i = j

\* OnQuote leaves behind it no resting limit order that its quote crosses,
\* although each fill changes the cash and positions the next one is checked
\* against.
QuoteExhausts ==
  ~Unlocked => \A i \in 1..Len(orders) :
    (i < cursor /\ orders[i].status = "new" /\ orders[i].symbol = quote.symbol)
      => ~Crosses(orders[i], quote)

=============================================================================
