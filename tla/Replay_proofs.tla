----------------------------- MODULE Replay_proofs -----------------------------
(***************************************************************************)
(* The replay of a recording (LobReplay.tla) for any rows, orders, book    *)
(* and latency, and any number of events and orders: its fills could have  *)
(* happened, its counts say what became of the orders, and its trips, fees *)
(* and cash tell of the same fills.                                        *)
(*                                                                         *)
(* An event goes through the engine in stages, and activate and onTrade    *)
(* are walks through the working orders that rebuild the list.  What holds *)
(* of the engine between two stages (Orderly) ties each working order to   *)
(* its past by its id, and the portfolio to what was got; what holds in    *)
(* the middle of a walk (Walked) adds what the orders not yet looked at    *)
(* still want.  A fill keeps the portfolio because each of open, increase  *)
(* and close moves fees without losing any, and because an average price   *)
(* loses less than one unit of money per unit held.                        *)
(***************************************************************************)
EXTENDS LobReplay, Paper_proofs

-----------------------------------------------------------------------------
(* What a replay keeps *)

\* What the engine keeps.
LobOrder == [side : {"buy", "sell"}, type : {"limit", "market"}, price : Nat, qty : Nat \ {0}]
Past == [order : LobOrder, ahead : Nat, traded : Nat, got : Nat]
Flight == [id : Nat, side : {"buy", "sell"}, type : {"limit", "market"}, price : Nat, remaining : Nat,
           active : BOOLEAN, activeAt : Nat, queueAhead : Nat]
Portfolio == [position : Int, average : Int, entryFee : Int, cash : Int, gross : Int, fees : Int,
              charged : Int]
Engine == [working : Seq(Flight), account : Portfolio, filled : Nat, unfilled : Nat, cancelled : Nat,
           history : Seq(Past)]

\* The quantities ordered and got, and what the working orders still want, order by order.
Ordered(h) == [i \in 1..Len(h) |-> h[i].order.qty]
Gotten(h) == [i \in 1..Len(h) |-> h[i].got]
Wanted(w) == [i \in 1..Len(w) |-> w[i].remaining]
Complete(h) == {i \in 1..Len(h) : h[i].got = h[i].order.qty}

\* An order got no more than it asked for, and at rest no more than what traded beyond its queue.
Fair(p) ==
  /\ p.got <= p.order.qty
  /\ p.order.type = "limit" /\ QueuePosition /\ p.got > 0 => p.got <= p.traded - p.ahead

\* A working order and the past of it.
InFlight(w, p) ==
  /\ w.side = p.order.side /\ w.type = p.order.type /\ w.price = p.order.price
  /\ w.remaining > 0 /\ w.remaining = p.order.qty - p.got
  /\ w.active => w.type = "limit"
  /\ ~w.active => p.got = 0 /\ p.traded = 0
  /\ w.active /\ QueuePosition => w.queueAhead = IF p.ahead > p.traded THEN p.ahead - p.traded ELSE 0

\* The portfolio after `got` units were filled: fees to the last unit, earnings up to what the
\* average price lost.
Kept(a, got) ==
  /\ a.fees + a.entryFee = a.charged
  /\ a.position = 0 => a.entryFee = 0
  /\ Abs(a.position) <= got
  /\ 2 * Abs(a.cash + a.charged - (a.gross - a.position * a.average)) <= got * (got - 1)

\* What every step of the engine keeps.
Orderly(e) ==
  /\ \A j \in 1..Len(e.working) :
       e.working[j].id \in 1..Len(e.history) /\ InFlight(e.working[j], e.history[e.working[j].id])
  /\ \A i, j \in 1..Len(e.working) : e.working[i].id = e.working[j].id => i = j
  /\ \A i \in 1..Len(e.history) : Fair(e.history[i])
  /\ e.filled = Cardinality(Complete(e.history))
  /\ e.cancelled = 0 =>
       Total(Ordered(e.history)) = Total(Gotten(e.history)) + Total(Wanted(e.working)) + e.unfilled
  /\ Kept(e.account, Total(Gotten(e.history)))

\* The engine of the present state.
Now == [working |-> working, account |-> account, filled |-> filled, unfilled |-> unfilled,
        cancelled |-> cancelled, history |-> history]

ReplayInv ==
  /\ lob \in Book /\ events \in Nat /\ Now \in Engine
  /\ Orderly(Now)

-----------------------------------------------------------------------------
(* The portfolio *)

\* What the trips and the open position say was earned.
Earned(a) == a.gross - a.position * a.average

\* Go's integer division.
LEMMA Divides ==
  ASSUME NEW x \in Int, NEW y \in Nat \ {0}
  PROVE  /\ x \div y \in Int /\ y * (x \div y) <= x /\ x <= y * (x \div y) + (y - 1)
         /\ Quotient(x, y) \in Int
         /\ \A z \in Int : Quotient(z * y, y) = z
<1>1. x \div y \in Int /\ y * (x \div y) <= x /\ x <= y * (x \div y) + (y - 1)
  OBVIOUS
<1>2. Quotient(x, y) \in Int
  BY DEF Quotient
<1>3. \A z \in Int : (z * y) \div y = z
  OBVIOUS
<1>4. ASSUME NEW z \in Int
      PROVE  Quotient(z * y, y) = z
  <2>1. -(z * y) = (-z) * y /\ -z \in Int /\ z * y \in Int
    OBVIOUS
  <2>2. (z * y) \div y = z /\ ((-z) * y) \div y = -z
    BY <1>3, <2>1
  <2> QED
    BY <2>1, <2>2 DEF Quotient
<1> QED
  BY <1>1, <1>2, <1>4

\* The average price of r lost at most `most` of what a and a fill of this worth had earned.
Loses(a, r, worth, most) ==
  \E lost \in Int : Abs(lost) <= most /\ Earned(r) = Earned(a) - worth + lost

\* What a buyer pays for a fill.
Worth(dir, price, qty) == dir * price * qty

\* The fee of a fill is with the round trips or with the position, and none is left without one.
FeesMoved(a, r, fee) ==
  (a.position = 0 => a.entryFee = 0) =>
    /\ r.fees + r.entryFee = a.fees + a.entryFee + fee
    /\ r.position = 0 => r.entryFee = 0

\* Settling a fill leaves the cash account alone.
SameCash(a, r) == r.cash = a.cash /\ r.charged = a.charged

\* open: the whole fill is the position.
LEMMA Opens ==
  ASSUME NEW a \in Portfolio, a.position = 0, NEW dir \in {1, -1}, NEW price \in Nat,
         NEW qty \in Nat \ {0}, NEW fee \in Int
  PROVE  LET r == Open(a, dir, price, qty, fee)
         IN  /\ r \in Portfolio /\ r.cash = a.cash /\ r.charged = a.charged
             /\ r.fees = a.fees /\ r.entryFee = fee
             /\ r.position # 0 /\ Abs(r.position) = qty
             /\ Earned(r) = Earned(a) - Worth(dir, price, qty)
<1> DEFINE r == Open(a, dir, price, qty, fee)
<1>1. dir * qty \in Int /\ a.average \in Int /\ a.gross \in Int
  BY DEF Portfolio
<1>2. /\ r \in Portfolio /\ r.cash = a.cash /\ r.charged = a.charged
      /\ r.fees = a.fees /\ r.entryFee = fee /\ r.gross = a.gross
      /\ r.position = dir * qty /\ r.average = price
  <2>1. PICK position \in Int : position = dir * qty
    BY <1>1
  <2>2. r = [a EXCEPT !.position = position, !.average = price, !.entryFee = fee]
    BY <2>1 DEF Open
  <2> HIDE DEF r
  <2>3. /\ r \in Portfolio /\ r.cash = a.cash /\ r.charged = a.charged
        /\ r.fees = a.fees /\ r.entryFee = fee /\ r.gross = a.gross
        /\ r.position = position /\ r.average = price
    <3>1. price \in Int
      OBVIOUS
    <3>2. r \in Portfolio
      BY <2>2, <3>1 DEF Portfolio
    <3>3. /\ r.cash = a.cash /\ r.charged = a.charged /\ r.fees = a.fees /\ r.gross = a.gross
          /\ r.position = position /\ r.average = price /\ r.entryFee = fee
      BY <2>2 DEF Portfolio
    <3> QED
      BY <3>2, <3>3
  <2> QED
    BY <2>1, <2>3
<1> HIDE DEF r
<1>3. dir * qty # 0 /\ Abs(dir * qty) = qty
  BY DEF Abs
<1>4. Earned(r) = Earned(a) - Worth(dir, price, qty)
  <2>1. (dir * qty) * price = dir * price * qty /\ 0 * a.average = 0
    BY <1>1
  <2> QED
    BY <1>1, <1>2, <2>1 DEF Earned, Worth
<1> QED
  BY <1>2, <1>3, <1>4 DEF r

\* apply, adding to the position: the average loses less than one unit per unit held.
LEMMA Increases ==
  ASSUME NEW a \in Portfolio, a.position # 0, NEW dir \in {1, -1}, (a.position > 0 <=> dir > 0),
         NEW price \in Nat, NEW qty \in Nat \ {0}, NEW fee \in Int
  PROVE  LET r == Increase(a, dir, price, qty, fee)
         IN  /\ r \in Portfolio /\ r.cash = a.cash /\ r.charged = a.charged
             /\ r.fees = a.fees /\ r.entryFee = a.entryFee + fee
             /\ r.position # 0 /\ Abs(r.position) = Abs(a.position) + qty
             /\ Loses(a, r, Worth(dir, price, qty), Abs(a.position) + qty - 1)
<1> DEFINE r == Increase(a, dir, price, qty, fee)
<1>1. a.position \in Int /\ a.average \in Int /\ a.gross \in Int /\ a.entryFee \in Int
  BY DEF Portfolio
<1>2. PICK held \in Nat \ {0} : held = Abs(a.position) /\ a.position = dir * held
  BY <1>1 DEF Abs
<1>3. PICK total \in Int, n \in Nat \ {0} : total = a.average * held + price * qty /\ n = held + qty
  BY <1>1
<1>4. PICK avg \in Int : avg = total \div n /\ n * avg <= total /\ total <= n * avg + (n - 1)
  BY Divides
<1>5. dir * qty \in Int /\ a.position + dir * qty = dir * n
  <2>1. n = held + qty
    BY <1>3
  <2>2. CASE dir = 1
    <3>1. a.position = held
      BY <1>2, <2>2
    <3> QED
      BY <2>1, <2>2, <3>1
  <2>3. CASE dir = -1
    <3>1. a.position = -held
      BY <1>2, <2>3
    <3> QED
      BY <2>1, <2>3, <3>1
  <2> QED
    BY <2>2, <2>3
<1>6. /\ r \in Portfolio /\ r.cash = a.cash /\ r.charged = a.charged
      /\ r.fees = a.fees /\ r.entryFee = a.entryFee + fee /\ r.gross = a.gross
      /\ r.position = dir * n /\ r.average = avg
  <2>1. r = [a EXCEPT !.average = avg, !.entryFee = a.entryFee + fee, !.position = dir * n]
    BY <1>2, <1>3, <1>4, <1>5 DEF Increase
  <2>2. dir * n \in Int /\ a.entryFee + fee \in Int
    BY <1>1
  <2> HIDE DEF r
  <2> QED
    BY <2>1, <2>2 DEF Portfolio
<1> HIDE DEF r
<1>7. dir * n # 0 /\ Abs(dir * n) = n
  BY DEF Abs
<1>8. PICK lost \in 0..(n - 1) : lost = total - n * avg
  <2>1. n * avg \in Int
    OBVIOUS
  <2> QED
    BY <1>4, <2>1
<1>9. Earned(r) = Earned(a) - Worth(dir, price, qty) + dir * lost
  <2>1. n * avg = a.average * held + price * qty - lost
    BY <1>1, <1>3, <1>8
  <2>2. PICK x \in Int, y \in Int, z \in Int : x = n * avg /\ y = a.average * held /\ z = price * qty
    BY <1>1
  <2>3. x = y + z - lost
    BY <2>1, <2>2
  <2>4. /\ r.position * r.average = dir * x /\ a.position * a.average = dir * y
        /\ Worth(dir, price, qty) = dir * z
    <3>1. (dir * n) * avg = dir * (n * avg) /\ (dir * held) * a.average = dir * (a.average * held)
      BY <1>1
    <3>2. dir * price * qty = dir * (price * qty)
      OBVIOUS
    <3> QED
      BY <1>2, <1>6, <2>2, <3>1, <3>2 DEF Worth
  <2>5. Earned(r) = a.gross - dir * x /\ Earned(a) = a.gross - dir * y
    BY <1>6, <2>4 DEF Earned
  <2>6. CASE dir = 1
    <3>1. /\ Earned(r) = a.gross - x /\ Earned(a) = a.gross - y
          /\ Worth(dir, price, qty) = z /\ dir * lost = lost
      BY <2>4, <2>5, <2>6
    <3> QED
      BY <1>1, <2>3, <3>1
  <2>7. CASE dir = -1
    <3>1. /\ Earned(r) = a.gross + x /\ Earned(a) = a.gross + y
          /\ Worth(dir, price, qty) = -z /\ dir * lost = -lost
      BY <1>1, <2>4, <2>5, <2>7
    <3> QED
      BY <1>1, <2>3, <3>1
  <2> QED
    BY <2>6, <2>7
<1>10. n = Abs(a.position) + qty
  BY <1>2, <1>3
<1>11. PICK loss \in Int : loss = dir * lost /\ Abs(loss) <= Abs(a.position) + qty - 1
  <2>1. lost \in Nat /\ lost <= Abs(a.position) + qty - 1
    BY <1>2, <1>8, <1>10
  <2>2. dir * lost \in Int /\ Abs(dir * lost) = lost
    BY <2>1 DEF Abs
  <2> QED
    BY <2>1, <2>2
<1> QED
  BY <1>6, <1>7, <1>9, <1>10, <1>11 DEF r, Loses

\* close: a round trip takes its share of the entry's fees, the last one what is left of them.
LEMMA Closes ==
  ASSUME NEW a \in Portfolio, a.position # 0, NEW dir \in {1, -1}, ~(a.position > 0 <=> dir > 0),
         NEW price \in Nat, NEW qty \in Nat \ {0}, qty <= Abs(a.position), NEW fee \in Int
  PROVE  LET r == CloseTrip(a, dir, price, qty, fee)
         IN  /\ r \in Portfolio /\ r.cash = a.cash /\ r.charged = a.charged
             /\ r.fees + r.entryFee = a.fees + a.entryFee + fee
             /\ r.position = 0 => r.entryFee = 0
             /\ Abs(r.position) = Abs(a.position) - qty
             /\ Earned(r) = Earned(a) - Worth(dir, price, qty)
<1> DEFINE r == CloseTrip(a, dir, price, qty, fee)
<1>1. /\ a.position \in Int /\ a.average \in Int /\ a.gross \in Int /\ a.entryFee \in Int
      /\ a.fees \in Int
  BY DEF Portfolio
<1>2. PICK held \in Nat \ {0} : held = Abs(a.position) /\ a.position = -(dir * held)
  BY <1>1 DEF Abs
<1>3. PICK share \in Int : share = Quotient(a.entryFee * qty, held) /\ (qty = held => share = a.entryFee)
  <2>1. a.entryFee * qty \in Int
    BY <1>1
  <2> QED
    BY <1>1, <2>1, Divides
<1>4. PICK left \in Int : left = a.position + dir * qty /\ left = -(dir * (held - qty))
  BY <1>1, <1>2
<1>5. PICK gain \in Int : gain = dir * (price - a.average) * qty
  BY <1>1
<1>6. /\ r \in Portfolio /\ r.cash = a.cash /\ r.charged = a.charged
      /\ r.position = left /\ r.average = (IF left = 0 THEN 0 ELSE a.average)
      /\ r.entryFee = (IF left = 0 THEN 0 ELSE a.entryFee - share)
      /\ r.gross = a.gross - gain /\ r.fees = a.fees + share + fee
  <2>1. r = [a EXCEPT !.position = left, !.average = IF left = 0 THEN 0 ELSE a.average,
                      !.entryFee = IF left = 0 THEN 0 ELSE a.entryFee - share,
                      !.gross = a.gross - gain, !.fees = a.fees + share + fee]
    BY <1>2, <1>3, <1>4, <1>5 DEF CloseTrip
  <2>2. PICK average \in Int, entryFee \in Int, gross \in Int, fees \in Int :
          /\ average = IF left = 0 THEN 0 ELSE a.average
          /\ entryFee = IF left = 0 THEN 0 ELSE a.entryFee - share
          /\ gross = a.gross - gain /\ fees = a.fees + share + fee
    <3>1. a.average \in Int /\ a.entryFee \in Int /\ a.gross \in Int /\ a.fees \in Int /\ fee \in Int
      BY <1>1
    <3>2. /\ (IF left = 0 THEN 0 ELSE a.average) \in Int
          /\ (IF left = 0 THEN 0 ELSE a.entryFee - share) \in Int
          /\ a.gross - gain \in Int /\ a.fees + share + fee \in Int
      BY <3>1
    <3> QED
      BY <3>2
  <2>3. r = [a EXCEPT !.position = left, !.average = average, !.entryFee = entryFee, !.gross = gross,
                      !.fees = fees]
    BY <2>1, <2>2
  <2> HIDE DEF r
  <2>4. /\ r \in Portfolio /\ r.cash = a.cash /\ r.charged = a.charged
        /\ r.position = left /\ r.average = average /\ r.entryFee = entryFee
        /\ r.gross = gross /\ r.fees = fees
    BY <2>3 DEF Portfolio
  <2> QED
    BY <2>2, <2>4
<1> HIDE DEF r
<1>7. held - qty \in Nat /\ Abs(left) = held - qty /\ (left = 0 <=> qty = held)
  BY <1>2, <1>4 DEF Abs
<1>8. r.fees + r.entryFee = a.fees + a.entryFee + fee
  BY <1>1, <1>3, <1>6, <1>7
<1>9. Earned(r) = Earned(a) - Worth(dir, price, qty)
  <2>1. r.position * r.average = left * a.average
    BY <1>1, <1>6
  <2>2. left * a.average = a.position * a.average + dir * qty * a.average
    BY <1>1, <1>4
  <2>3. gain = dir * price * qty - dir * qty * a.average
    BY <1>1, <1>5
  <2>4. a.position * a.average \in Int /\ dir * qty * a.average \in Int /\ dir * price * qty \in Int
    BY <1>1
  <2> QED
    BY <1>1, <1>6, <2>1, <2>2, <2>3, <2>4 DEF Earned, Worth
<1> QED
  BY <1>2, <1>6, <1>7, <1>8, <1>9 DEF r

\* apply: fees are moved, never lost, and the average alone may lose some of what was earned.
LEMMA Settles ==
  ASSUME NEW a \in Portfolio, NEW dir \in {1, -1}, NEW price \in Nat, NEW qty \in Nat \ {0},
         NEW fee \in Int
  PROVE  LET r == Settle(a, dir, price, qty, fee)
         IN  /\ r \in Portfolio /\ SameCash(a, r)
             /\ FeesMoved(a, r, fee)
             /\ Abs(a.position) \in Nat /\ Abs(r.position) <= Abs(a.position) + qty
             /\ Loses(a, r, Worth(dir, price, qty), Abs(a.position) + qty - 1)
<1> DEFINE r == Settle(a, dir, price, qty, fee)
<1>1. /\ a.position \in Int /\ a.entryFee \in Int /\ a.fees \in Int
      /\ a.gross \in Int /\ a.average \in Int
  BY DEF Portfolio
<1>2. PICK held \in Nat : held = Abs(a.position) /\ (held = 0 <=> a.position = 0)
  BY <1>1 DEF Abs
<1>3. Earned(a) \in Int /\ Worth(dir, price, qty) \in Int
  BY <1>1 DEF Earned, Worth
<1>4. CASE a.position = 0
  <2>1. r = Open(a, dir, price, qty, fee)
    BY <1>2, <1>4 DEF Settle
  <2> HIDE DEF r
  <2>2. /\ r \in Portfolio /\ r.cash = a.cash /\ r.charged = a.charged
        /\ r.fees = a.fees /\ r.entryFee = fee /\ r.position # 0 /\ Abs(r.position) = qty
        /\ Earned(r) = Earned(a) - Worth(dir, price, qty)
    BY <1>4, <2>1, Opens
  <2>3. Abs(0) <= Abs(a.position) + qty - 1 /\ Earned(r) = Earned(a) - Worth(dir, price, qty) + 0
    BY <1>2, <1>3, <1>4, <2>2 DEF Abs
  <2>4. a.entryFee = 0 => r.fees + r.entryFee = a.fees + a.entryFee + fee
    BY <1>1, <2>2
  <2>5. Abs(a.position) \in Nat /\ Abs(r.position) <= Abs(a.position) + qty
    BY <1>2, <1>4, <2>2
  <2> QED
    BY <1>4, <2>2, <2>3, <2>4, <2>5 DEF r, Loses, SameCash, FeesMoved
<1>5. CASE a.position # 0 /\ (a.position > 0 <=> dir > 0)
  <2>1. r = Increase(a, dir, price, qty, fee)
    BY <1>2, <1>5 DEF Settle
  <2> HIDE DEF r
  <2>2. /\ r \in Portfolio /\ r.cash = a.cash /\ r.charged = a.charged
        /\ r.fees = a.fees /\ r.entryFee = a.entryFee + fee /\ r.position # 0
        /\ Abs(r.position) = Abs(a.position) + qty
    BY <1>5, <2>1, Increases
  <2>3. Loses(a, r, Worth(dir, price, qty), Abs(a.position) + qty - 1)
    BY <1>5, <2>1, Increases
  <2>5. r.fees + r.entryFee = a.fees + a.entryFee + fee
    BY <1>1, <2>2
  <2>6. Abs(a.position) \in Nat /\ Abs(r.position) <= Abs(a.position) + qty
    BY <1>2, <2>2
  <2> QED
    BY <2>2, <2>3, <2>5, <2>6 DEF r, SameCash, FeesMoved
<1>6. CASE a.position # 0 /\ ~(a.position > 0 <=> dir > 0)
  <2>1. PICK closing \in Nat \ {0} : closing = Lesser(held, qty) /\ closing <= held /\ closing <= qty
    BY <1>2, <1>6 DEF Lesser
  <2>2. PICK part \in Int : part = Quotient(fee * closing, qty) /\ (closing = qty => part = fee)
    <3>1. fee * closing \in Int
      OBVIOUS
    <3> QED
      BY <3>1, Divides
  <2> DEFINE closed == CloseTrip(a, dir, price, closing, part)
  <2>3. r = IF qty = closing THEN closed ELSE Open(closed, dir, price, qty - closing, fee - part)
    BY <1>2, <1>6, <2>1, <2>2 DEF Settle
  <2>4. /\ closed \in Portfolio /\ closed.cash = a.cash /\ closed.charged = a.charged
        /\ closed.fees + closed.entryFee = a.fees + a.entryFee + part
        /\ closed.position = 0 => closed.entryFee = 0
        /\ Abs(closed.position) = held - closing
        /\ Earned(closed) = Earned(a) - Worth(dir, price, closing)
    BY <1>2, <1>6, <2>1, <2>2, Closes
  <2> HIDE DEF r, closed
  <2>5. Abs(0) <= Abs(a.position) + qty - 1 /\ Abs(a.position) \in Nat
    BY <1>2, <2>1 DEF Abs
  <2>6. CASE qty = closing
    <3>1. r = closed /\ part = fee
      BY <2>2, <2>3, <2>6
    <3>2. Earned(r) = Earned(a) - Worth(dir, price, qty) + 0
      BY <1>3, <2>4, <2>6, <3>1
    <3>3. Abs(r.position) <= Abs(a.position) + qty
      BY <1>2, <2>1, <2>4, <3>1
    <3> QED
      BY <2>4, <2>5, <3>1, <3>2, <3>3 DEF r, Loses, SameCash, FeesMoved
  <2>7. CASE qty # closing
    <3>1. PICK rest \in Nat \ {0} : rest = qty - closing /\ closing = held /\ qty = held + rest
      BY <1>2, <2>1, <2>7 DEF Lesser
    <3>2. closed.position = 0 /\ closed.entryFee = 0
      <4>1. closed.position \in Int /\ Abs(closed.position) = 0
        BY <2>4, <3>1 DEF Portfolio
      <4>2. closed.position = 0
        BY <4>1 DEF Abs
      <4> QED
        BY <2>4, <4>2
    <3>3. r = Open(closed, dir, price, rest, fee - part) /\ fee - part \in Int
      BY <2>3, <2>7, <3>1
    <3>4. /\ r \in Portfolio /\ r.cash = closed.cash /\ r.charged = closed.charged
          /\ r.fees = closed.fees /\ r.entryFee = fee - part /\ r.position # 0 /\ Abs(r.position) = rest
          /\ Earned(r) = Earned(closed) - Worth(dir, price, rest)
      BY <2>4, <3>1, <3>2, <3>3, Opens
    <3>5. r.fees + r.entryFee = a.fees + a.entryFee + fee
      <4>1. closed.fees \in Int
        BY <2>4 DEF Portfolio
      <4> QED
        BY <1>1, <2>4, <3>2, <3>4, <4>1
    <3>6. Earned(r) = Earned(a) - Worth(dir, price, qty) + 0
      <4>1. Worth(dir, price, closing) + Worth(dir, price, rest) = Worth(dir, price, qty)
        BY <3>1 DEF Worth
      <4>2. Worth(dir, price, closing) \in Int /\ Worth(dir, price, rest) \in Int
        BY DEF Worth
      <4> QED
        BY <1>3, <2>4, <3>4, <4>1, <4>2
    <3>7. Abs(r.position) <= Abs(a.position) + qty
      BY <1>2, <3>1, <3>4
    <3> QED
      BY <2>4, <2>5, <3>4, <3>5, <3>6, <3>7 DEF r, Loses, SameCash, FeesMoved
  <2> QED
    BY <2>6, <2>7
<1> QED
  BY <1>4, <1>5, <1>6

\* recordFill: what the portfolio tells of the fills stays true with one more.
LEMMA FillKept ==
  ASSUME NEW a \in Portfolio, NEW side \in {"buy", "sell"}, NEW price \in Nat, NEW qty \in Nat \ {0}
  PROVE  /\ RecordFill(a, side, price, qty) \in Portfolio
         /\ \A got \in Nat : Kept(a, got) => Kept(RecordFill(a, side, price, qty), got + qty)
<1> DEFINE r == RecordFill(a, side, price, qty)
<1>1. /\ a.position \in Int /\ a.entryFee \in Int /\ a.fees \in Int /\ a.cash \in Int
      /\ a.charged \in Int /\ a.gross \in Int /\ a.average \in Int
  BY DEF Portfolio
<1>2. PICK dir \in {1, -1} : dir = Direction(side)
  BY DEF Direction
<1>3. PICK fee \in Int : fee = FillFee(price, qty)
  <2>1. price * qty \in Nat
    BY Products
  <2>2. price * qty * ReplayFeeBps \in Nat
    <3>1. ReplayFeeBps \in Nat
      BY ReplayAssumption
    <3> QED
      BY <2>1, <3>1, Products
  <2>3. price * qty * ReplayFeeBps + 5000 \in Int
    BY <2>2
  <2> QED
    BY <2>3, Divides DEF FillFee
<1>4. PICK worth \in Int : worth = dir * price * qty /\ worth = Worth(dir, price, qty)
  BY DEF Worth
<1> DEFINE b == [a EXCEPT !.cash = a.cash - worth - fee, !.charged = a.charged + fee]
<1>5. r = Settle(b, dir, price, qty, fee)
  BY <1>2, <1>3, <1>4 DEF RecordFill
<1>6. /\ b \in Portfolio /\ b.cash = a.cash - worth - fee /\ b.charged = a.charged + fee
      /\ b.position = a.position /\ b.entryFee = a.entryFee /\ b.fees = a.fees
      /\ b.gross = a.gross /\ b.average = a.average
  <2>1. PICK cash \in Int, charged \in Int : cash = a.cash - worth - fee /\ charged = a.charged + fee
    BY <1>1
  <2>2. b = [a EXCEPT !.cash = cash, !.charged = charged]
    BY <2>1
  <2> HIDE DEF b
  <2> QED
    BY <2>1, <2>2 DEF Portfolio
<1> HIDE DEF b, r
<1>7. Earned(b) = Earned(a) /\ Earned(a) \in Int
  BY <1>1, <1>6 DEF Earned
<1>8. /\ r \in Portfolio /\ r.cash = a.cash - worth - fee /\ r.charged = a.charged + fee
      /\ FeesMoved(a, r, fee)
      /\ Abs(a.position) \in Nat /\ Abs(r.position) <= Abs(a.position) + qty
  <2>1. b \in Portfolio
    BY <1>6
  <2>2. r \in Portfolio
    BY <1>5, <2>1, Settles
  <2>4. SameCash(b, r)
    BY <1>5, <2>1, Settles
  <2>5. Abs(b.position) \in Nat /\ Abs(r.position) <= Abs(b.position) + qty
    BY <1>5, <2>1, Settles
  <2>3. FeesMoved(b, r, fee)
    BY <1>5, <2>1, Settles
  <2> QED
    BY <1>6, <2>2, <2>3, <2>4, <2>5 DEF SameCash, FeesMoved
<1>9. PICK lost \in Int : /\ Abs(lost) <= Abs(a.position) + qty - 1
                          /\ Earned(r) = Earned(a) - worth + lost
  <2>1. Loses(b, r, Worth(dir, price, qty), Abs(b.position) + qty - 1)
    BY <1>5, <1>6, Settles
  <2> QED
    BY <1>4, <1>6, <1>7, <2>1 DEF Loses
<1>10. ASSUME NEW got \in Nat, Kept(a, got)
       PROVE  Kept(r, got + qty)
  <2>1. /\ a.fees + a.entryFee = a.charged
        /\ a.position = 0 => a.entryFee = 0
        /\ Abs(a.position) <= got
        /\ 2 * Abs(a.cash + a.charged - Earned(a)) <= got * (got - 1)
    BY <1>10 DEF Kept, Earned
  <2>2. r.fees + r.entryFee = r.charged /\ (r.position = 0 => r.entryFee = 0)
    BY <1>1, <1>8, <2>1 DEF FeesMoved
  <2>3. PICK held \in Nat : held = Abs(a.position)
    BY <1>8
  <2>4. Abs(r.position) <= got + qty
    <3>1. Abs(r.position) \in Int
      BY <1>8 DEF Abs, Portfolio
    <3> QED
      BY <1>8, <2>1, <2>3, <3>1
  <2>5. PICK x \in Int, y \in Int : x = a.cash + a.charged - Earned(a) /\ y = r.cash + r.charged - Earned(r)
    BY <1>1, <1>7, <1>8, <1>9
  <2>6. y = x - lost
    BY <1>1, <1>7, <1>8, <1>9, <2>5
  <2>7. Abs(y) <= Abs(x) + Abs(lost) /\ Abs(x) \in Nat /\ Abs(lost) \in Nat /\ Abs(y) \in Nat
    BY <2>6 DEF Abs
  <2>8. Abs(lost) <= got + qty - 1
    BY <1>9, <2>1, <2>3, <2>7
  <2>9. 2 * Abs(y) <= got * (got - 1) + 2 * (got + qty - 1)
    <3>1. got * (got - 1) \in Int /\ 2 * Abs(x) <= got * (got - 1)
      BY <2>1, <2>5
    <3> QED
      BY <2>7, <2>8, <3>1
  <2>10. got * (got - 1) + 2 * (got + qty - 1) <= (got + qty) * (got + qty - 1)
    <3>1. PICK more \in Nat : qty = more + 1
      OBVIOUS
    <3>2. got * more \in Nat /\ more * (more - 1) \in Nat
      <4>1. got * more \in Nat
        BY Products
      <4>2. more - 1 \in Nat \/ more = 0
        OBVIOUS
      <4>3. more * (more - 1) \in Nat
        BY <4>2, Products
      <4> QED
        BY <4>1, <4>3
    <3>3. (got + qty) * (got + qty - 1)
            = got * (got - 1) + 2 * (got + qty - 1) + 2 * (got * more) + more * (more - 1)
      BY <3>1
    <3>4. got * (got - 1) + 2 * (got + qty - 1) \in Int
      OBVIOUS
    <3> QED
      BY <3>2, <3>3, <3>4
  <2>11. 2 * Abs(y) <= (got + qty) * (got + qty - 1)
    <3>1. got * (got - 1) \in Int /\ (got + qty) * (got + qty - 1) \in Int
      OBVIOUS
    <3> QED
      BY <2>7, <2>9, <2>10, <3>1
  <2> QED
    BY <2>2, <2>4, <2>5, <2>11 DEF Kept, Earned
<1> QED
  BY <1>8, <1>10 DEF r

-----------------------------------------------------------------------------
(* Folds from the left *)

\* A finite set of naturals has a largest element.
LEMMA LargestIn ==
  ASSUME NEW D, D \subseteq Nat, IsFiniteSet(D), D # {}
  PROVE  Max(D) \in D /\ \A y \in D : Max(D) >= y
<1> DEFINE Good == {S \in SUBSET D : S # {} => \E x \in S : \A y \in S : x >= y}
           pick == [S \in SUBSET D |-> CHOOSE x \in S : TRUE]
<1>1. Grows(D, pick, Good)
  <2>1. ASSUME NEW S \in SUBSET D, S # {}
        PROVE  pick[S] \in S /\ (S \ {pick[S]} \in Good => S \in Good)
    <3>1. PICK z \in S : z = pick[S]
      BY <2>1
    <3>2. ASSUME S \ {z} \in Good, S # {z}
          PROVE  \E x \in S : \A y \in S : x >= y
      <4>1. PICK x \in S \ {z} : \A y \in S \ {z} : x >= y
        BY <3>2
      <4>2. x \in Nat /\ z \in Nat
        OBVIOUS
      <4>3. CASE x >= z
        BY <4>1, <4>3
      <4>4. CASE z >= x
        <5> SUFFICES ASSUME NEW y \in S
                     PROVE  z >= y
          OBVIOUS
        <5>1. y \in Nat /\ (y = z \/ x >= y)
          BY <4>1
        <5> QED
          BY <4>2, <4>4, <5>1
      <4> QED
        BY <4>2, <4>3, <4>4
    <3>3. S = {z} => \E x \in S : \A y \in S : x >= y
      OBVIOUS
    <3> QED
      BY <3>1, <3>2, <3>3
  <2>2. {} \in Good
    OBVIOUS
  <2> HIDE DEF Good, pick
  <2> QED
    BY <2>1, <2>2 DEF Grows
<1>2. D \in Good
  <2> HIDE DEF Good, pick
  <2> QED
    BY <1>1, SubsetsAll
<1>3. \E x \in D : \A y \in D : x >= y
  BY <1>2
<1> QED
  BY <1>3 DEF Max

\* iter holds the values of a fold that picks the elements of D, as far as these are in A.
FoldsAs(D, A, base, pick, step, iter) ==
  /\ iter[{}] = base
  /\ \A S \in SUBSET D :
       S # {} /\ iter[S \ {pick[S]}] \in A => iter[S] = step[<<iter[S \ {pick[S]}], pick[S]>>]

\* The largest index of a set of indices.
Largest(n) == [S \in SUBSET (1..n) |-> Max(S)]

\* A fold over a sequence comes from state to state: reach[k] holds those after k elements.
Advances(n, A, base, step, reach) ==
  /\ base \in reach[0]
  /\ \A k \in 0..n : reach[k] \subseteq A
  /\ \A k \in 1..n : \A c \in reach[k - 1] : step[<<c, k>>] \in reach[k]

LEMMA LastPicks ==
  ASSUME NEW n \in Nat
  PROVE  /\ Picks(1..n, Largest(n)) /\ IsFiniteSet(1..n)
         /\ \A k \in 1..n : Largest(n)[1..k] = k /\ (1..k) \ {k} = 1..(k - 1)
<1>1. IsFiniteSet(1..n)
  BY FS_Interval
<1>2. \A S \in SUBSET (1..n) : S # {} => Max(S) \in S /\ \A y \in S : Max(S) >= y
  <2> SUFFICES ASSUME NEW S \in SUBSET (1..n), S # {}
               PROVE  Max(S) \in S /\ \A y \in S : Max(S) >= y
    OBVIOUS
  <2>1. S \subseteq Nat
    OBVIOUS
  <2>2. IsFiniteSet(S)
    BY <1>1, FS_Subset
  <2> QED
    BY <2>1, <2>2, LargestIn
<1>3. ASSUME NEW k \in 1..n
      PROVE  Largest(n)[1..k] = k /\ (1..k) \ {k} = 1..(k - 1)
  <2>1. 1..k \in SUBSET (1..n) /\ k \in 1..k
    OBVIOUS
  <2>2. Max(1..k) \in 1..k /\ Max(1..k) >= k
    BY <1>2, <2>1
  <2>3. Max(1..k) = k
    BY <2>2
  <2> QED
    BY <2>1, <2>3 DEF Largest
<1> QED
  BY <1>1, <1>2, <1>3 DEF Picks, Largest

LEMMA FoldArrives ==
  ASSUME NEW n \in Nat, NEW A, NEW base, NEW step, NEW iter, NEW reach,
         FoldsAs(1..n, A, base, Largest(n), step, iter), Advances(n, A, base, step, reach)
  PROVE  iter[1..n] \in reach[n]
<1> DEFINE Good == {S \in SUBSET (1..n) : \A k \in 0..n : S = 1..k => iter[S] \in reach[k]}
           D == 1..n
           pick == Largest(n)
<1>1. {} \in Good
  <2>1. \A k \in 0..n : {} = 1..k => k = 0
    <3> SUFFICES ASSUME NEW k \in 0..n, k # 0
                 PROVE  {} # 1..k
      OBVIOUS
    <3>1. 1 \in 1..k
      OBVIOUS
    <3> QED
      BY <3>1
  <2> QED
    BY <2>1 DEF FoldsAs, Advances
<1>2. ASSUME NEW S \in SUBSET D, S # {}
      PROVE  pick[S] \in S /\ (S \ {pick[S]} \in Good => S \in Good)
  <2>1. ASSUME S \ {pick[S]} \in Good, NEW k \in 0..n, S = 1..k
        PROVE  iter[S] \in reach[k]
    <3>1. k \in 1..n /\ k - 1 \in 0..n
      BY <1>2, <2>1
    <3>2. pick[S] = k /\ S \ {pick[S]} = 1..(k - 1)
      BY <2>1, <3>1, LastPicks
    <3>3. iter[1..(k - 1)] \in reach[k - 1]
      BY <2>1, <3>1, <3>2
    <3>4. iter[S] = step[<<iter[1..(k - 1)], k>>]
      BY <1>2, <3>1, <3>2, <3>3 DEF FoldsAs, Advances
    <3> QED
      BY <3>1, <3>3, <3>4 DEF Advances
  <2> QED
    BY <1>2, <2>1, LastPicks DEF Picks
<1> HIDE DEF Good, D, pick
<1>3. SUBSET D \subseteq Good
  <2>1. IsFiniteSet(D)
    BY LastPicks DEF D
  <2>2. Grows(D, pick, Good)
    BY <1>1, <1>2 DEF Grows
  <2> QED
    BY <2>1, <2>2, SubsetsAll
<1> QED
  BY <1>3 DEF Good, D

\* What none takes from only grows.
LEMMA TotalNat ==
  ASSUME NEW s \in Seq(Nat)
  PROVE  s \in Seq(Int) /\ Total(s) \in Nat
<1>1. PICK n \in Nat : n = Len(s)
  BY LenProperties
<1>2. s \in Seq(Int) /\ \A k \in 1..n : s[k] \in Nat
  BY <1>1
<1> DEFINE f == Sums(s)
           Bad == {k \in Nat : k <= n /\ f[k] \notin Nat}
<1>3. f \in [0..n -> Int] /\ f[0] = 0 /\ \A k \in 1..n : f[k] = f[k - 1] + s[k]
  BY <1>1, <1>2, SumsDef
<1> HIDE DEF f
<1>4. ASSUME NEW m \in Bad
      PROVE  FALSE
  <2>1. Bad \subseteq Nat
    OBVIOUS
  <2> HIDE DEF Bad
  <2>2. PICK k \in Bad : \A l \in Bad : k <= l
    BY <1>4, <2>1, LeastNatural
  <2> USE DEF Bad
  <2>3. k \in 1..n /\ k - 1 \in Nat /\ k - 1 <= n /\ ~(k <= k - 1)
    BY <1>3, <2>2
  <2>4. f[k - 1] \in Nat
    BY <2>2, <2>3
  <2>5. f[k] \in Nat
    <3>1. f[k] = f[k - 1] + s[k] /\ s[k] \in Nat
      BY <1>2, <1>3, <2>3
    <3> QED
      BY <2>4, <3>1
  <2> QED
    BY <2>2, <2>5
<1>5. f[n] \in Nat
  BY <1>4
<1> QED
  BY <1>1, <1>2, <1>5 DEF f, Total

\* A past and the totals it counts in are well-formed.
LEMMA PastTypes ==
  ASSUME NEW h \in Seq(Past)
  PROVE  /\ Len(h) \in Nat /\ \A i \in 1..Len(h) : h[i] \in Past
         /\ Gotten(h) \in Seq(Nat) /\ Len(Gotten(h)) = Len(h)
         /\ Ordered(h) \in Seq(Nat) /\ Len(Ordered(h)) = Len(h)
         /\ Total(Gotten(h)) \in Nat /\ Total(Ordered(h)) \in Nat
<1>1. PICK n \in Nat : n = Len(h)
  BY LenProperties
<1>2. \A i \in 1..n : h[i] \in Past /\ h[i].got \in Nat /\ h[i].order.qty \in Nat
  <2>1. \A i \in 1..n : h[i] \in Past
    BY <1>1, ElementOfSeq
  <2>2. \A p \in Past : p.got \in Nat /\ p.order.qty \in Nat
    BY DEF Past, LobOrder
  <2> QED
    BY <2>1, <2>2
<1>3. Gotten(h) \in Seq(Nat) /\ Len(Gotten(h)) = n
  BY <1>1, <1>2 DEF Gotten
<1>4. Ordered(h) \in Seq(Nat) /\ Len(Ordered(h)) = n
  BY <1>1, <1>2 DEF Ordered
<1> QED
  BY <1>1, <1>2, <1>3, <1>4, TotalNat

\* The quantities of the working orders are well-formed.
LEMMA FlightTypes ==
  ASSUME NEW w \in Seq(Flight)
  PROVE  /\ Len(w) \in Nat /\ \A i \in 1..Len(w) : w[i] \in Flight
         /\ Wanted(w) \in Seq(Nat) /\ Len(Wanted(w)) = Len(w) /\ Total(Wanted(w)) \in Nat
<1>1. PICK n \in Nat : n = Len(w)
  BY LenProperties
<1>2. \A i \in 1..n : w[i] \in Flight /\ w[i].remaining \in Nat
  <2>1. \A i \in 1..n : w[i] \in Flight
    BY <1>1, ElementOfSeq
  <2>2. \A o \in Flight : o.remaining \in Nat
    BY DEF Flight
  <2> QED
    BY <2>1, <2>2
<1>3. Wanted(w) \in Seq(Nat) /\ Len(Wanted(w)) = n
  BY <1>1, <1>2 DEF Wanted
<1> QED
  BY <1>1, <1>2, <1>3, TotalNat

\* One order more in flight wants its quantity.
LEMMA WantedAppend ==
  ASSUME NEW w \in Seq(Flight), NEW o \in Flight
  PROVE  Total(Wanted(Append(w, o))) = Total(Wanted(w)) + o.remaining
<1>1. PICK n \in Nat : n = Len(w)
  BY LenProperties
<1> DEFINE v == Append(w, o)
<1>2. v \in Seq(Flight) /\ Len(v) = n + 1 /\ v[n + 1] = o /\ \A i \in 1..n : v[i] = w[i]
  BY <1>1, AppendProperties
<1> HIDE DEF v
<1>3. /\ Wanted(w) \in Seq(Int) /\ Len(Wanted(w)) = n
      /\ Wanted(v) \in Seq(Int) /\ Len(Wanted(v)) = n + 1
  BY <1>1, <1>2, FlightTypes, TotalNat
<1>4. /\ \A k \in 1..n : Wanted(v)[k] = Wanted(w)[k]
      /\ Wanted(v)[n + 1] = o.remaining
  BY <1>1, <1>2 DEF Wanted
<1> QED
  BY <1>3, <1>4, TotalAppend DEF v

\* What an order gets is got, and the order is complete when it was the rest of it.
LEMMA PastMoves ==
  ASSUME NEW h \in Seq(Past), NEW i \in 1..Len(h), NEW p \in Past, NEW hit \in Nat,
         p.order = h[i].order, p.got = h[i].got + hit, h[i].got # h[i].order.qty
  PROVE  LET g == [h EXCEPT ![i] = p]
         IN  /\ g \in Seq(Past) /\ Len(g) = Len(h) /\ g[i] = p
             /\ \A j \in 1..Len(h) : j # i => g[j] = h[j]
             /\ Ordered(g) = Ordered(h)
             /\ Total(Gotten(g)) = Total(Gotten(h)) + hit
             /\ Cardinality(Complete(h)) \in Nat
             /\ Cardinality(Complete(g)) = Cardinality(Complete(h)) + (IF p.got = p.order.qty THEN 1 ELSE 0)
<1>1. PICK n \in Nat : n = Len(h) /\ i \in 1..n
  BY LenProperties
<1> DEFINE g == [h EXCEPT ![i] = p]
<1>2. g \in Seq(Past) /\ Len(g) = n /\ g[i] = p /\ \A j \in 1..n : j # i => g[j] = h[j]
  BY <1>1, ExceptSeq
<1> HIDE DEF g
<1>3. Ordered(g) = Ordered(h)
  BY <1>1, <1>2 DEF Ordered
<1>4. Total(Gotten(g)) = Total(Gotten(h)) + hit
  <2>1. Gotten(h) \in Seq(Int) /\ Len(Gotten(h)) = n /\ Gotten(h)[i] = h[i].got
    BY <1>1, PastTypes, TotalNat DEF Gotten
  <2>2. h[i].got \in Nat /\ p.got \in Nat
    BY <1>1, PastTypes DEF Past
  <2>3. Gotten(g) = [Gotten(h) EXCEPT ![i] = p.got]
    BY <1>1, <1>2 DEF Gotten
  <2>4. Total([Gotten(h) EXCEPT ![i] = p.got]) = Total(Gotten(h)) + (p.got - Gotten(h)[i])
    BY <1>1, <2>1, <2>2, TotalExcept
  <2>5. p.got - Gotten(h)[i] = hit
    BY <2>1, <2>2
  <2> QED
    BY <2>3, <2>4, <2>5
<1>5. IsFiniteSet(Complete(h)) /\ i \notin Complete(h)
  <2>1. IsFiniteSet(1..n) /\ Complete(h) \subseteq 1..n
    BY <1>1, FS_Interval DEF Complete
  <2> QED
    BY <2>1, FS_Subset DEF Complete
<1>6. Complete(g) = IF p.got = p.order.qty THEN Complete(h) \cup {i} ELSE Complete(h)
  BY <1>1, <1>2 DEF Complete
<1>7. /\ Cardinality(Complete(h)) \in Nat
      /\ Cardinality(Complete(g)) = Cardinality(Complete(h)) + (IF p.got = p.order.qty THEN 1 ELSE 0)
  <2>1. Cardinality(Complete(h)) \in Nat /\ Cardinality(Complete(h) \cup {i}) = Cardinality(Complete(h)) + 1
    BY <1>5, FS_CardinalityType, FS_AddElement
  <2> QED
    BY <1>6, <2>1
<1> QED
  BY <1>1, <1>2, <1>3, <1>4, <1>7 DEF g

-----------------------------------------------------------------------------
(* A walk through the working orders *)

\* What the working orders from the k-th on still want.
Pending(w, k) == Sums(Wanted(w))[Len(w)] - Sums(Wanted(w))[k]

\* c is the engine e after the first k of its working orders were looked at.
Walked(e, c, k) ==
  LET ids == {e.working[i].id : i \in 1..k}
  IN  /\ c \in Engine /\ Len(c.history) = Len(e.history) /\ c.cancelled = e.cancelled
      /\ \A i \in 1..Len(e.history) : i \notin ids => c.history[i] = e.history[i]
      /\ \A j \in 1..Len(c.working) :
           c.working[j].id \in ids /\ InFlight(c.working[j], c.history[c.working[j].id])
      /\ \A i, j \in 1..Len(c.working) : c.working[i].id = c.working[j].id => i = j
      /\ \A i \in 1..Len(c.history) : Fair(c.history[i])
      /\ c.filled = Cardinality(Complete(c.history))
      /\ c.cancelled = 0 =>
           Total(Ordered(c.history)) =
             Total(Gotten(c.history)) + Total(Wanted(c.working)) + Pending(e.working, k) + c.unfilled
      /\ Kept(c.account, Total(Gotten(c.history)))

\* What is pending shrinks by the order that is looked at.
LEMMA PendingDef ==
  ASSUME NEW w \in Seq(Flight)
  PROVE  /\ \A k \in 0..Len(w) : Pending(w, k) \in Int
         /\ Pending(w, 0) = Total(Wanted(w)) /\ Pending(w, Len(w)) = 0
         /\ \A k \in 1..Len(w) : Pending(w, k - 1) = Pending(w, k) + w[k].remaining
<1>1. PICK n \in Nat : n = Len(w)
  BY LenProperties
<1>2. Wanted(w) \in Seq(Int) /\ Len(Wanted(w)) = n /\ \A k \in 1..n : w[k] \in Flight
  BY <1>1, FlightTypes, TotalNat
<1> DEFINE f == Sums(Wanted(w))
<1>3. /\ f \in [0..n -> Int] /\ f[0] = 0 /\ \A k \in 1..n : f[k] = f[k - 1] + Wanted(w)[k]
      /\ Total(Wanted(w)) = f[n]
  BY <1>2, SumsDef DEF Total
<1> HIDE DEF f
<1>4. \A k \in 1..n : f[k] = f[k - 1] + w[k].remaining /\ w[k].remaining \in Nat
  BY <1>1, <1>2, <1>3 DEF Wanted, Flight
<1>5. \A k \in 0..n : f[k] \in Int /\ Pending(w, k) = f[n] - f[k]
  BY <1>1, <1>3 DEF Pending, f
<1>6. n \in 0..n /\ 0 \in 0..n
  OBVIOUS
<1>7. Pending(w, 0) = Total(Wanted(w)) /\ Pending(w, n) = 0 /\ \A k \in 0..n : Pending(w, k) \in Int
  BY <1>3, <1>5, <1>6
<1>8. ASSUME NEW k \in 1..n
      PROVE  Pending(w, k - 1) = Pending(w, k) + w[k].remaining
  <2>1. k - 1 \in 0..n /\ k \in 0..n
    OBVIOUS
  <2>2. f[k - 1] \in Int /\ f[n] \in Int /\ w[k].remaining \in Nat
    BY <1>4, <1>5, <1>6, <2>1
  <2> QED
    BY <1>4, <1>5, <2>1, <2>2
<1> QED
  BY <1>1, <1>7, <1>8

\* The parts of an engine are well-formed.
LEMMA EngineParts ==
  ASSUME NEW e \in Engine
  PROVE  /\ e.working \in Seq(Flight) /\ e.account \in Portfolio /\ e.history \in Seq(Past)
         /\ e.filled \in Nat /\ e.unfilled \in Nat /\ e.cancelled \in Nat
         /\ Len(e.working) \in Nat /\ Len(e.history) \in Nat
BY LenProperties DEF Engine

\* A walk starts with nothing looked at,
LEMMA WalkStarts ==
  ASSUME NEW e \in Engine, Orderly(e)
  PROVE  [e EXCEPT !.working = <<>>] \in Engine /\ Walked(e, [e EXCEPT !.working = <<>>], 0)
<1> DEFINE c == [e EXCEPT !.working = <<>>]
<1>1. /\ c \in Engine /\ c.working = <<>> /\ Len(c.working) = 0 /\ c.history = e.history
      /\ c.cancelled = e.cancelled /\ c.filled = e.filled /\ c.unfilled = e.unfilled
      /\ c.account = e.account
  BY EmptySeq DEF Engine
<1> HIDE DEF c
<1>2. /\ Total(Wanted(e.working)) \in Int /\ Pending(e.working, 0) = Total(Wanted(e.working))
      /\ Total(Gotten(e.history)) \in Int /\ e.unfilled \in Int
  BY EngineParts, FlightTypes, PendingDef, PastTypes
<1>3. Wanted(c.working) = <<>> /\ Total(Wanted(c.working)) = 0
  BY <1>1, TotalEmpty DEF Wanted
<1>4. /\ \A i \in 1..Len(e.history) : Fair(e.history[i])
      /\ e.filled = Cardinality(Complete(e.history))
      /\ e.cancelled = 0 =>
           Total(Ordered(e.history)) = Total(Gotten(e.history)) + Total(Wanted(e.working)) + e.unfilled
      /\ Kept(e.account, Total(Gotten(e.history)))
  BY DEF Orderly
<1>5. e.cancelled = 0 =>
        Total(Ordered(e.history)) = Total(Gotten(e.history)) + 0 + Pending(e.working, 0) + e.unfilled
  BY <1>2, <1>4
<1> QED
  BY <1>1, <1>3, <1>4, <1>5 DEF Walked, c

\* and ends with an engine in order.
LEMMA WalkEnds ==
  ASSUME NEW e \in Engine, Orderly(e), NEW c, Walked(e, c, Len(e.working))
  PROVE  c \in Engine /\ Orderly(c)
<1> DEFINE n == Len(e.working)
           ids == {e.working[i].id : i \in 1..n}
<1>1. /\ c \in Engine /\ Len(c.history) = Len(e.history)
      /\ \A j \in 1..Len(c.working) :
           c.working[j].id \in ids /\ InFlight(c.working[j], c.history[c.working[j].id])
      /\ \A i, j \in 1..Len(c.working) : c.working[i].id = c.working[j].id => i = j
      /\ \A i \in 1..Len(c.history) : Fair(c.history[i])
      /\ c.filled = Cardinality(Complete(c.history))
      /\ c.cancelled = 0 =>
           Total(Ordered(c.history)) =
             Total(Gotten(c.history)) + Total(Wanted(c.working)) + Pending(e.working, n) + c.unfilled
      /\ Kept(c.account, Total(Gotten(c.history)))
  BY DEF Walked
<1>2. ids \subseteq 1..Len(c.history)
  BY <1>1 DEF Orderly
<1>3. /\ Total(Wanted(c.working)) \in Int /\ Pending(e.working, n) = 0
      /\ Total(Gotten(c.history)) \in Int /\ c.unfilled \in Int
  BY <1>1, EngineParts, FlightTypes, PendingDef, PastTypes
<1> HIDE DEF n, ids
<1>4. c.cancelled = 0 =>
        Total(Ordered(c.history)) = Total(Gotten(c.history)) + Total(Wanted(c.working)) + c.unfilled
  BY <1>1, <1>3
<1>5. \A j \in 1..Len(c.working) : c.working[j].id \in 1..Len(c.history)
  BY <1>1, <1>2
<1> QED
  BY <1>1, <1>4, <1>5 DEF Orderly

\* The order whose turn it is has not been touched.
LEMMA WalkTurn ==
  ASSUME NEW e \in Engine, Orderly(e), NEW k \in 1..Len(e.working), NEW c, Walked(e, c, k - 1)
  PROVE  /\ e.working[k] \in Flight /\ e.working[k].id \in 1..Len(e.history)
         /\ c.history[e.working[k].id] = e.history[e.working[k].id]
         /\ e.history[e.working[k].id] \in Past /\ Fair(e.history[e.working[k].id])
         /\ InFlight(e.working[k], e.history[e.working[k].id])
         /\ \A j \in 1..Len(c.working) : c.working[j].id # e.working[k].id
<1> DEFINE id == e.working[k].id
           ids == {e.working[i].id : i \in 1..(k - 1)}
<1>1. PICK n \in Nat : n = Len(e.working) /\ k \in 1..n
  BY EngineParts
<1>2. e.working[k] \in Flight /\ id \in 1..Len(e.history) /\ InFlight(e.working[k], e.history[id])
  BY <1>1, EngineParts, FlightTypes DEF Orderly
<1>3. e.history[id] \in Past /\ Fair(e.history[id])
  BY <1>2, EngineParts, PastTypes DEF Orderly
<1>4. id \notin ids
  <2> SUFFICES ASSUME NEW i \in 1..(k - 1), e.working[i].id = id
               PROVE  FALSE
    OBVIOUS
  <2>1. i \in 1..n /\ i # k
    BY <1>1
  <2> QED
    BY <1>1, <2>1 DEF Orderly
<1>5. c.history[id] = e.history[id]
  <2>1. \A i \in 1..Len(e.history) : i \notin ids => c.history[i] = e.history[i]
    BY DEF Walked
  <2> HIDE DEF id, ids
  <2> QED
    BY <1>2, <1>4, <2>1
<1>6. \A j \in 1..Len(c.working) : c.working[j].id \in ids
  BY DEF Walked
<1> QED
  BY <1>2, <1>3, <1>4, <1>5, <1>6

\* d is c with another past of the order at its turn, which got hit more, and the account a.
Turns(e, k, c, d, p, hit, a) ==
  /\ p \in Past /\ hit \in Nat /\ a \in Portfolio
  /\ p.order = e.history[e.working[k].id].order /\ p.got = e.history[e.working[k].id].got + hit
  /\ Fair(p) /\ Kept(a, Total(Gotten(c.history)) + hit)
  /\ d \in Engine /\ d.account = a /\ d.cancelled = c.cancelled
  /\ d.history = [c.history EXCEPT ![e.working[k].id] = p]

\* What became of the orders that were looked at, and of what the sums come to.
Moved(e, k, c, d, p, hit) ==
  LET id == e.working[k].id
      ids == {e.working[i].id : i \in 1..k}
  IN  /\ Len(d.history) = Len(e.history) /\ d.cancelled = e.cancelled
      /\ \A i \in 1..Len(e.history) : i \notin ids => d.history[i] = e.history[i]
      /\ id \in ids /\ d.history[id] = p
      /\ \A j \in 1..Len(c.working) :
           /\ c.working[j].id \in ids /\ c.working[j].id # id
           /\ InFlight(c.working[j], d.history[c.working[j].id])
      /\ \A i \in 1..Len(d.history) : Fair(d.history[i])
      /\ Cardinality(Complete(d.history)) = c.filled + (IF p.got = p.order.qty THEN 1 ELSE 0)
      /\ Kept(d.account, Total(Gotten(d.history)))
      /\ d.cancelled = 0 =>
           Total(Ordered(d.history)) =
             Total(Gotten(d.history)) - hit + Total(Wanted(c.working)) + Pending(e.working, k)
               + e.working[k].remaining + c.unfilled

\* An order in flight is not complete.
LEMMA NotYetFilled ==
  ASSUME NEW o \in Flight, NEW q \in Past, InFlight(o, q)
  PROVE  q.got # q.order.qty
<1>1. o.remaining > 0 /\ o.remaining = q.order.qty - q.got
  BY DEF InFlight, Flight
<1>2. q.order \in LobOrder /\ q.got \in Nat
  BY DEF Past
<1>3. q.order.qty \in Nat
  BY <1>2 DEF LobOrder
<1> QED
  BY <1>1, <1>2, <1>3

\* A turn leaves that, whether the order stays or not.
LEMMA WalkMoves ==
  ASSUME NEW e \in Engine, Orderly(e), NEW k \in 1..Len(e.working), NEW c, Walked(e, c, k - 1),
         NEW d, NEW p, NEW hit, NEW a, Turns(e, k, c, d, p, hit, a)
  PROVE  Moved(e, k, c, d, p, hit)
<1> DEFINE id == e.working[k].id
           ids == {e.working[i].id : i \in 1..k}
           before == {e.working[i].id : i \in 1..(k - 1)}
           g == [c.history EXCEPT ![id] = p]
<1>1. /\ e.working[k] \in Flight /\ id \in 1..Len(e.history)
      /\ c.history[id] = e.history[id] /\ e.history[id] \in Past
      /\ InFlight(e.working[k], e.history[id])
      /\ \A j \in 1..Len(c.working) : c.working[j].id # id
  BY WalkTurn
<1>2. /\ c \in Engine /\ Len(c.history) = Len(e.history) /\ c.cancelled = e.cancelled
      /\ \A i \in 1..Len(e.history) : i \notin before => c.history[i] = e.history[i]
      /\ \A j \in 1..Len(c.working) :
           c.working[j].id \in before /\ InFlight(c.working[j], c.history[c.working[j].id])
      /\ \A i \in 1..Len(c.history) : Fair(c.history[i])
      /\ c.filled = Cardinality(Complete(c.history))
      /\ c.cancelled = 0 =>
           Total(Ordered(c.history)) =
             Total(Gotten(c.history)) + Total(Wanted(c.working)) + Pending(e.working, k - 1) + c.unfilled
  BY DEF Walked
<1>3. before \subseteq ids /\ id \in ids /\ before \subseteq 1..Len(e.history)
  <2>1. PICK n \in Nat : n = Len(e.working) /\ k \in 1..n
    BY EngineParts
  <2>2. 1..(k - 1) \subseteq 1..k /\ k \in 1..k /\ 1..(k - 1) \subseteq 1..n
    BY <2>1
  <2>3. before \subseteq 1..Len(e.history)
    BY <2>1, <2>2 DEF Orderly
  <2> QED
    BY <2>2, <2>3
<1>4. /\ p \in Past /\ hit \in Nat /\ p.order = c.history[id].order /\ p.got = c.history[id].got + hit
      /\ Fair(p) /\ Kept(a, Total(Gotten(c.history)) + hit)
      /\ d.account = a /\ d.cancelled = c.cancelled /\ d.history = g
  BY <1>1 DEF Turns
<1>5. c.history[id].got # c.history[id].order.qty
  <2>1. /\ e.working[k] \in Flight /\ e.history[id] \in Past /\ InFlight(e.working[k], e.history[id])
        /\ c.history[id] = e.history[id]
    BY <1>1
  <2>2. e.history[id].got # e.history[id].order.qty
    BY <2>1, NotYetFilled
  <2> QED
    BY <2>1, <2>2
<1>6. c.history \in Seq(Past) /\ id \in 1..Len(c.history)
  BY <1>1, <1>2, EngineParts
<1>7. /\ Len(g) = Len(c.history) /\ g[id] = p
      /\ \A j \in 1..Len(c.history) : j # id => g[j] = c.history[j]
      /\ Ordered(g) = Ordered(c.history) /\ Total(Gotten(g)) = Total(Gotten(c.history)) + hit
      /\ Cardinality(Complete(g)) = Cardinality(Complete(c.history)) + (IF p.got = p.order.qty THEN 1 ELSE 0)
  <2> HIDE DEF g, id
  <2>1. LET h == [c.history EXCEPT ![id] = p]
        IN  /\ Len(h) = Len(c.history) /\ h[id] = p
            /\ \A j \in 1..Len(c.history) : j # id => h[j] = c.history[j]
            /\ Ordered(h) = Ordered(c.history) /\ Total(Gotten(h)) = Total(Gotten(c.history)) + hit
            /\ Cardinality(Complete(h)) =
                 Cardinality(Complete(c.history)) + (IF p.got = p.order.qty THEN 1 ELSE 0)
    BY <1>4, <1>5, <1>6, PastMoves
  <2> QED
    BY <2>1 DEF g
<1>8. /\ Pending(e.working, k - 1) = Pending(e.working, k) + e.working[k].remaining
      /\ Pending(e.working, k) \in Int /\ e.working[k].remaining \in Int
      /\ Total(Gotten(c.history)) \in Int /\ Total(Wanted(c.working)) \in Int /\ c.unfilled \in Int
  <2>1. e.working \in Seq(Flight) /\ Len(e.working) \in Nat
    BY EngineParts
  <2>2. k \in 0..Len(e.working) /\ k \in 1..Len(e.working)
    BY <2>1
  <2>3. /\ Pending(e.working, k - 1) = Pending(e.working, k) + e.working[k].remaining
        /\ Pending(e.working, k) \in Int
    BY <2>1, <2>2, PendingDef
  <2>4. e.working[k].remaining \in Int
    BY <1>1 DEF Flight
  <2>5. Total(Gotten(c.history)) \in Int /\ Total(Wanted(c.working)) \in Int /\ c.unfilled \in Int
    <3>1. c.history \in Seq(Past) /\ c.working \in Seq(Flight) /\ c.unfilled \in Nat
      BY <1>2, EngineParts
    <3>2. Total(Gotten(c.history)) \in Nat
      BY <3>1, PastTypes
    <3>3. Total(Wanted(c.working)) \in Nat
      BY <3>1, FlightTypes
    <3> QED
      BY <3>1, <3>2, <3>3
  <2> QED
    BY <2>3, <2>4, <2>5
<1> HIDE DEF g, id, ids, before
<1>9. d.cancelled = 0 =>
        Total(Ordered(d.history)) =
          Total(Gotten(d.history)) - hit + Total(Wanted(c.working)) + Pending(e.working, k)
            + e.working[k].remaining + c.unfilled
  <2> SUFFICES ASSUME d.cancelled = 0
               PROVE  Total(Ordered(g)) =
                        Total(Gotten(g)) - hit + Total(Wanted(c.working)) + Pending(e.working, k)
                          + e.working[k].remaining + c.unfilled
    BY <1>4
  <2>1. Total(Ordered(c.history)) =
          Total(Gotten(c.history)) + Total(Wanted(c.working)) + Pending(e.working, k - 1) + c.unfilled
    BY <1>2, <1>4
  <2>2. Total(Ordered(g)) = Total(Ordered(c.history)) /\ Total(Gotten(g)) = Total(Gotten(c.history)) + hit
    BY <1>7
  <2>3. PICK gotten, wanted, pending, remaining, lapsed \in Int :
          /\ gotten = Total(Gotten(c.history)) /\ wanted = Total(Wanted(c.working))
          /\ pending = Pending(e.working, k) /\ remaining = e.working[k].remaining
          /\ lapsed = c.unfilled
    BY <1>8
  <2>4. gotten + wanted + (pending + remaining) + lapsed =
          (gotten + hit) - hit + wanted + pending + remaining + lapsed
    BY <1>4
  <2>5. Total(Ordered(g)) = gotten + wanted + (pending + remaining) + lapsed
    BY <1>8, <2>1, <2>2, <2>3
  <2> QED
    BY <2>2, <2>3, <2>4, <2>5
<1>10. \A i \in 1..Len(e.history) : i \notin ids => d.history[i] = e.history[i]
  <2> SUFFICES ASSUME NEW i \in 1..Len(e.history), i \notin ids
               PROVE  g[i] = e.history[i]
    BY <1>4
  <2>1. /\ Len(c.history) = Len(e.history)
        /\ \A x \in 1..Len(e.history) : x \notin before => c.history[x] = e.history[x]
    BY <1>2
  <2>2. \A x \in 1..Len(c.history) : x # id => g[x] = c.history[x]
    BY <1>7
  <2>3. i \notin before /\ i # id
    BY <1>3
  <2>4. g[i] = c.history[i]
    BY <2>1, <2>2, <2>3
  <2>5. c.history[i] = e.history[i]
    BY <2>1, <2>3, Zenon
  <2> QED
    BY <2>4, <2>5
<1>11. \A j \in 1..Len(c.working) :
         /\ c.working[j].id \in ids /\ c.working[j].id # id
         /\ InFlight(c.working[j], d.history[c.working[j].id])
  BY <1>1, <1>2, <1>3, <1>4, <1>7 DEF id
<1>12. \A i \in 1..Len(d.history) : Fair(d.history[i])
  BY <1>2, <1>4, <1>7
<1>13. Kept(d.account, Total(Gotten(d.history)))
  BY <1>4, <1>7
<1> QED
  <2>1. /\ Len(d.history) = Len(e.history) /\ d.cancelled = e.cancelled
        /\ id \in ids /\ d.history[id] = p
    BY <1>1, <1>2, <1>3, <1>4, <1>7
  <2>2. Cardinality(Complete(d.history)) = c.filled + (IF p.got = p.order.qty THEN 1 ELSE 0)
    BY <1>2, <1>4, <1>7
  <2> QED
    BY <1>9, <1>10, <1>11, <1>12, <1>13, <2>1, <2>2 DEF id, ids, Moved

\* What a walk adds up are integers.
LEMMA WalkTotals ==
  ASSUME NEW e \in Engine, NEW k \in 1..Len(e.working), NEW c \in Engine, NEW d \in Engine
  PROVE  /\ Total(Wanted(c.working)) \in Int /\ Pending(e.working, k) \in Int
         /\ Total(Gotten(d.history)) \in Int /\ c.unfilled \in Int
<1>1. /\ e.working \in Seq(Flight) /\ Len(e.working) \in Nat /\ c.working \in Seq(Flight)
      /\ d.history \in Seq(Past) /\ c.unfilled \in Int
  BY EngineParts
<1>2. k \in 0..Len(e.working)
  BY <1>1
<1>3. Pending(e.working, k) \in Int
  BY <1>1, <1>2, PendingDef
<1>4. Total(Wanted(c.working)) \in Int
  BY <1>1, FlightTypes
<1>5. Total(Gotten(d.history)) \in Int
  BY <1>1, PastTypes
<1> QED
  BY <1>1, <1>3, <1>4, <1>5

\* An order that stays in flight keeps the walk in order.
LEMMA WalkKeeps ==
  ASSUME NEW e \in Engine, Orderly(e), NEW k \in 1..Len(e.working), NEW c, Walked(e, c, k - 1),
         NEW d, NEW p, NEW hit, NEW a, Turns(e, k, c, d, p, hit, a),
         NEW o \in Flight, o.id = e.working[k].id, InFlight(o, p),
         d.working = Append(c.working, o), d.filled = c.filled, d.unfilled = c.unfilled
  PROVE  Walked(e, d, k)
<1> DEFINE id == e.working[k].id
           ids == {e.working[i].id : i \in 1..k}
<1>1. /\ Len(d.history) = Len(e.history) /\ d.cancelled = e.cancelled
      /\ \A i \in 1..Len(e.history) : i \notin ids => d.history[i] = e.history[i]
      /\ id \in ids /\ d.history[id] = p
      /\ \A j \in 1..Len(c.working) :
           /\ c.working[j].id \in ids /\ c.working[j].id # id
           /\ InFlight(c.working[j], d.history[c.working[j].id])
      /\ \A i \in 1..Len(d.history) : Fair(d.history[i])
      /\ Cardinality(Complete(d.history)) = c.filled + (IF p.got = p.order.qty THEN 1 ELSE 0)
      /\ Kept(d.account, Total(Gotten(d.history)))
      /\ d.cancelled = 0 =>
           Total(Ordered(d.history)) =
             Total(Gotten(d.history)) - hit + Total(Wanted(c.working)) + Pending(e.working, k)
               + e.working[k].remaining + c.unfilled
  <2>1. Moved(e, k, c, d, p, hit)
    BY WalkMoves
  <2> QED
    BY <2>1 DEF Moved
<1> HIDE DEF ids, id
<1>2. c \in Engine /\ d \in Engine /\ hit \in Nat /\ p \in Past
  BY DEF Walked, Turns
<1>3. \A i, j \in 1..Len(c.working) : c.working[i].id = c.working[j].id => i = j
  BY DEF Walked
<1>4. PICK m \in Nat : m = Len(c.working) /\ c.working \in Seq(Flight)
  BY <1>2, EngineParts
<1>5. Len(d.working) = m + 1 /\ d.working[m + 1] = o /\ \A j \in 1..m : d.working[j] = c.working[j]
  BY <1>4, AppendProperties
<1>6. \A j \in 1..Len(d.working) :
        d.working[j].id \in ids /\ InFlight(d.working[j], d.history[d.working[j].id])
  <2> SUFFICES ASSUME NEW j \in 1..(m + 1)
               PROVE  d.working[j].id \in ids /\ InFlight(d.working[j], d.history[d.working[j].id])
    BY <1>5
  <2>1. j \in 1..m \/ j = m + 1
    OBVIOUS
  <2> QED
    BY <1>1, <1>4, <1>5, <2>1 DEF id
<1>7. \A i, j \in 1..Len(d.working) : d.working[i].id = d.working[j].id => i = j
  <2> SUFFICES ASSUME NEW i \in 1..(m + 1), NEW j \in 1..(m + 1), d.working[i].id = d.working[j].id
               PROVE  i = j
    BY <1>5
  <2>1. (i \in 1..m \/ i = m + 1) /\ (j \in 1..m \/ j = m + 1)
    OBVIOUS
  <2> QED
    BY <1>1, <1>3, <1>4, <1>5, <2>1 DEF id
<1>8. /\ o.remaining \in Int /\ e.working[k].remaining \in Int
      /\ o.remaining = e.working[k].remaining - hit /\ p.got # p.order.qty
  <2>1. /\ e.working[k] \in Flight /\ e.history[id] \in Past /\ InFlight(e.working[k], e.history[id])
    BY WalkTurn DEF id
  <2>2. p.order = e.history[id].order /\ p.got = e.history[id].got + hit
    BY DEF Turns, id
  <2>3. /\ o.remaining > 0 /\ o.remaining = p.order.qty - p.got
        /\ e.working[k].remaining = e.history[id].order.qty - e.history[id].got
    BY <2>1 DEF InFlight
  <2>4. /\ o.remaining \in Nat /\ e.working[k].remaining \in Nat
        /\ e.history[id].got \in Nat /\ e.history[id].order.qty \in Nat
    BY <2>1 DEF Flight, Past, LobOrder
  <2>5. PICK remaining, got, qty, rest \in Nat :
          /\ remaining = e.working[k].remaining /\ got = e.history[id].got
          /\ qty = e.history[id].order.qty /\ rest = o.remaining
    BY <2>4
  <2>6. p.order.qty = qty /\ p.got = got + hit
    BY <2>2, <2>5
  <2>7. rest > 0 /\ rest = qty - (got + hit) /\ remaining = qty - got
    BY <2>3, <2>5, <2>6
  <2>8. rest = remaining - hit /\ got + hit # qty
    BY <1>2, <2>7
  <2> QED
    BY <2>4, <2>5, <2>6, <2>8
<1>9. d.filled = Cardinality(Complete(d.history))
  <2>1. c.filled \in Nat
    BY <1>2, EngineParts
  <2> QED
    BY <1>1, <1>8, <2>1
<1>10. d.cancelled = 0 =>
         Total(Ordered(d.history)) =
           Total(Gotten(d.history)) + Total(Wanted(d.working)) + Pending(e.working, k) + d.unfilled
  <2>1. Total(Wanted(d.working)) = Total(Wanted(c.working)) + o.remaining
    BY <1>4, WantedAppend
  <2>2. /\ Total(Wanted(c.working)) \in Int /\ Pending(e.working, k) \in Int
        /\ Total(Gotten(d.history)) \in Int /\ c.unfilled \in Int
    BY <1>2, WalkTotals
  <2> SUFFICES ASSUME d.cancelled = 0
               PROVE  Total(Ordered(d.history)) =
                        Total(Gotten(d.history)) + Total(Wanted(d.working)) + Pending(e.working, k) + d.unfilled
    OBVIOUS
  <2>3. Total(Ordered(d.history)) =
          Total(Gotten(d.history)) - hit + Total(Wanted(c.working)) + Pending(e.working, k)
            + e.working[k].remaining + c.unfilled
    BY <1>1
  <2>4. PICK x \in Int, y \in Int, z \in Int, u \in Int, r \in Int :
          /\ x = Total(Gotten(d.history)) /\ y = Total(Wanted(c.working)) /\ z = Pending(e.working, k)
          /\ u = c.unfilled /\ r = e.working[k].remaining
    BY <1>8, <2>2
  <2>5. Total(Ordered(d.history)) = x - hit + y + z + r + u /\ o.remaining = r - hit
    BY <1>8, <2>3, <2>4
  <2>6. /\ Total(Gotten(d.history)) + Total(Wanted(d.working)) + Pending(e.working, k) + d.unfilled
             = x + (y + o.remaining) + z + u
    BY <2>1, <2>4
  <2>7. x - hit + y + z + r + u = x + (y + o.remaining) + z + u
    BY <1>2, <2>5
  <2> QED
    BY <2>5, <2>6, <2>7
<1> QED
  BY <1>1, <1>2, <1>6, <1>7, <1>9, <1>10 DEF Walked, ids

\* So does one that leaves, complete or with what was given up.
LEMMA WalkDrops ==
  ASSUME NEW e \in Engine, Orderly(e), NEW k \in 1..Len(e.working), NEW c, Walked(e, c, k - 1),
         NEW d, NEW p, NEW hit, NEW a, Turns(e, k, c, d, p, hit, a),
         NEW left \in Nat, left = e.working[k].remaining - hit,
         d.working = c.working, d.filled = c.filled + (IF left = 0 THEN 1 ELSE 0),
         d.unfilled = c.unfilled + left
  PROVE  Walked(e, d, k)
<1> DEFINE id == e.working[k].id
           ids == {e.working[i].id : i \in 1..k}
<1>1. /\ Len(d.history) = Len(e.history) /\ d.cancelled = e.cancelled
      /\ \A i \in 1..Len(e.history) : i \notin ids => d.history[i] = e.history[i]
      /\ \A j \in 1..Len(c.working) :
           /\ c.working[j].id \in ids
           /\ InFlight(c.working[j], d.history[c.working[j].id])
      /\ \A i \in 1..Len(d.history) : Fair(d.history[i])
      /\ Cardinality(Complete(d.history)) = c.filled + (IF p.got = p.order.qty THEN 1 ELSE 0)
      /\ Kept(d.account, Total(Gotten(d.history)))
      /\ d.cancelled = 0 =>
           Total(Ordered(d.history)) =
             Total(Gotten(d.history)) - hit + Total(Wanted(c.working)) + Pending(e.working, k)
               + e.working[k].remaining + c.unfilled
  <2>1. Moved(e, k, c, d, p, hit)
    BY WalkMoves
  <2> QED
    BY <2>1 DEF Moved
<1> HIDE DEF ids, id
<1>2. c \in Engine /\ d \in Engine /\ hit \in Nat /\ p \in Past
  BY DEF Walked, Turns
<1>3. \A i, j \in 1..Len(c.working) : c.working[i].id = c.working[j].id => i = j
  BY DEF Walked
<1>4. (left = 0 <=> p.got = p.order.qty) /\ e.working[k].remaining \in Nat
  <2>1. /\ e.working[k] \in Flight /\ e.history[id] \in Past /\ InFlight(e.working[k], e.history[id])
    BY WalkTurn DEF id
  <2>2. p.order.qty = e.history[id].order.qty /\ p.got = e.history[id].got + hit
    BY DEF Turns, id
  <2>3. e.working[k].remaining = e.history[id].order.qty - e.history[id].got
    BY <2>1 DEF InFlight
  <2>4. /\ e.working[k].remaining \in Nat
        /\ e.history[id].got \in Nat /\ e.history[id].order.qty \in Nat
    BY <2>1 DEF Flight, Past, LobOrder
  <2>5. PICK remaining, got, qty \in Nat :
          /\ remaining = e.working[k].remaining /\ got = e.history[id].got
          /\ qty = e.history[id].order.qty
    BY <2>4
  <2>6. remaining = qty - got /\ left = remaining - hit
    BY <2>3, <2>5
  <2>7. p.order.qty = qty /\ p.got = got + hit
    BY <2>2, <2>5
  <2>8. left = 0 <=> got + hit = qty
    BY <1>2, <2>6
  <2> QED
    BY <2>4, <2>7, <2>8
<1>5. d.filled = Cardinality(Complete(d.history))
  BY <1>1, <1>4
<1>6. d.cancelled = 0 =>
        Total(Ordered(d.history)) =
          Total(Gotten(d.history)) + Total(Wanted(d.working)) + Pending(e.working, k) + d.unfilled
  <2>1. /\ Total(Wanted(c.working)) \in Int /\ Pending(e.working, k) \in Int
        /\ Total(Gotten(d.history)) \in Int /\ c.unfilled \in Int
    BY <1>2, WalkTotals
  <2> SUFFICES ASSUME d.cancelled = 0
               PROVE  Total(Ordered(d.history)) =
                        Total(Gotten(d.history)) + Total(Wanted(d.working)) + Pending(e.working, k) + d.unfilled
    OBVIOUS
  <2>2. Total(Ordered(d.history)) =
          Total(Gotten(d.history)) - hit + Total(Wanted(c.working)) + Pending(e.working, k)
            + e.working[k].remaining + c.unfilled
    BY <1>1
  <2>3. PICK x \in Int, y \in Int, z \in Int, u \in Int, r \in Int :
          /\ x = Total(Gotten(d.history)) /\ y = Total(Wanted(c.working)) /\ z = Pending(e.working, k)
          /\ u = c.unfilled /\ r = e.working[k].remaining
    BY <1>4, <2>1
  <2>4. Total(Ordered(d.history)) = x - hit + y + z + r + u /\ left = r - hit
    BY <2>2, <2>3
  <2>5. /\ Total(Gotten(d.history)) + Total(Wanted(d.working)) + Pending(e.working, k) + d.unfilled
             = x + y + z + (u + left)
    BY <2>3
  <2>6. x - hit + y + z + r + u = x + y + z + (u + (r - hit))
    BY <1>2
  <2> QED
    BY <2>4, <2>5, <2>6
<1> QED
  BY <1>1, <1>2, <1>3, <1>5, <1>6 DEF Walked, ids

-----------------------------------------------------------------------------
(* onTrade *)

TradeRow == [kind : {"trade"}, side : {"buy", "sell", "none"}, price : Nat, qty : Nat, no : Nat]

\* ThroughQueue: the queue goes first, and the order gets no more than it wants.
LEMMA Queued ==
  ASSUME NEW o \in Flight, NEW qty \in Nat
  PROVE  LET hit == ThroughQueue(o, qty)
         IN  /\ hit.ahead \in Nat /\ hit.qty \in Nat /\ hit.qty <= o.remaining /\ hit.qty <= qty
             /\ QueuePosition => hit.ahead = IF o.queueAhead > qty THEN o.queueAhead - qty ELSE 0
             /\ QueuePosition /\ hit.qty > 0 => hit.qty <= qty - o.queueAhead
<1>1. o.queueAhead \in Nat /\ o.remaining \in Nat
  BY DEF Flight
<1> QED
  BY <1>1 DEF ThroughQueue, Lesser

\* The past of an order is another one.
Amended(h, i, p) == [h EXCEPT ![i] = p]

\* What an order got and what traded after it met a trade.
LEMMA MetPast ==
  ASSUME NEW q \in Past, NEW x \in Nat, NEW y \in Nat
  PROVE  LET p == Met(q, x, y)
         IN  /\ p \in Past /\ p.order = q.order /\ p.ahead = q.ahead
             /\ p.got = q.got + x /\ p.traded = q.traded + y
<1>1. PICK got \in Nat, traded \in Nat : got = q.got + x /\ traded = q.traded + y
  <2>1. q.got \in Nat /\ q.traded \in Nat
    BY DEF Past
  <2> QED
    BY <2>1
<1>2. Met(q, x, y) = [q EXCEPT !.got = got, !.traded = traded]
  BY <1>1 DEF Met
<1> QED
  BY <1>1, <1>2 DEF Past

\* d is c after the order o met the trade ev.
HitBy(c, o, ev, d) ==
  LET hit == ThroughQueue(o, ev.qty)
      left == o.remaining - hit.qty
      rest == [o EXCEPT !.remaining = left, !.queueAhead = hit.ahead]
  IN  /\ d \in Engine /\ Len(d.history) = Len(c.history)
      /\ d.account = (IF hit.qty = 0 THEN c.account ELSE RecordFill(c.account, o.side, ev.price, hit.qty))
      /\ d.filled = c.filled + (IF left = 0 THEN 1 ELSE 0)
      /\ d.unfilled = c.unfilled /\ d.cancelled = c.cancelled
      /\ d.working = (IF left = 0 THEN c.working ELSE Append(c.working, rest))
      /\ left # 0 => rest \in Flight
      /\ d.history = Amended(c.history, o.id, Met(c.history[o.id], hit.qty, ev.qty))

\* TradeOne, when the order meets the trade.
LEMMA TradeParts ==
  ASSUME NEW c \in Engine, NEW o \in Flight, o.id \in 1..Len(c.history), NEW ev \in TradeRow,
         Meets(ev, o)
  PROVE  HitBy(c, o, ev, TradeOne(c, ev, o))
<1> DEFINE hit == ThroughQueue(o, ev.qty)
           left == o.remaining - hit.qty
           d == TradeOne(c, ev, o)
           paid == IF hit.qty = 0 THEN c.account ELSE RecordFill(c.account, o.side, ev.price, hit.qty)
           fills == c.filled + (IF left = 0 THEN 1 ELSE 0)
           rest == [o EXCEPT !.remaining = left, !.queueAhead = hit.ahead]
           flights == IF left = 0 THEN c.working ELSE Append(c.working, rest)
           pasts == Amended(c.history, o.id, Met(c.history[o.id], hit.qty, ev.qty))
<1>1. /\ ev.qty \in Nat /\ ev.price \in Nat /\ o.remaining \in Nat /\ o.side \in {"buy", "sell"}
  BY DEF TradeRow, Flight
<1>2. hit.ahead \in Nat /\ hit.qty \in Nat /\ hit.qty <= o.remaining
  <2> HIDE DEF hit
  <2> QED
    BY <1>1, Queued DEF hit
<1>3. left \in Nat
  BY <1>1, <1>2
<1>4. /\ c.working \in Seq(Flight) /\ c.account \in Portfolio /\ c.history \in Seq(Past)
      /\ c.filled \in Nat /\ c.unfilled \in Nat /\ c.cancelled \in Nat
  BY EngineParts
<1>5. d = [c EXCEPT !.account = paid, !.filled = fills, !.working = flights, !.history = pasts]
  BY Zenon DEF TradeOne, hit, Amended
<1> HIDE DEF d, hit
<1>6. paid \in Portfolio
  <2>1. hit.qty # 0 => hit.qty \in Nat \ {0}
    BY <1>2
  <2> QED
    BY <1>1, <1>4, <2>1, FillKept
<1>7. fills \in Nat
  BY <1>4
<1> HIDE DEF left
<1>8. rest \in Flight
  BY <1>2, <1>3 DEF Flight
<1> HIDE DEF rest
<1>9. flights \in Seq(Flight)
  BY <1>4, <1>8, AppendProperties
<1>10. pasts \in Seq(Past) /\ Len(pasts) = Len(c.history)
  <2>1. c.history[o.id] \in Past
    BY <1>4, PastTypes
  <2>2. Met(c.history[o.id], hit.qty, ev.qty) \in Past
    BY <1>1, <1>2, <2>1, MetPast
  <2> QED
    BY <1>4, <2>2, ExceptSeq DEF Amended
<1> HIDE DEF paid, fills, flights, pasts
<1>11. /\ d \in Engine /\ d.account = paid /\ d.filled = fills /\ d.working = flights
       /\ d.history = pasts /\ d.unfilled = c.unfilled /\ d.cancelled = c.cancelled
  BY <1>4, <1>5, <1>6, <1>7, <1>9, <1>10 DEF Engine
<1> QED
  BY <1>8, <1>10, <1>11 DEF d, hit, left, paid, fills, flights, pasts, rest, HitBy

\* TradeOne keeps an engine one, with as many orders.
LEMMA TradeTypes ==
  ASSUME NEW c \in Engine, NEW o \in Flight, o.id \in 1..Len(c.history), NEW ev \in TradeRow
  PROVE  TradeOne(c, ev, o) \in Engine /\ Len(TradeOne(c, ev, o).history) = Len(c.history)
<1>1. CASE Meets(ev, o)
  BY <1>1, TradeParts DEF HitBy
<1>2. CASE ~Meets(ev, o)
  <2>1. TradeOne(c, ev, o) = [c EXCEPT !.working = Append(c.working, o)]
    BY <1>2 DEF TradeOne
  <2>2. Append(c.working, o) \in Seq(Flight)
    BY EngineParts, AppendProperties
  <2> QED
    BY <2>1, <2>2 DEF Engine
<1> QED
  BY <1>1, <1>2

\* An order that is only passed on keeps the walk in order.
LEMMA WalkPasses ==
  ASSUME NEW e \in Engine, Orderly(e), NEW k \in 1..Len(e.working), NEW c, Walked(e, c, k - 1)
  PROVE  Walked(e, [c EXCEPT !.working = Append(@, e.working[k])], k)
<1> DEFINE o == e.working[k]
           p == e.history[o.id]
           d == [c EXCEPT !.working = Append(@, o)]
<1>1. /\ o \in Flight /\ o.id \in 1..Len(e.history) /\ c.history[o.id] = p /\ p \in Past /\ Fair(p)
      /\ InFlight(o, p)
  BY WalkTurn
<1>2. c \in Engine /\ Len(c.history) = Len(e.history) /\ Kept(c.account, Total(Gotten(c.history)))
  BY DEF Walked
<1>3. /\ c.working \in Seq(Flight) /\ c.account \in Portfolio /\ c.history \in Seq(Past)
      /\ Total(Gotten(c.history)) \in Nat /\ p.got \in Nat
  BY <1>1, <1>2, EngineParts, PastTypes DEF Past
<1>4. /\ d \in Engine /\ d.account = c.account /\ d.cancelled = c.cancelled /\ d.history = c.history
      /\ d.working = Append(c.working, o) /\ d.filled = c.filled /\ d.unfilled = c.unfilled
  <2> HIDE DEF o
  <2>1. Append(c.working, o) \in Seq(Flight)
    BY <1>1, <1>3, AppendProperties
  <2> QED
    BY <1>2, <2>1 DEF Engine
<1>5. c.history = [c.history EXCEPT ![o.id] = p]
  <2> HIDE DEF o, p
  <2>1. [c.history EXCEPT ![o.id] = p] \in Seq(Past) /\ Len([c.history EXCEPT ![o.id] = p]) = Len(c.history)
        /\ \A j \in 1..Len(c.history) : [c.history EXCEPT ![o.id] = p][j] = c.history[j]
    BY <1>1, <1>2, <1>3, ExceptSeq
  <2> QED
    BY <1>3, <2>1, SeqEqual
<1> HIDE DEF d
<1>6. Turns(e, k, c, d, p, 0, c.account)
  <2>1. p.got = p.got + 0 /\ Total(Gotten(c.history)) + 0 = Total(Gotten(c.history))
    BY <1>3
  <2>2. Kept(c.account, Total(Gotten(c.history)) + 0)
    BY <1>2, <2>1
  <2>3. d.history = [c.history EXCEPT ![o.id] = p]
    BY <1>4, <1>5
  <2> QED
    BY <1>1, <1>3, <1>4, <2>1, <2>2, <2>3 DEF Turns
<1>7. Walked(e, d, k)
  BY <1>1, <1>4, <1>6, WalkKeeps
<1> QED
  BY <1>7 DEF d

\* TradeOne: what an order gets of a trade is fair, and the walk stays in order.
LEMMA TradeWalks ==
  ASSUME NEW e \in Engine, Orderly(e), NEW k \in 1..Len(e.working), NEW c, Walked(e, c, k - 1),
         NEW ev \in TradeRow
  PROVE  Walked(e, TradeOne(c, ev, e.working[k]), k)
<1> DEFINE o == e.working[k]
           q == e.history[o.id]
<1>1. /\ o \in Flight /\ o.id \in 1..Len(e.history) /\ c.history[o.id] = q /\ q \in Past /\ Fair(q)
      /\ InFlight(o, q)
  BY WalkTurn
<1>2. c \in Engine /\ Len(c.history) = Len(e.history) /\ Kept(c.account, Total(Gotten(c.history)))
  BY DEF Walked
<1>3. CASE ~Meets(ev, o)
  <2>1. TradeOne(c, ev, o) = [c EXCEPT !.working = Append(@, o)]
    BY <1>3 DEF TradeOne
  <2> QED
    BY <2>1, WalkPasses
<1>4. CASE Meets(ev, o)
  <2> DEFINE hit == ThroughQueue(o, ev.qty)
             d == TradeOne(c, ev, o)
             p == Met(q, hit.qty, ev.qty)
             left == o.remaining - hit.qty
             rest == [o EXCEPT !.remaining = left, !.queueAhead = hit.ahead]
             a == IF hit.qty = 0 THEN c.account ELSE RecordFill(c.account, o.side, ev.price, hit.qty)
  <2>1. ev.qty \in Nat /\ ev.price \in Nat /\ ev.qty > 0 /\ o.active
    BY <1>4 DEF TradeRow, Meets
  <2>2. /\ hit.ahead \in Nat /\ hit.qty \in Nat /\ hit.qty <= o.remaining
        /\ QueuePosition => hit.ahead = IF o.queueAhead > ev.qty THEN o.queueAhead - ev.qty ELSE 0
        /\ QueuePosition /\ hit.qty > 0 => hit.qty <= ev.qty - o.queueAhead
    <3> HIDE DEF hit, o
    <3> QED
      BY <1>1, <2>1, Queued DEF hit
  <2>3. /\ d \in Engine /\ d.account = a /\ d.cancelled = c.cancelled /\ d.unfilled = c.unfilled
        /\ d.filled = c.filled + (IF left = 0 THEN 1 ELSE 0)
        /\ d.working = (IF left = 0 THEN c.working ELSE Append(c.working, rest))
        /\ d.history = Amended(c.history, o.id, p)
        /\ left # 0 => rest \in Flight
    <3>1. HitBy(c, o, ev, d)
      BY <1>1, <1>2, <1>4, TradeParts
    <3> QED
      BY <1>1, <3>1 DEF HitBy
  <2> HIDE DEF d, hit, o, q
  <2>4. /\ p \in Past /\ p.order = q.order /\ p.ahead = q.ahead
        /\ p.got = q.got + hit.qty /\ p.traded = q.traded + ev.qty
    <3>1. q \in Past /\ hit.qty \in Nat /\ ev.qty \in Nat
      BY <1>1, <2>1, <2>2
    <3> QED
      BY <3>1, MetPast
  <2>5. /\ q.got \in Nat /\ q.traded \in Nat /\ q.ahead \in Nat /\ q.order.qty \in Nat
        /\ o.remaining \in Nat /\ o.queueAhead \in Nat
    BY <1>1 DEF Past, LobOrder, Flight
  <2>6. /\ o.side = q.order.side /\ o.type = q.order.type /\ o.price = q.order.price
        /\ o.remaining = q.order.qty - q.got /\ o.type = "limit"
        /\ QueuePosition => o.queueAhead = IF q.ahead > q.traded THEN q.ahead - q.traded ELSE 0
    BY <1>1, <2>1 DEF InFlight
  <2> HIDE DEF p
  <2>7. Fair(p)
    <3>1. p.got <= p.order.qty
      BY <2>2, <2>4, <2>5, <2>6
    <3>2. ASSUME QueuePosition, p.got > 0
          PROVE  p.got <= p.traded - p.ahead
      <4>1. q.got > 0 => q.got <= q.traded - q.ahead
        BY <1>1, <2>6, <3>2 DEF Fair
      <4>2. o.queueAhead = IF q.ahead > q.traded THEN q.ahead - q.traded ELSE 0
        BY <2>6, <3>2
      <4>3. hit.qty > 0 => hit.qty <= ev.qty - o.queueAhead
        BY <2>2, <3>2
      <4>4. q.got + hit.qty > 0
        BY <2>4, <3>2
      <4>5. q.got + hit.qty <= (q.traded + ev.qty) - q.ahead
        BY <2>1, <2>2, <2>5, <4>1, <4>2, <4>3, <4>4
      <4> QED
        BY <2>4, <4>5
    <3> QED
      BY <3>1, <3>2 DEF Fair
  <2>8. a \in Portfolio /\ Kept(a, Total(Gotten(c.history)) + hit.qty)
    <3>1. c.account \in Portfolio /\ Total(Gotten(c.history)) \in Nat /\ o.side \in {"buy", "sell"}
      BY <1>1, <1>2, EngineParts, PastTypes DEF Flight
    <3>2. CASE hit.qty = 0
      <4>1. Total(Gotten(c.history)) + hit.qty = Total(Gotten(c.history))
        BY <3>1, <3>2
      <4> QED
        BY <1>2, <3>1, <3>2, <4>1
    <3>3. CASE hit.qty # 0
      <4>1. hit.qty \in Nat \ {0}
        BY <2>2, <3>3
      <4>2. /\ RecordFill(c.account, o.side, ev.price, hit.qty) \in Portfolio
            /\ Kept(RecordFill(c.account, o.side, ev.price, hit.qty), Total(Gotten(c.history)) + hit.qty)
        BY <1>2, <2>1, <3>1, <4>1, FillKept
      <4> QED
        BY <3>3, <4>2
    <3> QED
      BY <3>2, <3>3
  <2> HIDE DEF a
  <2>9. Turns(e, k, c, d, p, hit.qty, a)
    BY <2>2, <2>3, <2>4, <2>7, <2>8 DEF Turns, Amended, o, q
  <2>10. left \in Nat
    BY <2>2, <2>5
  <2>11. CASE left = 0
    <3>1. /\ d.working = c.working /\ d.filled = c.filled + (IF left = 0 THEN 1 ELSE 0)
          /\ d.unfilled = c.unfilled + left
      <4>1. c.unfilled \in Nat
        BY <1>2, EngineParts
      <4> QED
        BY <2>3, <2>11, <4>1
    <3>2. left = e.working[k].remaining - hit.qty
      BY DEF o
    <3> HIDE DEF left
    <3>3. Walked(e, d, k)
      BY <2>9, <2>10, <3>1, <3>2, WalkDrops
    <3> QED
      BY <3>3 DEF d, o
  <2>12. CASE left # 0
    <3>1. /\ rest \in Flight /\ rest.id = o.id /\ rest.side = o.side /\ rest.type = o.type
          /\ rest.price = o.price /\ rest.active = o.active /\ rest.remaining = left
          /\ rest.queueAhead = hit.ahead
      <4>1. rest \in Flight
        BY <2>3, <2>12
      <4> HIDE DEF left
      <4> QED
        BY <1>1, <4>1 DEF Flight
    <3>2. InFlight(rest, p)
      <4>1. rest.remaining > 0 /\ rest.remaining = p.order.qty - p.got
        BY <2>2, <2>4, <2>5, <2>6, <2>10, <2>12, <3>1
      <4>2. QueuePosition => rest.queueAhead = IF p.ahead > p.traded THEN p.ahead - p.traded ELSE 0
        BY <2>1, <2>2, <2>4, <2>5, <2>6, <3>1
      <4>3. /\ rest.side = p.order.side /\ rest.type = p.order.type /\ rest.price = p.order.price
            /\ rest.active /\ rest.type = "limit"
        BY <2>1, <2>4, <2>6, <3>1
      <4> QED
        BY <4>1, <4>2, <4>3 DEF InFlight
    <3>3. d.working = Append(c.working, rest) /\ d.filled = c.filled /\ d.unfilled = c.unfilled
      <4>1. c.filled \in Nat
        BY <1>2, EngineParts
      <4> QED
        BY <2>3, <2>12, <4>1
    <3>4. rest.id = e.working[k].id
      BY <3>1 DEF o
    <3> HIDE DEF rest
    <3>5. Walked(e, d, k)
      BY <2>9, <3>1, <3>2, <3>3, <3>4, WalkKeeps
    <3> QED
      BY <3>5 DEF d, o
  <2> QED
    BY <2>11, <2>12
<1> QED
  BY <1>3, <1>4

\* f holds what onTrade makes of the working orders with the indices in a set.
Trading(e, ev, f) ==
  f = [S \in SUBSET (DOMAIN e.working) |->
         IF S = {} THEN [e EXCEPT !.working = <<>>]
         ELSE TradeOne(f[S \ {Max(S)}], ev, e.working[Max(S)])]

\* onTrade keeps the engine in order.
LEMMA OnTradeKeeps ==
  ASSUME NEW e \in Engine, Orderly(e), NEW ev \in TradeRow
  PROVE  OnTrade(e, ev) \in Engine /\ Orderly(OnTrade(e, ev))
<1> DEFINE n == Len(e.working)
           base == [e EXCEPT !.working = <<>>]
           A == {c \in Engine : Len(c.history) = Len(e.history)}
           step == [p \in A \X (1..n) |-> TradeOne(p[1], ev, e.working[p[2]])]
           iter == CHOOSE f : Trading(e, ev, f)
           reach == [k \in 0..n |-> {c \in A : Walked(e, c, k)}]
<1>1. n \in Nat /\ DOMAIN e.working = 1..n /\ \A k \in 1..n : e.working[k] \in Flight
  BY EngineParts, FlightTypes
<1>2. OnTrade(e, ev) = iter[DOMAIN e.working]
  BY DEF OnTrade, FoldLeft, MapThenFoldSet, Trading
<1>3. base \in A /\ Walked(e, base, 0)
  <2>1. base \in Engine /\ Walked(e, base, 0)
    BY WalkStarts
  <2> HIDE DEF base
  <2> QED
    BY <2>1 DEF Walked
<1>4. \A k \in 1..n : e.working[k].id \in 1..Len(e.history)
  BY DEF Orderly
<1>5. ASSUME NEW c \in A, NEW k \in 1..n
      PROVE  /\ TradeOne(c, ev, e.working[k]) \in A /\ step[<<c, k>>] = TradeOne(c, ev, e.working[k])
             /\ Walked(e, c, k - 1) => Walked(e, TradeOne(c, ev, e.working[k]), k)
  <2>1. TradeOne(c, ev, e.working[k]) \in A
    BY <1>1, <1>4, TradeTypes
  <2>2. Walked(e, c, k - 1) => Walked(e, TradeOne(c, ev, e.working[k]), k)
    BY TradeWalks
  <2> QED
    BY <2>1, <2>2
<1> HIDE DEF n, base, A
<1>6. step \in [A \X (1..n) -> A]
  BY <1>5
<1> HIDE DEF step
<1>7. \E f : Trading(e, ev, f)
  <2>1. Picks(1..n, Largest(n)) /\ IsFiniteSet(1..n)
    BY <1>1, LastPicks
  <2>2. PICK f \in [SUBSET (1..n) -> A] : IsFold(1..n, base, Largest(n), step, f)
    BY <1>3, <1>6, <2>1, FoldsExist
  <2>3. ASSUME NEW S \in SUBSET (1..n), S # {}
        PROVE  f[S] = TradeOne(f[S \ {Max(S)}], ev, e.working[Max(S)])
    <3>1. Largest(n)[S] = Max(S) /\ Max(S) \in 1..n /\ f[S \ {Max(S)}] \in A
      BY <2>1, <2>3 DEF Picks, Largest
    <3>2. f[S] = step[<<f[S \ {Max(S)}], Max(S)>>]
      BY <2>2, <2>3, <3>1 DEF IsFold
    <3> QED
      BY <1>5, <3>1, <3>2
  <2>4. f[{}] = base
    BY <2>2 DEF IsFold
  <2> DEFINE value(S) == IF S = {} THEN [e EXCEPT !.working = <<>>]
                         ELSE TradeOne(f[S \ {Max(S)}], ev, e.working[Max(S)])
  <2>5. \A S \in SUBSET (1..n) : f[S] = value(S)
    BY <2>3, <2>4 DEF base
  <2>6. Trading(e, ev, f) <=> f = [S \in SUBSET (1..n) |-> value(S)]
    BY <1>1 DEF Trading
  <2> HIDE DEF value
  <2> QED
    BY <2>2, <2>5, <2>6
<1>8. Trading(e, ev, iter)
  BY <1>7
<1> HIDE DEF iter
<1>9. FoldsAs(1..n, A, base, Largest(n), step, iter)
  <2>1. Picks(1..n, Largest(n))
    BY <1>1, LastPicks
  <2>2. iter[{}] = base
    BY <1>1, <1>8 DEF Trading, base
  <2>3. ASSUME NEW S \in SUBSET (1..n), S # {}, iter[S \ {Largest(n)[S]}] \in A
        PROVE  iter[S] = step[<<iter[S \ {Largest(n)[S]}], Largest(n)[S]>>]
    <3>1. Largest(n)[S] = Max(S) /\ Max(S) \in 1..n
      BY <2>1, <2>3 DEF Picks, Largest
    <3>2. iter[S] = TradeOne(iter[S \ {Max(S)}], ev, e.working[Max(S)])
      BY <1>1, <1>8, <2>3 DEF Trading
    <3> QED
      BY <1>5, <2>3, <3>1, <3>2
  <2> QED
    BY <2>2, <2>3 DEF FoldsAs
<1>10. Advances(n, A, base, step, reach)
  <2>1. ASSUME NEW k \in 1..n, NEW c \in reach[k - 1]
        PROVE  step[<<c, k>>] \in reach[k]
    <3>1. k - 1 \in 0..n /\ k \in 0..n
      BY <1>1
    <3>2. c \in A /\ Walked(e, c, k - 1)
      BY <3>1
    <3> QED
      BY <1>5, <3>1, <3>2
  <2>2. base \in reach[0]
    BY <1>1, <1>3
  <2>3. \A k \in 0..n : reach[k] \subseteq A
    OBVIOUS
  <2> HIDE DEF reach
  <2> QED
    BY <2>1, <2>2, <2>3 DEF Advances
<1>11. iter[1..n] \in reach[n]
  <2> HIDE DEF reach
  <2> QED
    BY <1>1, <1>9, <1>10, FoldArrives
<1>12. Walked(e, iter[1..n], n)
  BY <1>1, <1>11
<1> QED
  BY <1>1, <1>2, <1>12, WalkEnds DEF n

-----------------------------------------------------------------------------
(* executeMarket, activate *)

\* The other side of the book has finitely many prices, each at a level with a quantity.
LEMMA PricesFinite ==
  ASSUME NEW book \in Book, NEW side
  PROVE  /\ IsFiniteSet(SidePrices(book, side)) /\ SidePrices(book, side) \subseteq Nat
         /\ \A p \in SidePrices(book, side) : <<side, p>> \in Level /\ book.levels[<<side, p>>] \in Nat
<1> DEFINE L == {x \in Level : x[1] = side /\ book.levels[x] > 0}
           price == [l \in L |-> l[2]]
<1>1. \A x \in Level : x[2] \in Nat /\ x = <<x[1], x[2]>>
  BY LevelAssumption
<1>2. IsFiniteSet(L)
  BY LevelAssumption, FS_Subset
<1>3. SidePrices(book, side) = {l[2] : l \in L}
  BY DEF SidePrices
<1>4. price \in Surjection(L, SidePrices(book, side))
  BY <1>3 DEF Surjection
<1>5. IsFiniteSet(SidePrices(book, side))
  <2> HIDE DEF price, L
  <2> QED
    BY <1>2, <1>4, FS_Surjection
<1>6. book.levels \in [Level -> 0..MaxQty] /\ MaxQty \in Nat
  BY LevelAssumption DEF Book, Quantities
<1>7. \A x \in Level : book.levels[x] \in Nat
  BY <1>6
<1>8. ASSUME NEW p \in SidePrices(book, side)
      PROVE  p \in Nat /\ <<side, p>> \in Level /\ book.levels[<<side, p>>] \in Nat
  <2>1. PICK l \in L : p = l[2]
    BY <1>3
  <2> QED
    BY <1>1, <1>7, <2>1
<1> QED
  BY <1>5, <1>8

\* The worst of some prices is one of them.
LEMMA WorstIn ==
  ASSUME NEW S, S \subseteq Nat, IsFiniteSet(S), S # {}, NEW side
  PROVE  Worst(side, S) \in S
<1>1. Max(S) \in S
  BY LargestIn
<1>2. \E x \in S : \A y \in S : x <= y
  BY LeastNatural
<1>3. Min(S) \in S
  BY <1>2 DEF Min
<1> QED
  BY <1>1, <1>3 DEF Worst

\* What a market order is still short of, and the portfolio that pays for it.
Purse(o) == [left : 0..o.remaining, account : Portfolio]

\* From m to r the portfolio recorded what the order got.
Pays(m, r) ==
  /\ r.left <= m.left
  /\ \A got \in Nat : Kept(m.account, got) => Kept(r.account, got + (m.left - r.left))

\* Take: what is got at one price is recorded.
LEMMA Takes ==
  ASSUME NEW book, NEW o \in Flight, NEW m \in Purse(o), NEW price \in Nat,
         book.levels[<<OtherSide(o.side), price>>] \in Nat
  PROVE  Take(book, o, price, m) \in Purse(o) /\ Pays(m, Take(book, o, price, m))
<1>1. PICK there \in Nat : there = book.levels[<<OtherSide(o.side), price>>]
  OBVIOUS
<1>2. /\ m.left \in Nat /\ m.left <= o.remaining /\ m.account \in Portfolio /\ o.remaining \in Nat
      /\ o.side \in {"buy", "sell"}
  BY DEF Purse, Flight
<1>3. PICK qty \in Nat : qty = Lesser(there, m.left) /\ qty <= m.left
  BY <1>2 DEF Lesser
<1>4. CASE qty = 0
  <2>1. Take(book, o, price, m) = m
    BY <1>1, <1>3, <1>4 DEF Take
  <2>2. \A got \in Nat : got + (m.left - m.left) = got
    BY <1>2
  <2> QED
    BY <1>2, <2>1, <2>2 DEF Pays
<1>5. CASE qty # 0
  <2> DEFINE paid == RecordFill(m.account, o.side, price, qty)
             r == [left |-> m.left - qty, account |-> paid]
  <2>1. Take(book, o, price, m) = r
    BY <1>1, <1>3, <1>5 DEF Take
  <2>2. qty \in Nat \ {0}
    BY <1>5
  <2>3. paid \in Portfolio /\ \A got \in Nat : Kept(m.account, got) => Kept(paid, got + qty)
    BY <1>2, <2>2, FillKept
  <2> HIDE DEF paid
  <2>4. r.left = m.left - qty /\ r.account = paid /\ r \in Purse(o) /\ m.left - r.left = qty
    BY <1>2, <1>3, <2>3 DEF Purse
  <2> HIDE DEF r
  <2>5. r.left <= m.left
    BY <1>2, <1>3, <2>4
  <2> QED
    BY <2>1, <2>3, <2>4, <2>5 DEF Pays
<1> QED
  BY <1>4, <1>5

\* f holds what is left of the order, and the portfolio, after the prices in a set.
Walking(book, o, a, f) ==
  f = [S \in SUBSET SidePrices(book, OtherSide(o.side)) |->
         IF S = {} THEN [left |-> o.remaining, account |-> a]
         ELSE Take(book, o, Worst(OtherSide(o.side), S), f[S \ {Worst(OtherSide(o.side), S)}])]

\* executeMarket: d is e after what was got was recorded and left given up.
Ended(e, o, left, a, d) ==
  d = [e EXCEPT !.account = a, !.filled = @ + (IF left = 0 THEN 1 ELSE 0), !.unfilled = @ + left,
                !.history = [@ EXCEPT ![o.id].got = o.remaining - left]]

\* A market order ends with what the other side of the book had for it.
LEMMA MarketKeeps ==
  ASSUME NEW e \in Engine, NEW book \in Book, NEW o \in Flight
  PROVE  \E left \in 0..o.remaining, a \in Portfolio :
           /\ \A got \in Nat : Kept(e.account, got) => Kept(a, got + (o.remaining - left))
           /\ Ended(e, o, left, a, ExecuteMarket(e, book, o))
<1> DEFINE side == OtherSide(o.side)
           D == SidePrices(book, side)
           A == Purse(o)
           base == [left |-> o.remaining, account |-> e.account]
           pick == [S \in SUBSET D |-> Worst(side, S)]
           step == [q \in A \X D |-> Take(book, o, q[2], q[1])]
           iter == CHOOSE f : Walking(book, o, e.account, f)
           done == iter[D]
<1>1. /\ IsFiniteSet(D) /\ D \subseteq Nat
      /\ \A p \in D : <<side, p>> \in Level /\ book.levels[<<side, p>>] \in Nat
  <2> HIDE DEF side
  <2> QED
    BY PricesFinite
<1>2. Ended(e, o, done.left, done.account, ExecuteMarket(e, book, o))
  BY DEF ExecuteMarket, MapThenFoldSet, Walking, Ended
<1>3. o.remaining \in Nat /\ e.account \in Portfolio
  BY EngineParts DEF Flight
<1>4. base \in A
  BY <1>3 DEF Purse
<1>5. ASSUME NEW m \in A, NEW p \in D
      PROVE  /\ Take(book, o, p, m) \in A /\ Pays(m, Take(book, o, p, m))
             /\ step[<<m, p>>] = Take(book, o, p, m)
  <2>1. p \in Nat /\ book.levels[<<OtherSide(o.side), p>>] \in Nat
    BY <1>1
  <2>2. Take(book, o, p, m) \in A /\ Pays(m, Take(book, o, p, m))
    BY <2>1, Takes
  <2> QED
    BY <2>2
<1>6. \A S \in SUBSET D : S # {} => Worst(side, S) \in S
  <2> SUFFICES ASSUME NEW S \in SUBSET D, S # {}
               PROVE  Worst(side, S) \in S
    OBVIOUS
  <2>1. IsFiniteSet(S)
    BY <1>1, FS_Subset
  <2>2. S \subseteq Nat
    BY <1>1
  <2> HIDE DEF side, D
  <2> QED
    BY <2>1, <2>2, WorstIn
<1> HIDE DEF A
<1>7. step \in [A \X D -> A] /\ Picks(D, pick)
  BY <1>5, <1>6 DEF Picks
<1> HIDE DEF step
<1>8. \E f : Walking(book, o, e.account, f)
  <2>1. PICK f \in [SUBSET D -> A] : IsFold(D, base, pick, step, f)
    <3> HIDE DEF D, pick, base
    <3> QED
      BY <1>1, <1>4, <1>7, FoldsExist
  <2> DEFINE value(S) == IF S = {} THEN base ELSE Take(book, o, Worst(side, S), f[S \ {Worst(side, S)}])
  <2>2. ASSUME NEW S \in SUBSET D
        PROVE  f[S] = value(S)
    <3>1. CASE S = {}
      BY <2>1, <3>1 DEF IsFold
    <3>2. CASE S # {}
      <4>1. pick[S] = Worst(side, S) /\ Worst(side, S) \in D /\ f[S \ {Worst(side, S)}] \in A
        BY <1>6, <3>2
      <4>2. f[S] = step[<<f[S \ {Worst(side, S)}], Worst(side, S)>>]
        BY <2>1, <3>2, <4>1 DEF IsFold
      <4> QED
        BY <1>5, <3>2, <4>1, <4>2
    <3> QED
      BY <3>1, <3>2
  <2>3. Walking(book, o, e.account, f) <=> f = [S \in SUBSET D |-> value(S)]
    BY DEF Walking
  <2> HIDE DEF value, D
  <2> QED
    BY <2>1, <2>2, <2>3
<1>9. Walking(book, o, e.account, iter)
  BY <1>8
<1> HIDE DEF iter
<1>10. /\ iter[{}] = base
       /\ \A S \in SUBSET D : S # {} => iter[S] = Take(book, o, Worst(side, S), iter[S \ {Worst(side, S)}])
  BY <1>9 DEF Walking
<1> DEFINE Good == {S \in SUBSET D : iter[S] \in A /\ Pays(base, iter[S])}
<1>11. {} \in Good
  <2>1. base.left \in Nat /\ base.left <= base.left /\ \A got \in Nat : got + (base.left - base.left) = got
    BY <1>3
  <2> HIDE DEF base
  <2>2. Pays(base, base)
    BY <2>1 DEF Pays
  <2> QED
    BY <1>4, <1>10, <2>2
<1>12. ASSUME NEW S \in SUBSET D, S # {}, S \ {Worst(side, S)} \in Good
       PROVE  S \in Good
  <2>1. PICK m \in A : m = iter[S \ {Worst(side, S)}] /\ Pays(base, m)
    BY <1>12
  <2>2. PICK r \in A : r = iter[S] /\ Pays(m, r)
    <3>1. Worst(side, S) \in D /\ iter[S] = Take(book, o, Worst(side, S), m)
      BY <1>6, <1>10, <1>12, <2>1
    <3> QED
      BY <1>5, <3>1
  <2>3. base.left \in Nat /\ m.left \in Nat /\ r.left \in Nat /\ m.left <= base.left /\ r.left <= m.left
    BY <1>3, <2>1, <2>2 DEF A, Purse, Pays
  <2> HIDE DEF base
  <2>4. ASSUME NEW got \in Nat, Kept(base.account, got)
        PROVE  Kept(r.account, got + (base.left - r.left))
    <3>1. PICK more \in Nat : more = got + (base.left - m.left)
      BY <2>3
    <3>2. Kept(m.account, more)
      BY <2>1, <2>4, <3>1 DEF Pays
    <3>3. Kept(r.account, more + (m.left - r.left))
      BY <2>2, <3>2 DEF Pays
    <3>4. more + (m.left - r.left) = got + (base.left - r.left)
      BY <2>3, <3>1
    <3> QED
      BY <3>3, <3>4
  <2>5. r.left <= base.left
    BY <2>3
  <2>6. Pays(base, r)
    BY <2>4, <2>5 DEF Pays
  <2> QED
    BY <2>2, <2>6
<1>13. done \in A /\ Pays(base, done)
  <2>1. Grows(D, pick, Good)
    BY <1>6, <1>11, <1>12 DEF Grows
  <2> HIDE DEF D, pick, Good
  <2>2. SUBSET D \subseteq Good
    BY <1>1, <2>1, SubsetsAll
  <2> QED
    BY <2>2 DEF Good
<1> HIDE DEF done
<1>14. /\ done.left \in 0..o.remaining /\ done.account \in Portfolio
       /\ \A got \in Nat : Kept(e.account, got) => Kept(done.account, got + (o.remaining - done.left))
  BY <1>3, <1>13 DEF A, Purse, Pays
<1> QED
  BY <1>2, <1>14

\* What rests at a level and the queue an order joins are quantities.
LEMMA QueueTypes ==
  ASSUME NEW book \in Book, NEW o \in Flight
  PROVE  /\ Resting(book, BookSide(o.side), o.price) \in Nat
         /\ QueueAhead(book, o) \in Nat
         /\ QueuePosition => QueueAhead(book, o) = Resting(book, BookSide(o.side), o.price)
<1>1. book.levels \in [Level -> 0..MaxQty] /\ MaxQty \in Nat
  BY LevelAssumption DEF Book, Quantities
<1>2. Resting(book, BookSide(o.side), o.price) \in Nat
  BY <1>1 DEF Resting
<1> QED
  BY <1>2 DEF QueueAhead

\* The past of an order that becomes active, and of one that was executed.
Joined(p, ahead) == [p EXCEPT !.ahead = ahead]
Got(p, got) == [p EXCEPT !.got = got]

LEMMA JoinedPast ==
  ASSUME NEW p \in Past, NEW n \in Nat
  PROVE  /\ Joined(p, n) \in Past /\ Joined(p, n).order = p.order /\ Joined(p, n).got = p.got
         /\ Joined(p, n).traded = p.traded /\ Joined(p, n).ahead = n
         /\ Got(p, n) \in Past /\ Got(p, n).order = p.order /\ Got(p, n).got = n
BY DEF Past, Joined, Got

\* The order in flight once it is active.
Activated(o, ahead) == [o EXCEPT !.active = TRUE, !.queueAhead = ahead]

LEMMA ActivatedFlight ==
  ASSUME NEW o \in Flight, NEW n \in Nat
  PROVE  LET v == Activated(o, n)
         IN  /\ v \in Flight /\ v.id = o.id /\ v.side = o.side /\ v.type = o.type /\ v.price = o.price
             /\ v.remaining = o.remaining /\ v.active /\ v.queueAhead = n
BY DEF Flight, Activated

\* ActivateOne, when a limit order is due: d is c with the order active.
Joins(c, o, n, d) ==
  /\ d \in Engine /\ Len(d.history) = Len(c.history)
  /\ d.account = c.account /\ d.cancelled = c.cancelled /\ d.filled = c.filled /\ d.unfilled = c.unfilled
  /\ d.working = Append(c.working, Activated(o, IF QueuePosition THEN n ELSE 0))
  /\ d.history = Amended(c.history, o.id, Joined(c.history[o.id], n))

LEMMA JoinParts ==
  ASSUME NEW c \in Engine, NEW book \in Book, NEW now, NEW o \in Flight, o.id \in 1..Len(c.history),
         ~(o.active \/ now < o.activeAt), o.type # "market"
  PROVE  \E n \in Nat : Joins(c, o, n, ActivateOne(c, book, now, o))
<1> DEFINE n == Resting(book, BookSide(o.side), o.price)
           d == ActivateOne(c, book, now, o)
           ahead == IF QueuePosition THEN n ELSE 0
           flights == Append(c.working, Activated(o, ahead))
           pasts == Amended(c.history, o.id, Joined(c.history[o.id], n))
<1>1. n \in Nat /\ ahead \in Nat /\ QueueAhead(book, o) = ahead
  BY QueueTypes DEF QueueAhead
<1>2. d = [c EXCEPT !.working = Append(@, [o EXCEPT !.active = TRUE, !.queueAhead = QueueAhead(book, o)]),
                    !.history = [@ EXCEPT ![o.id].ahead = n]]
  BY Zenon DEF ActivateOne
<1> HIDE DEF n, d, ahead
<1>3. /\ Append(c.working, [o EXCEPT !.active = TRUE, !.queueAhead = QueueAhead(book, o)]) = flights
      /\ [c.history EXCEPT ![o.id].ahead = n] = pasts
  <2>1. Append(c.working, [o EXCEPT !.active = TRUE, !.queueAhead = QueueAhead(book, o)]) = flights
    BY <1>1 DEF Activated
  <2>2. [c.history EXCEPT ![o.id].ahead = n] = pasts
    BY Zenon DEF Amended, Joined
  <2> QED
    BY <2>1, <2>2
<1>4. d = [c EXCEPT !.working = flights, !.history = pasts]
  <2> HIDE DEF flights, pasts
  <2> QED
    BY <1>2, <1>3, Zenon
<1>5. flights \in Seq(Flight)
  <2>1. Activated(o, ahead) \in Flight /\ c.working \in Seq(Flight)
    BY <1>1, ActivatedFlight, EngineParts
  <2> QED
    BY <2>1, AppendProperties
<1>6. pasts \in Seq(Past) /\ Len(pasts) = Len(c.history)
  <2>1. c.history \in Seq(Past) /\ c.history[o.id] \in Past
    BY EngineParts, PastTypes
  <2>2. Joined(c.history[o.id], n) \in Past
    BY <1>1, <2>1, JoinedPast
  <2> QED
    BY <2>1, <2>2, ExceptSeq DEF Amended
<1> HIDE DEF flights, pasts
<1>7. /\ d \in Engine /\ d.account = c.account /\ d.cancelled = c.cancelled /\ d.filled = c.filled
      /\ d.unfilled = c.unfilled /\ d.working = flights /\ d.history = pasts
  BY <1>4, <1>5, <1>6 DEF Engine
<1>8. Joins(c, o, n, d)
  BY <1>6, <1>7 DEF Joins, flights, pasts, ahead
<1> QED
  BY <1>1, <1>8 DEF d

\* ActivateOne, when a market order is due: d is c without what was left of it.
Executes(c, o, left, a, d) ==
  /\ left \in 0..o.remaining /\ a \in Portfolio
  /\ \A got \in Nat : Kept(c.account, got) => Kept(a, got + (o.remaining - left))
  /\ d \in Engine /\ Len(d.history) = Len(c.history)
  /\ d.account = a /\ d.cancelled = c.cancelled /\ d.working = c.working
  /\ d.filled = c.filled + (IF left = 0 THEN 1 ELSE 0) /\ d.unfilled = c.unfilled + left
  /\ d.history = Amended(c.history, o.id, Got(c.history[o.id], o.remaining - left))

LEMMA ExecuteParts ==
  ASSUME NEW c \in Engine, NEW book \in Book, NEW o \in Flight, o.id \in 1..Len(c.history)
  PROVE  \E left, a : Executes(c, o, left, a, ExecuteMarket(c, book, o))
<1> DEFINE d == ExecuteMarket(c, book, o)
<1>1. PICK left \in 0..o.remaining, a \in Portfolio :
        /\ \A got \in Nat : Kept(c.account, got) => Kept(a, got + (o.remaining - left))
        /\ Ended(c, o, left, a, d)
  BY MarketKeeps
<1> HIDE DEF d
<1> DEFINE fills == c.filled + (IF left = 0 THEN 1 ELSE 0)
           short == c.unfilled + left
           pasts == Amended(c.history, o.id, Got(c.history[o.id], o.remaining - left))
<1>2. o.remaining \in Nat /\ left \in Nat /\ o.remaining - left \in Nat
  <2>1. o.remaining \in Nat
    BY DEF Flight
  <2> QED
    BY <2>1
<1>3. fills \in Nat /\ short \in Nat
  BY <1>2, EngineParts
<1>4. d = [c EXCEPT !.account = a, !.filled = fills, !.unfilled = short, !.history = pasts]
  BY <1>1, Zenon DEF Ended, Amended, Got
<1>5. pasts \in Seq(Past) /\ Len(pasts) = Len(c.history)
  <2>1. c.history \in Seq(Past) /\ c.history[o.id] \in Past
    BY EngineParts, PastTypes
  <2>2. Got(c.history[o.id], o.remaining - left) \in Past
    BY <1>2, <2>1, JoinedPast
  <2> QED
    BY <2>1, <2>2, ExceptSeq DEF Amended
<1> HIDE DEF fills, short, pasts
<1>6. /\ d \in Engine /\ d.account = a /\ d.cancelled = c.cancelled /\ d.filled = fills
      /\ d.unfilled = short /\ d.working = c.working /\ d.history = pasts
  BY <1>3, <1>4, <1>5 DEF Engine
<1>7. Executes(c, o, left, a, d)
  BY <1>1, <1>5, <1>6 DEF Executes, fills, short, pasts
<1> QED
  BY <1>7 DEF d

\* ActivateOne keeps an engine one, with as many orders.
LEMMA ActivateTypes ==
  ASSUME NEW c \in Engine, NEW book \in Book, NEW now, NEW o \in Flight, o.id \in 1..Len(c.history)
  PROVE  /\ ActivateOne(c, book, now, o) \in Engine
         /\ Len(ActivateOne(c, book, now, o).history) = Len(c.history)
<1>1. CASE o.active \/ now < o.activeAt
  <2>1. ActivateOne(c, book, now, o) = [c EXCEPT !.working = Append(c.working, o)]
    BY <1>1 DEF ActivateOne
  <2>2. Append(c.working, o) \in Seq(Flight)
    BY EngineParts, AppendProperties
  <2> QED
    BY <2>1, <2>2 DEF Engine
<1>2. CASE ~(o.active \/ now < o.activeAt) /\ o.type = "market"
  <2>1. ActivateOne(c, book, now, o) = ExecuteMarket(c, book, o)
    BY <1>2 DEF ActivateOne
  <2> QED
    BY <2>1, ExecuteParts DEF Executes
<1>3. CASE ~(o.active \/ now < o.activeAt) /\ o.type # "market"
  BY <1>3, JoinParts DEF Joins
<1> QED
  BY <1>1, <1>2, <1>3

\* ActivateOne keeps the walk in order.
LEMMA ActivateWalks ==
  ASSUME NEW e \in Engine, Orderly(e), NEW k \in 1..Len(e.working), NEW c, Walked(e, c, k - 1),
         NEW book \in Book, NEW now
  PROVE  Walked(e, ActivateOne(c, book, now, e.working[k]), k)
<1> DEFINE o == e.working[k]
           q == e.history[o.id]
           d == ActivateOne(c, book, now, o)
<1>1. /\ o \in Flight /\ o.id \in 1..Len(e.history) /\ c.history[o.id] = q /\ q \in Past /\ Fair(q)
      /\ InFlight(o, q)
  BY WalkTurn
<1>2. c \in Engine /\ Len(c.history) = Len(e.history) /\ Kept(c.account, Total(Gotten(c.history)))
  BY DEF Walked
<1>3. CASE o.active \/ now < o.activeAt
  <2>1. d = [c EXCEPT !.working = Append(@, o)]
    BY <1>3 DEF ActivateOne
  <2> QED
    BY <2>1, WalkPasses
<1> HIDE DEF o, q, d
<1>4. /\ o.side = q.order.side /\ o.type = q.order.type /\ o.price = q.order.price
      /\ o.remaining > 0 /\ o.remaining = q.order.qty - q.got
      /\ ~o.active => q.got = 0 /\ q.traded = 0
  BY <1>1 DEF InFlight
<1>5. /\ q.got \in Nat /\ q.order.qty \in Nat /\ o.remaining \in Nat /\ o.type \in {"limit", "market"}
      /\ Total(Gotten(c.history)) \in Nat /\ c.account \in Portfolio
  BY <1>1, <1>2, EngineParts, PastTypes DEF Past, LobOrder, Flight
<1>6. CASE ~(o.active \/ now < o.activeAt) /\ o.type = "market"
  <2>1. d = ExecuteMarket(c, book, o)
    BY <1>6 DEF ActivateOne, d
  <2>2. PICK left, a : Executes(c, o, left, a, d)
    BY <1>1, <1>2, <2>1, ExecuteParts
  <2> DEFINE hit == o.remaining - left
             p == Got(q, hit)
  <2>3. /\ left \in Nat /\ hit \in Nat /\ a \in Portfolio /\ hit <= o.remaining /\ left = o.remaining - hit
        /\ Kept(a, Total(Gotten(c.history)) + hit)
        /\ d \in Engine /\ d.account = a /\ d.cancelled = c.cancelled /\ d.working = c.working
        /\ d.filled = c.filled + (IF left = 0 THEN 1 ELSE 0) /\ d.unfilled = c.unfilled + left
        /\ d.history = [c.history EXCEPT ![o.id] = p]
    BY <1>1, <1>2, <1>5, <2>2 DEF Executes, Amended
  <2> HIDE DEF hit
  <2>4. p \in Past /\ p.order = q.order /\ p.got = hit
    BY <1>1, <2>3, JoinedPast
  <2> HIDE DEF p
  <2>5. Fair(p) /\ p.got = q.got + hit
    <3>1. q.got = 0
      BY <1>4, <1>6
    <3>2. p.got = q.got + hit /\ p.got <= p.order.qty
      BY <1>4, <1>5, <2>3, <2>4, <3>1
    <3>3. p.order.type # "limit"
      BY <1>4, <1>6, <2>4
    <3> QED
      BY <3>2, <3>3 DEF Fair
  <2>6. Turns(e, k, c, d, p, hit, a)
    BY <2>3, <2>4, <2>5 DEF Turns, o, q
  <2>7. left = e.working[k].remaining - hit
    BY <2>3 DEF o
  <2>8. Walked(e, d, k)
    BY <2>3, <2>6, <2>7, WalkDrops
  <2> QED
    BY <2>8 DEF d, o
<1>7. CASE ~(o.active \/ now < o.activeAt) /\ o.type # "market"
  <2>1. PICK n \in Nat : Joins(c, o, n, d)
    BY <1>1, <1>2, <1>7, JoinParts DEF d
  <2> DEFINE ahead == IF QueuePosition THEN n ELSE 0
             v == Activated(o, ahead)
             p == Joined(q, n)
  <2>2. ahead \in Nat
    OBVIOUS
  <2>3. /\ v \in Flight /\ v.id = o.id /\ v.side = o.side /\ v.type = o.type /\ v.price = o.price
        /\ v.remaining = o.remaining /\ v.active /\ v.queueAhead = ahead
    <3> HIDE DEF ahead
    <3> QED
      BY <1>1, <2>2, ActivatedFlight
  <2>4. p \in Past /\ p.order = q.order /\ p.got = q.got /\ p.traded = q.traded /\ p.ahead = n
    BY <1>1, JoinedPast
  <2>5. /\ d \in Engine /\ d.account = c.account /\ d.cancelled = c.cancelled
        /\ d.working = Append(c.working, v) /\ d.filled = c.filled /\ d.unfilled = c.unfilled
        /\ d.history = [c.history EXCEPT ![o.id] = p]
    BY <1>1, <2>1 DEF Joins, Amended
  <2> HIDE DEF v, p
  <2>6. Fair(p)
    BY <1>1, <1>4, <1>7, <2>4 DEF Fair
  <2>7. InFlight(v, p)
    BY <1>4, <1>5, <1>7, <2>3, <2>4 DEF InFlight
  <2>8. Turns(e, k, c, d, p, 0, c.account)
    <3>1. q.got = q.got + 0 /\ Total(Gotten(c.history)) + 0 = Total(Gotten(c.history))
      BY <1>5
    <3>2. Kept(c.account, Total(Gotten(c.history)) + 0)
      BY <1>2, <3>1
    <3>3. p.order = e.history[e.working[k].id].order /\ p.got = e.history[e.working[k].id].got + 0
      BY <2>4, <3>1 DEF o, q
    <3>4. d.history = [c.history EXCEPT ![e.working[k].id] = p]
      BY <2>5 DEF o
    <3> QED
      BY <1>5, <2>4, <2>5, <2>6, <3>2, <3>3, <3>4 DEF Turns
  <2>9. v.id = e.working[k].id
    BY <2>3 DEF o
  <2>10. Walked(e, d, k)
    BY <2>3, <2>5, <2>7, <2>8, <2>9, WalkKeeps
  <2> QED
    BY <2>10 DEF d, o
<1> QED
  BY <1>3, <1>6, <1>7 DEF d, o

\* f holds what activate makes of the working orders with the indices in a set.
Activating(e, book, now, f) ==
  f = [S \in SUBSET (DOMAIN e.working) |->
         IF S = {} THEN [e EXCEPT !.working = <<>>]
         ELSE ActivateOne(f[S \ {Max(S)}], book, now, e.working[Max(S)])]

\* activate keeps the engine in order.
LEMMA ActivateKeeps ==
  ASSUME NEW e \in Engine, Orderly(e), NEW book \in Book, NEW now
  PROVE  Activate(e, book, now) \in Engine /\ Orderly(Activate(e, book, now))
<1> DEFINE n == Len(e.working)
           base == [e EXCEPT !.working = <<>>]
           A == {c \in Engine : Len(c.history) = Len(e.history)}
           step == [p \in A \X (1..n) |-> ActivateOne(p[1], book, now, e.working[p[2]])]
           iter == CHOOSE f : Activating(e, book, now, f)
           reach == [k \in 0..n |-> {c \in A : Walked(e, c, k)}]
<1>1. n \in Nat /\ DOMAIN e.working = 1..n /\ \A k \in 1..n : e.working[k] \in Flight
  BY EngineParts, FlightTypes
<1>2. Activate(e, book, now) = iter[DOMAIN e.working]
  BY DEF Activate, FoldLeft, MapThenFoldSet, Activating
<1>3. base \in A /\ Walked(e, base, 0)
  <2>1. base \in Engine /\ Walked(e, base, 0)
    BY WalkStarts
  <2> HIDE DEF base
  <2> QED
    BY <2>1 DEF Walked
<1>4. \A k \in 1..n : e.working[k].id \in 1..Len(e.history)
  BY DEF Orderly
<1>5. ASSUME NEW c \in A, NEW k \in 1..n
      PROVE  /\ ActivateOne(c, book, now, e.working[k]) \in A
             /\ step[<<c, k>>] = ActivateOne(c, book, now, e.working[k])
             /\ Walked(e, c, k - 1) => Walked(e, ActivateOne(c, book, now, e.working[k]), k)
  <2>1. ActivateOne(c, book, now, e.working[k]) \in A
    BY <1>1, <1>4, ActivateTypes
  <2>2. Walked(e, c, k - 1) => Walked(e, ActivateOne(c, book, now, e.working[k]), k)
    BY ActivateWalks
  <2> QED
    BY <2>1, <2>2
<1> HIDE DEF n, base, A
<1>6. step \in [A \X (1..n) -> A]
  BY <1>5
<1> HIDE DEF step
<1>7. \E f : Activating(e, book, now, f)
  <2>1. Picks(1..n, Largest(n)) /\ IsFiniteSet(1..n)
    BY <1>1, LastPicks
  <2>2. PICK f \in [SUBSET (1..n) -> A] : IsFold(1..n, base, Largest(n), step, f)
    BY <1>3, <1>6, <2>1, FoldsExist
  <2>3. ASSUME NEW S \in SUBSET (1..n), S # {}
        PROVE  f[S] = ActivateOne(f[S \ {Max(S)}], book, now, e.working[Max(S)])
    <3>1. Largest(n)[S] = Max(S) /\ Max(S) \in 1..n /\ f[S \ {Max(S)}] \in A
      BY <2>1, <2>3 DEF Picks, Largest
    <3>2. f[S] = step[<<f[S \ {Max(S)}], Max(S)>>]
      BY <2>2, <2>3, <3>1 DEF IsFold
    <3> QED
      BY <1>5, <3>1, <3>2
  <2>4. f[{}] = base
    BY <2>2 DEF IsFold
  <2> DEFINE value(S) == IF S = {} THEN [e EXCEPT !.working = <<>>]
                         ELSE ActivateOne(f[S \ {Max(S)}], book, now, e.working[Max(S)])
  <2>5. \A S \in SUBSET (1..n) : f[S] = value(S)
    BY <2>3, <2>4 DEF base
  <2>6. Activating(e, book, now, f) <=> f = [S \in SUBSET (1..n) |-> value(S)]
    BY <1>1 DEF Activating
  <2> HIDE DEF value
  <2> QED
    BY <2>2, <2>5, <2>6
<1>8. Activating(e, book, now, iter)
  BY <1>7
<1> HIDE DEF iter
<1>9. FoldsAs(1..n, A, base, Largest(n), step, iter)
  <2>1. Picks(1..n, Largest(n))
    BY <1>1, LastPicks
  <2>2. iter[{}] = base
    BY <1>1, <1>8 DEF Activating, base
  <2>3. ASSUME NEW S \in SUBSET (1..n), S # {}, iter[S \ {Largest(n)[S]}] \in A
        PROVE  iter[S] = step[<<iter[S \ {Largest(n)[S]}], Largest(n)[S]>>]
    <3>1. Largest(n)[S] = Max(S) /\ Max(S) \in 1..n
      BY <2>1, <2>3 DEF Picks, Largest
    <3>2. iter[S] = ActivateOne(iter[S \ {Max(S)}], book, now, e.working[Max(S)])
      BY <1>1, <1>8, <2>3 DEF Activating
    <3> QED
      BY <1>5, <2>3, <3>1, <3>2
  <2> QED
    BY <2>2, <2>3 DEF FoldsAs
<1>10. Advances(n, A, base, step, reach)
  <2>1. ASSUME NEW k \in 1..n, NEW c \in reach[k - 1]
        PROVE  step[<<c, k>>] \in reach[k]
    <3>1. k - 1 \in 0..n /\ k \in 0..n
      BY <1>1
    <3>2. c \in A /\ Walked(e, c, k - 1)
      BY <3>1
    <3> QED
      BY <1>5, <3>1, <3>2
  <2>2. base \in reach[0]
    BY <1>1, <1>3
  <2>3. \A k \in 0..n : reach[k] \subseteq A
    OBVIOUS
  <2> HIDE DEF reach
  <2> QED
    BY <2>1, <2>2, <2>3 DEF Advances
<1>11. iter[1..n] \in reach[n]
  <2> HIDE DEF reach
  <2> QED
    BY <1>1, <1>9, <1>10, FoldArrives
<1>12. Walked(e, iter[1..n], n)
  BY <1>1, <1>11
<1> QED
  BY <1>1, <1>2, <1>12, WalkEnds DEF n

-----------------------------------------------------------------------------
(* cancelAll, submit, the book *)

\* cancelAll: nothing is in flight any more.
LEMMA CancelAllKeeps ==
  ASSUME NEW e \in Engine, Orderly(e)
  PROVE  CancelAll(e) \in Engine /\ Orderly(CancelAll(e))
<1> DEFINE d == CancelAll(e)
           dropped == e.cancelled + Len(e.working)
<1>1. /\ e.working \in Seq(Flight) /\ e.history \in Seq(Past) /\ Len(e.working) \in Nat
      /\ e.cancelled \in Nat /\ e.unfilled \in Nat /\ Total(Gotten(e.history)) \in Nat
  BY EngineParts, PastTypes
<1>2. dropped \in Nat /\ (dropped = 0 => e.cancelled = 0 /\ Len(e.working) = 0)
  BY <1>1
<1>3. d = [e EXCEPT !.cancelled = dropped, !.working = <<>>]
  BY DEF CancelAll
<1> HIDE DEF d, dropped
<1>4. /\ d \in Engine /\ d.working = <<>> /\ Len(d.working) = 0 /\ d.history = e.history
      /\ d.cancelled = dropped /\ d.filled = e.filled /\ d.unfilled = e.unfilled
      /\ d.account = e.account
  BY <1>2, <1>3, EmptySeq DEF Engine
<1>5. Wanted(d.working) = <<>> /\ Total(Wanted(d.working)) = 0
  BY <1>4, TotalEmpty DEF Wanted
<1>6. Len(e.working) = 0 => Total(Wanted(e.working)) = 0
  BY TotalEmpty DEF Wanted
<1>7. d.cancelled = 0 =>
        Total(Ordered(d.history)) = Total(Gotten(d.history)) + Total(Wanted(d.working)) + d.unfilled
  BY <1>1, <1>2, <1>4, <1>5, <1>6 DEF Orderly
<1>8. /\ \A i \in 1..Len(d.history) : Fair(d.history[i])
      /\ d.filled = Cardinality(Complete(d.history)) /\ Kept(d.account, Total(Gotten(d.history)))
  BY <1>4 DEF Orderly
<1> QED
  BY <1>4, <1>7, <1>8 DEF Orderly, d

\* The flight and the past an order starts with.
Started(o, id, at) == [id |-> id, side |-> o.side, type |-> o.type, price |-> o.price, remaining |-> o.qty,
                       active |-> FALSE, activeAt |-> at, queueAhead |-> 0]
Fresh(o) == [order |-> o, ahead |-> 0, traded |-> 0, got |-> 0]

LEMMA StartTypes ==
  ASSUME NEW o \in LobOrder, NEW id \in Nat, NEW at \in Nat
  PROVE  /\ Started(o, id, at) \in Flight /\ Started(o, id, at).id = id
         /\ Started(o, id, at).remaining = o.qty /\ Fresh(o) \in Past
         /\ Fresh(o).order = o /\ Fresh(o).got = 0
         /\ InFlight(Started(o, id, at), Fresh(o)) /\ Fair(Fresh(o)) /\ o.qty \in Nat /\ o.qty > 0
<1>1. /\ o.side \in {"buy", "sell"} /\ o.type \in {"limit", "market"} /\ o.price \in Nat
      /\ o.qty \in Nat /\ o.qty > 0
  BY DEF LobOrder
<1>2. Started(o, id, at) \in Flight /\ Started(o, id, at).id = id /\ Started(o, id, at).remaining = o.qty
  BY <1>1 DEF Started, Flight
<1>3. Fresh(o) \in Past /\ Fresh(o).order = o /\ Fresh(o).got = 0
  BY DEF Fresh, Past
<1> QED
  BY <1>1, <1>2, <1>3 DEF InFlight, Fair, Started, Fresh

\* SubmitOne: an order more is in flight.
LEMMA SubmitOneKeeps ==
  ASSUME NEW c \in Engine, NEW o \in LobOrder, NEW now \in Nat
  PROVE  SubmitOne(c, o, now) \in Engine /\ (Orderly(c) => Orderly(SubmitOne(c, o, now)))
<1> DEFINE d == SubmitOne(c, o, now)
<1>1. PICK n \in Nat, m \in Nat :
        /\ n = Len(c.history) /\ c.history \in Seq(Past)
        /\ m = Len(c.working) /\ c.working \in Seq(Flight)
  BY EngineParts
<1>2. PICK f \in Flight, p \in Past :
        /\ f = Started(o, n + 1, now + Latency) /\ p = Fresh(o)
        /\ f.id = n + 1 /\ f.remaining = o.qty /\ p.order = o /\ p.got = 0
        /\ InFlight(f, p) /\ Fair(p) /\ o.qty \in Nat /\ o.qty > 0
  <2>1. now + Latency \in Nat /\ n + 1 \in Nat
    BY ReplayAssumption
  <2> QED
    BY <2>1, StartTypes
<1> DEFINE w == Append(c.working, f)
           h == Append(c.history, p)
<1>3. d = [c EXCEPT !.working = w, !.history = h]
  BY <1>1, <1>2 DEF SubmitOne, Started, Fresh
<1>4. /\ w \in Seq(Flight) /\ Len(w) = m + 1 /\ w[m + 1] = f /\ \A j \in 1..m : w[j] = c.working[j]
      /\ h \in Seq(Past) /\ Len(h) = n + 1 /\ h[n + 1] = p /\ \A i \in 1..n : h[i] = c.history[i]
  BY <1>1, AppendProperties
<1>5. Total(Wanted(w)) = Total(Wanted(c.working)) + o.qty
  BY <1>1, <1>2, WantedAppend
<1> HIDE DEF d, w, h
<1>6. /\ d \in Engine /\ d.working = w /\ d.history = h /\ d.cancelled = c.cancelled
      /\ d.filled = c.filled /\ d.unfilled = c.unfilled /\ d.account = c.account
  BY <1>3, <1>4 DEF Engine
<1>7. /\ Total(Ordered(h)) = Total(Ordered(c.history)) + o.qty
      /\ Total(Gotten(h)) = Total(Gotten(c.history))
  <2>1. /\ Ordered(c.history) \in Seq(Int) /\ Len(Ordered(c.history)) = n
        /\ Gotten(c.history) \in Seq(Int) /\ Len(Gotten(c.history)) = n
        /\ Ordered(h) \in Seq(Int) /\ Len(Ordered(h)) = n + 1
        /\ Gotten(h) \in Seq(Int) /\ Len(Gotten(h)) = n + 1
        /\ Total(Gotten(c.history)) \in Nat
    BY <1>1, <1>4, PastTypes, TotalNat
  <2>2. /\ \A i \in 1..n : Ordered(h)[i] = Ordered(c.history)[i] /\ Gotten(h)[i] = Gotten(c.history)[i]
        /\ Ordered(h)[n + 1] = o.qty /\ Gotten(h)[n + 1] = 0
    BY <1>1, <1>2, <1>4 DEF Ordered, Gotten
  <2>3. Total(Ordered(h)) = Total(Ordered(c.history)) + Ordered(h)[n + 1]
    BY <2>1, <2>2, TotalAppend
  <2>4. Total(Gotten(h)) = Total(Gotten(c.history)) + Gotten(h)[n + 1]
    BY <2>1, <2>2, TotalAppend
  <2> QED
    BY <2>1, <2>2, <2>3, <2>4
<1>8. ASSUME Orderly(c)
      PROVE  Orderly(d)
  <2>1. /\ \A j \in 1..m :
             c.working[j].id \in 1..n /\ InFlight(c.working[j], c.history[c.working[j].id])
        /\ \A i, j \in 1..m : c.working[i].id = c.working[j].id => i = j
        /\ \A i \in 1..n : Fair(c.history[i])
        /\ c.filled = Cardinality(Complete(c.history))
        /\ c.cancelled = 0 =>
             Total(Ordered(c.history)) = Total(Gotten(c.history)) + Total(Wanted(c.working)) + c.unfilled
        /\ Kept(c.account, Total(Gotten(c.history)))
    BY <1>1, <1>8 DEF Orderly
  <2>2. \A j \in 1..(m + 1) : w[j].id \in 1..(n + 1) /\ InFlight(w[j], h[w[j].id])
    <3> SUFFICES ASSUME NEW j \in 1..(m + 1)
                 PROVE  w[j].id \in 1..(n + 1) /\ InFlight(w[j], h[w[j].id])
      OBVIOUS
    <3>1. CASE j \in 1..m
      <4>1. w[j] = c.working[j] /\ w[j].id \in 1..n /\ InFlight(w[j], c.history[w[j].id])
        BY <1>4, <2>1, <3>1
      <4>2. h[w[j].id] = c.history[w[j].id]
        BY <1>4, <4>1
      <4> QED
        BY <4>1, <4>2
    <3>2. CASE j = m + 1
      BY <1>2, <1>4, <3>2
    <3> QED
      BY <3>1, <3>2
  <2>3. \A i, j \in 1..(m + 1) : w[i].id = w[j].id => i = j
    <3> SUFFICES ASSUME NEW i \in 1..(m + 1), NEW j \in 1..(m + 1), w[i].id = w[j].id
                 PROVE  i = j
      OBVIOUS
    <3>1. \A x \in 1..m : w[x].id \in 1..n /\ w[x] = c.working[x]
      BY <1>4, <2>1
    <3>2. w[m + 1].id = n + 1 /\ n + 1 \notin 1..n
      BY <1>2, <1>4
    <3>3. (i \in 1..m \/ i = m + 1) /\ (j \in 1..m \/ j = m + 1)
      OBVIOUS
    <3> QED
      BY <2>1, <3>1, <3>2, <3>3
  <2>4. \A i \in 1..(n + 1) : Fair(h[i])
    <3> SUFFICES ASSUME NEW i \in 1..(n + 1)
                 PROVE  Fair(h[i])
      OBVIOUS
    <3>1. i \in 1..n \/ i = n + 1
      OBVIOUS
    <3> QED
      BY <1>2, <1>4, <2>1, <3>1
  <2>5. Complete(h) = Complete(c.history)
    <3>1. \A i \in 1..(n + 1) : i \in 1..n \/ i = n + 1
      OBVIOUS
    <3>2. h[n + 1].got # h[n + 1].order.qty
      BY <1>2, <1>4
    <3>3. 1..n \subseteq 1..(n + 1)
      OBVIOUS
    <3> QED
      BY <1>1, <1>4, <3>1, <3>2, <3>3 DEF Complete
  <2>6. d.cancelled = 0 =>
          Total(Ordered(d.history)) = Total(Gotten(d.history)) + Total(Wanted(d.working)) + d.unfilled
    <3>1. Total(Gotten(c.history)) \in Nat /\ Total(Wanted(c.working)) \in Nat /\ c.unfilled \in Nat
      BY <1>1, EngineParts, PastTypes, FlightTypes
    <3> QED
      BY <1>2, <1>5, <1>6, <1>7, <2>1, <3>1
  <2> QED
    BY <1>4, <1>6, <1>7, <2>1, <2>2, <2>3, <2>4, <2>5, <2>6 DEF Orderly
<1> QED
  BY <1>6, <1>8 DEF d

\* f holds what submit makes of the placed orders with the indices in a set.
Submitting(e, placing, now, f) ==
  f = [S \in SUBSET (DOMAIN placing) |->
         IF S = {} THEN e ELSE SubmitOne(f[S \ {Max(S)}], placing[Max(S)], now)]

\* submit keeps the engine in order.
LEMMA SubmitKeeps ==
  ASSUME NEW e \in Engine, Orderly(e), NEW placing \in Seq(LobOrder), NEW now \in Nat
  PROVE  Submit(e, placing, now) \in Engine /\ Orderly(Submit(e, placing, now))
<1> DEFINE n == Len(placing)
           A == Engine
           step == [p \in A \X (1..n) |-> SubmitOne(p[1], placing[p[2]], now)]
           iter == CHOOSE f : Submitting(e, placing, now, f)
           reach == [k \in 0..n |-> {c \in A : Orderly(c)}]
<1>1. n \in Nat /\ DOMAIN placing = 1..n /\ \A k \in 1..n : placing[k] \in LobOrder
  BY LenProperties, ElementOfSeq
<1>2. Submit(e, placing, now) = iter[DOMAIN placing]
  BY DEF Submit, FoldLeft, MapThenFoldSet, Submitting
<1>3. ASSUME NEW c \in A, NEW k \in 1..n
      PROVE  /\ SubmitOne(c, placing[k], now) \in A
             /\ step[<<c, k>>] = SubmitOne(c, placing[k], now)
             /\ Orderly(c) => Orderly(SubmitOne(c, placing[k], now))
  <2>1. SubmitOne(c, placing[k], now) \in A /\ (Orderly(c) => Orderly(SubmitOne(c, placing[k], now)))
    BY <1>1, SubmitOneKeeps
  <2> QED
    BY <2>1
<1>4. e \in A
  OBVIOUS
<1> HIDE DEF n, A
<1>5. step \in [A \X (1..n) -> A]
  BY <1>3
<1> HIDE DEF step
<1>6. \E f : Submitting(e, placing, now, f)
  <2>1. Picks(1..n, Largest(n)) /\ IsFiniteSet(1..n)
    BY <1>1, LastPicks
  <2>2. PICK f \in [SUBSET (1..n) -> A] : IsFold(1..n, e, Largest(n), step, f)
    BY <1>4, <1>5, <2>1, FoldsExist
  <2>3. ASSUME NEW S \in SUBSET (1..n), S # {}
        PROVE  f[S] = SubmitOne(f[S \ {Max(S)}], placing[Max(S)], now)
    <3>1. Largest(n)[S] = Max(S) /\ Max(S) \in 1..n /\ f[S \ {Max(S)}] \in A
      BY <2>1, <2>3 DEF Picks, Largest
    <3>2. f[S] = step[<<f[S \ {Max(S)}], Max(S)>>]
      BY <2>2, <2>3, <3>1 DEF IsFold
    <3> QED
      BY <1>3, <3>1, <3>2
  <2>4. f[{}] = e
    BY <2>2 DEF IsFold
  <2> DEFINE value(S) == IF S = {} THEN e ELSE SubmitOne(f[S \ {Max(S)}], placing[Max(S)], now)
  <2>5. \A S \in SUBSET (1..n) : f[S] = value(S)
    BY <2>3, <2>4
  <2>6. Submitting(e, placing, now, f) <=> f = [S \in SUBSET (1..n) |-> value(S)]
    BY <1>1 DEF Submitting
  <2> HIDE DEF value
  <2> QED
    BY <2>2, <2>5, <2>6
<1>7. Submitting(e, placing, now, iter)
  BY <1>6
<1> HIDE DEF iter
<1>8. FoldsAs(1..n, A, e, Largest(n), step, iter)
  <2>1. Picks(1..n, Largest(n))
    BY <1>1, LastPicks
  <2>2. iter[{}] = e
    BY <1>1, <1>7 DEF Submitting
  <2>3. ASSUME NEW S \in SUBSET (1..n), S # {}, iter[S \ {Largest(n)[S]}] \in A
        PROVE  iter[S] = step[<<iter[S \ {Largest(n)[S]}], Largest(n)[S]>>]
    <3>1. Largest(n)[S] = Max(S) /\ Max(S) \in 1..n
      BY <2>1, <2>3 DEF Picks, Largest
    <3>2. iter[S] = SubmitOne(iter[S \ {Max(S)}], placing[Max(S)], now)
      BY <1>1, <1>7, <2>3 DEF Submitting
    <3> QED
      BY <1>3, <2>3, <3>1, <3>2
  <2> QED
    BY <2>2, <2>3 DEF FoldsAs
<1>9. Advances(n, A, e, step, reach)
  <2>1. ASSUME NEW k \in 1..n, NEW c \in reach[k - 1]
        PROVE  step[<<c, k>>] \in reach[k]
    <3>1. k - 1 \in 0..n /\ k \in 0..n
      BY <1>1
    <3>2. c \in A /\ Orderly(c)
      BY <3>1
    <3> QED
      BY <1>3, <3>1, <3>2
  <2>2. e \in reach[0]
    BY <1>1, <1>4
  <2>3. \A k \in 0..n : reach[k] \subseteq A
    OBVIOUS
  <2> HIDE DEF reach
  <2> QED
    BY <2>1, <2>2, <2>3 DEF Advances
<1>10. iter[1..n] \in reach[n]
  <2> HIDE DEF reach
  <2> QED
    BY <1>1, <1>8, <1>9, FoldArrives
<1>11. iter[1..n] \in A /\ Orderly(iter[1..n])
  BY <1>1, <1>10
<1> QED
  BY <1>1, <1>2, <1>11 DEF A

\* Applying a row keeps a book one.
LEMMA BookKept ==
  ASSUME NEW book \in Book, NEW row \in Event
  PROVE  Apply(book, row) \in Book
<1>1. book.levels \in [Level -> 0..MaxQty] /\ book.inSnapshot \in BOOLEAN
  BY DEF Book, Quantities
<1>2. NoLevels \in [Level -> 0..MaxQty] /\ EmptyBook \in Book
  <2>1. 0 \in 0..MaxQty
    BY LevelAssumption
  <2> QED
    BY <2>1 DEF NoLevels, EmptyBook, Book, Quantities
<1>3. /\ row.kind \in {"snapshot", "level", "gap", "trade"}
      /\ row.kind \in {"snapshot", "level"} => row.qty \in 0..MaxQty
  BY ReplayAssumption
<1>4. \A levels \in [Level -> 0..MaxQty] : row.kind \in {"snapshot", "level"} =>
        SetLevel(levels, row) \in [Level -> 0..MaxQty]
  BY <1>3 DEF SetLevel
<1>5. CASE row.kind = "snapshot"
  <2>1. SetLevel(IF book.inSnapshot THEN book.levels ELSE NoLevels, row) \in [Level -> 0..MaxQty]
    BY <1>1, <1>2, <1>4, <1>5
  <2>2. Apply(book, row) = [levels |-> SetLevel(IF book.inSnapshot THEN book.levels ELSE NoLevels, row),
                            inSnapshot |-> TRUE]
    BY <1>5 DEF Apply, ApplySnapshot
  <2> QED
    BY <2>1, <2>2 DEF Book, Quantities
<1>6. CASE row.kind = "level"
  <2>1. Apply(book, row) = [levels |-> SetLevel(book.levels, row), inSnapshot |-> FALSE]
    BY <1>6 DEF Apply, ApplyLevel
  <2>2. SetLevel(book.levels, row) \in [Level -> 0..MaxQty]
    BY <1>1, <1>4, <1>6
  <2> QED
    BY <2>1, <2>2 DEF Book, Quantities
<1>7. CASE row.kind = "gap"
  BY <1>2, <1>7 DEF Apply, ApplyGap
<1>8. CASE row.kind = "trade"
  <2>1. Apply(book, row) = [book EXCEPT !.inSnapshot = FALSE]
    BY <1>8 DEF Apply, ApplyTrade
  <2> QED
    BY <2>1 DEF Book
<1> QED
  BY <1>3, <1>5, <1>6, <1>7, <1>8

-----------------------------------------------------------------------------
(* The replay *)

\* A replayed event keeps the engine in order.
LEMMA StepKeeps ==
  ASSUME ReplayInv, NEW ev \in Event, NEW placing \in Seq(LobOrder), Step(ev, placing)
  PROVE  lob' \in Book /\ Now' \in Engine /\ Orderly(Now')
<1> DEFINE now == events + 1
           book == Apply(lob, ev)
           e0 == [working |-> working, account |-> account, filled |-> filled, unfilled |-> unfilled,
                  cancelled |-> cancelled, history |-> history]
           e1 == IF ev.kind = "gap" THEN CancelAll(e0) ELSE e0
           e2 == Activate(e1, book, now)
           e3 == IF ev.kind = "trade" THEN OnTrade(e2, ev) ELSE e2
           e4 == Submit(e3, placing, now)
           e5 == Activate(e4, book, now)
<1>1. /\ lob' = book /\ working' = e5.working /\ account' = e5.account /\ filled' = e5.filled
      /\ unfilled' = e5.unfilled /\ cancelled' = e5.cancelled /\ history' = e5.history
  BY Zenon DEF Step
<1>2. book \in Book /\ now \in Nat
  BY BookKept DEF ReplayInv
<1>3. e0 \in Engine /\ Orderly(e0)
  BY DEF ReplayInv, Now
<1> HIDE DEF e0, book, now
<1>4. e1 \in Engine /\ Orderly(e1)
  BY <1>3, CancelAllKeeps
<1> HIDE DEF e1
<1>5. e2 \in Engine /\ Orderly(e2)
  BY <1>2, <1>4, ActivateKeeps
<1> HIDE DEF e2
<1>6. e3 \in Engine /\ Orderly(e3)
  <2>1. ev.kind = "trade" => ev \in TradeRow
    BY ReplayAssumption DEF TradeRow
  <2> QED
    BY <1>5, <2>1, OnTradeKeeps
<1> HIDE DEF e3
<1>7. e4 \in Engine /\ Orderly(e4)
  BY <1>2, <1>6, SubmitKeeps
<1> HIDE DEF e4
<1>8. e5 \in Engine /\ Orderly(e5)
  BY <1>2, <1>7, ActivateKeeps
<1> HIDE DEF e5
<1>9. Now' = e5
  <2>1. e5 = [working |-> e5.working, account |-> e5.account, filled |-> e5.filled, unfilled |-> e5.unfilled,
              cancelled |-> e5.cancelled, history |-> e5.history]
    BY <1>8 DEF Engine
  <2> QED
    BY <1>1, <2>1 DEF Now
<1> QED
  BY <1>1, <1>2, <1>8, <1>9

\* A replay starts with nothing placed.
LEMMA ReplayStarts == LobInit => ReplayInv
<1> SUFFICES ASSUME LobInit
             PROVE  ReplayInv
  OBVIOUS
<1>1. lob \in Book
  BY LevelAssumption DEF LobInit, EmptyBook, NoLevels, Book, Quantities
<1>2. NewAccount \in Portfolio
  BY DEF NewAccount, Portfolio
<1>3. Now \in Engine /\ Now.working = <<>> /\ Now.history = <<>> /\ Now.filled = 0 /\ Now.unfilled = 0
      /\ Now.account = NewAccount
  BY <1>2, EmptySeq DEF LobInit, Now, Engine
<1>4. Len(Now.working) = 0 /\ Len(Now.history) = 0 /\ 1..0 = {}
  BY <1>3, EmptySeq
<1>5. /\ Ordered(Now.history) = <<>> /\ Gotten(Now.history) = <<>> /\ Wanted(Now.working) = <<>>
      /\ Complete(Now.history) = {}
  BY <1>3, <1>4 DEF Ordered, Gotten, Wanted, Complete
<1>6. Total(<<>>) = 0 /\ Cardinality({}) = 0
  BY TotalEmpty, FS_EmptySet
<1>7. Kept(NewAccount, 0)
  BY DEF Kept, NewAccount, Abs
<1>8. Orderly(Now)
  <2>1. 1..Len(Now.working) = {} /\ 1..Len(Now.history) = {}
    BY <1>4
  <2>2. Now.filled = Cardinality(Complete(Now.history))
    BY <1>3, <1>5, <1>6
  <2>3. Total(Ordered(Now.history)) = Total(Gotten(Now.history)) + Total(Wanted(Now.working)) + Now.unfilled
    BY <1>3, <1>5, <1>6
  <2>4. Kept(Now.account, Total(Gotten(Now.history)))
    BY <1>3, <1>5, <1>6, <1>7
  <2> QED
    BY <2>1, <2>2, <2>3, <2>4 DEF Orderly
<1> QED
  BY <1>1, <1>3, <1>8 DEF LobInit, ReplayInv

\* Every replayed event leaves a book, and an engine in order.
THEOREM ReplayInvariance == LobSpec => []ReplayInv
<1>1. LobInit => ReplayInv
  BY ReplayStarts
<1>2. ReplayInv /\ [LobNext]_lobVars => ReplayInv'
  <2> SUFFICES ASSUME ReplayInv, [LobNext]_lobVars
               PROVE  ReplayInv'
    OBVIOUS
  <2>1. CASE LobNext
    <3>1. PICK ev \in Event :
            \/ SkipDuplicate(ev)
            \/ Step(ev, <<>>)
            \/ \E o \in ReplayOrder : placed < MaxPlaced /\ Step(ev, <<o>>)
      BY <2>1 DEF LobNext
    <3>2. events' \in Nat
      BY <2>1 DEF LobNext, ReplayInv
    <3>3. CASE SkipDuplicate(ev)
      <4>1. lob' \in Book
        BY <3>3, BookKept DEF SkipDuplicate, ReplayInv
      <4>2. Now' = Now
        BY <3>3 DEF SkipDuplicate, Now
      <4> QED
        BY <3>2, <4>1, <4>2 DEF ReplayInv
    <3>4. ASSUME NEW placing \in Seq(LobOrder), Step(ev, placing)
          PROVE  ReplayInv'
      <4>1. lob' \in Book /\ Now' \in Engine /\ Orderly(Now')
        BY <3>4, StepKeeps
      <4> QED
        BY <3>2, <4>1 DEF ReplayInv
    <3>5. <<>> \in Seq(LobOrder)
      BY EmptySeq
    <3>6. ASSUME NEW o \in ReplayOrder
          PROVE  <<o>> \in Seq(LobOrder)
      BY ReplayAssumption DEF LobOrder
    <3> QED
      BY <3>1, <3>3, <3>4, <3>5, <3>6
  <2>2. CASE UNCHANGED lobVars
    <3>1. Now' = Now /\ lob' = lob /\ events' = events
      BY <2>2 DEF lobVars, Now
    <3> QED
      BY <3>1 DEF ReplayInv
  <2> QED
    BY <2>1, <2>2
<1> QED
  BY <1>1, <1>2, PTL DEF LobSpec

\* Run, step and result of a replay: the fills could have happened, the counts say what became of
\* the orders, and trips, fees and cash tell of the same fills.
THEOREM ReplayIsHonest == LobSpec => []HonestReplay
<1>1. ReplayInv => HonestReplay
  <2> SUFFICES ASSUME ReplayInv
               PROVE  HonestReplay
    OBVIOUS
  <2>1. /\ \A i \in 1..Len(history) : Fair(history[i])
        /\ filled = Cardinality(Complete(history))
        /\ cancelled = 0 =>
             Total(Ordered(history)) = Total(Gotten(history)) + Total(Wanted(working)) + unfilled
        /\ Kept(account, Total(Gotten(history)))
    BY DEF ReplayInv, Orderly, Now
  <2>2. HonestFills
    BY <2>1 DEF HonestFills, Fair, Complete, Ordered, Gotten, Wanted
  <2>3. TripsMatchCash
    BY <2>1 DEF TripsMatchCash, Kept, Gotten
  <2> QED
    BY <2>2, <2>3 DEF HonestReplay
<1> QED
  BY <1>1, ReplayInvariance, PTL
=============================================================================
