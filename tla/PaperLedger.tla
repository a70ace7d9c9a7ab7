----------------------------- MODULE PaperLedger -----------------------------
(***************************************************************************)
(* What PaperBroker's accounts owe to its trade log: sums over trades and  *)
(* positions, and the positions a Snapshot lists.                          *)
(***************************************************************************)
EXTENDS PaperBroker, Sums, FiniteSetsExt

\* The quantity of s that account a traded on one side.
TradedQty(a, s, side) ==
  LET mine(t) == t.account = a /\ t.symbol = s /\ t.side = side
  IN  Total([t \in 1..Len(trades) |-> IF mine(trades[t]) THEN trades[t].qty ELSE 0])

\* A position is what was bought less what was sold: no fill is applied twice,
\* lost, or booked on another account.
PositionsMatchTrades ==
  \A a \in Account, s \in Symbol :
    accounts[a].positions[s].qty = TradedQty(a, s, "buy") - TradedQty(a, s, "sell")

\* What the open positions of an account cost at their average prices.
CostBasis(acc) ==
  FoldSet(LAMBDA s, sum : Add(sum, Times(acc.positions[s].qty, acc.positions[s].avg)),
          <<0, 1>>, Symbol)

\* Money is conserved on every account: what it was funded with plus its
\* realized profit is its cash, the fees it paid and the cost of what it holds
\* (executeLocked changes four fields, and Allocate two accounts, to keep it).
AccountsBalance ==
  \A a \in Account :
    LET acc == accounts[a]
        funded == (IF a = Main THEN InitialCash ELSE 0) + allocated[a]
    IN  Equal(Add(<<acc.cash + acc.fees - funded, 1>>, Times(Unit, CostBasis(acc))),
              Times(Unit, acc.realized))

\* The accounts agree with the trade log in quantities and in money, the log
\* with the orders, and no account is overdrawn.
BooksBalance == PositionsMatchTrades /\ AccountsBalance /\ FilledOnce /\ Solvent

\* positionsLocked: the entries of posOrder that are open, in that order.
Listed(acc) == SelectSeq(acc.posOrder, LAMBDA s : acc.positions[s].qty > 0)

\* "positionsLocked copies the open positions of one account": each of them
\* once.
SnapshotListsEachOnce ==
  \A a \in opened : \A j, k \in 1..Len(Listed(accounts[a])) :
    Listed(accounts[a])[j] = Listed(accounts[a])[k] => j = k
=============================================================================
