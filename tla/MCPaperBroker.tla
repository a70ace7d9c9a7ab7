--------------------------- MODULE MCPaperBroker ---------------------------
(* PaperBroker.tla for TLC: the requests, quotes and budgets of the runs. *)
EXTENDS PaperLedger

CONSTANTS s1, k1

Req(symbol, side, type, qty, price, cid) ==
  [symbol |-> symbol, side |-> side, type |-> type, qty |-> qty, price |-> price,
   cid |-> cid]

View(symbol, last, bid, ask) == [symbol |-> symbol, last |-> last, bid |-> bid, ask |-> ask]

\* One instrument, so that orders meet: market and limit orders that fill, rest or are refused, a
\* retried key, an invalid quantity.
MCRequests ==
  {Req(s1, "buy", "market", 2, 0, NoId), Req(s1, "buy", "limit", 1, 2, NoId),
   Req(s1, "sell", "market", 1, 0, NoId), Req(s1, "sell", "limit", 2, 2, NoId),
   Req(s1, "buy", "market", 1, 0, k1), Req(s1, "buy", "market", 0, 0, NoId)}
MCQuotes == {View(s1, 2, 0, 0), View(s1, 3, 2, 3), View(s1, 2, 1, 2)}

\* Six units of price: enough for one buy of two, not for two of them, and a
\* budget can be allocated twice before main runs dry.
MCInitialCash == 60000
MCAmounts == {25000}
=============================================================================
