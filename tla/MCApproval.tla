----------------------------- MODULE MCApproval -----------------------------
(* Approval.tla for TLC: tools, quotes and a short history to replay. *)
EXTENDS Approval

CONSTANTS s1

Req(side, type, qty, price) ==
  [side |-> side, type |-> type, qty |-> qty, price |-> price, symbol |-> s1, cid |-> NoId]
MCRequests == {Req("buy", "limit", 2, 2)}
MCQuotes == {[symbol |-> s1, last |-> 2, bid |-> 2, ask |-> a] : a \in {2, 3}}

MCTools == {[name |-> "place", order |-> Req("buy", "limit", 2, 2), budget |-> 0],
            [name |-> "start", order |-> Req("buy", "limit", 2, 2), budget |-> 50000],
            [name |-> "other", order |-> Req("buy", "limit", 2, 2), budget |-> 0],
            [name |-> "stop", order |-> Req("buy", "limit", 2, 2), budget |-> 0]}

\* The second bar of the day opens and closes lower than the first.
MCBars == <<[open |-> 2, close |-> 2, day |-> 1], [open |-> 2, close |-> 1, day |-> 1]>>
=============================================================================
