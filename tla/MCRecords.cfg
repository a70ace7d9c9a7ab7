\* Three paper orders on two accounts; three price levels, two sessions and a lost link; two orders in a replay;
\* three requests of two callers, one timeout or stray deadline, one recovery; two sessions of a client with two
\* instruments and two orders, and three things that begin.
CONSTANTS
  s1 = s1
  k1 = k1
  Main = main
  SubAccount = {bot}
  Symbol = {s1}
  ClientId = {k1}
  NoId = NoId
  FeeBps = 5
  InitialCash <- MCInitialCash
  Request <- MCRequests
  Quote <- MCQuotes
  Amount <- MCAmounts
  MaxOrders = 3
  Level <- MCLevel
  MaxQty = 1
  MaxChanges = 2
  MaxSessions = 2
  MaxLosses = 1
  Event <- MCEvent
  ReplayOrder <- MCOrder
  Latency = 1
  QueuePosition = TRUE
  ReplayFeeBps = 5000
  MaxEvents = 5
  MaxPlaced = 2
  c1 = c1
  c2 = c2
  Caller = {c1, c2}
  RequestType = {"transact", "main"}
  MaxCalls = 3
  MaxLate = 1
  MaxRestores = 1
  o1 = o1
  o2 = o2
  own = own
  other = other
  foreign = foreign
  Instrument = {i1, i2}
  Feed = {"trades", "quotes"}
  OwnClient = {own, other}
  ClientOrder = {o1, o2}
  Owner <- MCOwner
  Nothing = Nothing
  MaxLogins = 2
  MaxTradeNo = 2
  MaxStatus = 2
  MaxSpent = 3
SPECIFICATION MCSpec
SYMMETRY InstrumentSymmetry
INVARIANTS
  BooksBalance
  ClientIdOnce
  QuoteExhausts
  Rebuilt
  HonestReplay
  ExchangesApart
  FeedsRestored
  TradesOnce
  OrdersCurrent
  OnlyOverlapsMisroute
CHECK_DEADLOCK FALSE
