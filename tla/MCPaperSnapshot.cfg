\* positionsLocked lists a position bought again twice: buy, sell out, buy.
CONSTANTS
  s1 = s1
  k1 = k1
  Main = main
  SubAccount = {bot}
  Symbol = {s1}
  ClientId = {k1}
  NoId = NoId
  FeeBps = 5
  InitialCash <- MCInitialCash
  Request <- MCRequests
  Quote <- MCQuotes
  Amount <- MCAmounts
  MaxOrders = 3
SPECIFICATION Spec
INVARIANTS
  SnapshotListsEachOnce
CHECK_DEADLOCK FALSE
