\* Two requests at a time, two autonomy runs.
CONSTANTS
  s1 = s1
  Main = main
  AutoAccount = auto
  Asset = s1
  SubAccount = {auto}
  Symbol = {s1}
  ClientId = {}
  NoId = NoId
  FeeBps = 5
  InitialCash = 100000
  Request <- MCRequests
  Quote <- MCQuotes
  Amount = {}
  MaxOrders = 9
  Bars <- MCBars
  MaxRuns = 2
  MaxOrderPct = 60
  MaxPositionPct = 60
  StopLossPct = 5
  TakeProfitPct = 5
  DailyLossPct = 10
  MaxTradesPerHour = 1
  BarsPerHour = 2
  Thread = {t1, t2}
  Tool <- MCTools
  Mode = "envelope"
  MaxOrdersPerRun = 1
  EnvelopePct = 50
  MaxProposals = 1
  MaxCalls = 4
SPECIFICATION ApprovalSpec
INVARIANTS
  ApprovedOnce
  HumanOrEnvelope
  FundedOnce
  RiskStopFlat
PROPERTIES
  KillSwitch
CHECK_DEADLOCK FALSE
