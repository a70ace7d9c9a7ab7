\* Two callers and two connections; five bar times with an outage; two runs of a bot.
CONSTANTS
  c1 = c1
  c2 = c2
  Caller = {c1, c2}
  Want <- MCWant
  MaxSessions = 2
  End = 5
  Traded = {1, 2, 3, 5}
  MinCount = 1
  MaxCount = 8
  Queue = 1
  Outages = 1
  MaxStarts = 2
  MaxBars = 2
  Buffered = 1
  HistoryLimit = 2
SPECIFICATION MCSpec
INVARIANTS
  ClosedLeavesNothing
  SharedHistory
  InOrderAndComplete
  BarsOnce
  ControlledUntilFailure
PROPERTIES
  FeedAnswers
  CandlesArrive
  StopEnds
CHECK_DEADLOCK FALSE
