\* The subscription of a run that was stopped fails after a restart.
CONSTANTS
  MaxStarts = 2
  MaxBars = 1
  Buffered = 1
  HistoryLimit = 2
SPECIFICATION BotSpec
INVARIANTS
  Controlled
CHECK_DEADLOCK FALSE
