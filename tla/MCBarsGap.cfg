CONSTANTS
  End = 7
  Traded = {1, 2, 3, 4, 5, 6, 7}
  MinCount = 4
  MaxCount = 500
  Queue = 2
  Outages = 1
SPECIFICATION BarsSpec
INVARIANTS
  Backfilled
CHECK_DEADLOCK FALSE
