CONSTANTS
  MaxSessions = 2
  MaxRecoveries = 0
  QueueSize = 1
  History = {}
SPECIFICATION Spec
INVARIANTS
  NoSendOnClosed
CHECK_DEADLOCK FALSE
