CONSTANTS
  g1 = g1
  MaxSessions = 2
  MaxRecoveries = 1
  QueueSize = 1
  History = {g1}
  Chan = {"portfolio", "quotes"}
  Portfolio = "portfolio"
  ChannelBuffer = 1
  MaxMessages = 3
SPECIFICATION MCSpec
INVARIANTS
  SessionsApart
  SilentAfterClose
  Delivered
  OneClient
PROPERTIES
  ConnectorAnswers
  StreamGoesOn
  SupervisorGoesOn
CHECK_DEADLOCK FALSE
