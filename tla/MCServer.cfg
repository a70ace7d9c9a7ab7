\* Two response streams with room for one message.
CONSTANTS
  h1 = h1
  h2 = h2
  Handler = {h1, h2}
  Buffer = 1
  MaxPublished = 3
  ServerPublishes = 2
SPECIFICATION MCSpec
INVARIANTS
  ContiguousRun
  HonestStatus
  ClosedConnectorClosedBroker
PROPERTIES
  ImplementsFanOut
  StreamsEnd
CHECK_DEADLOCK FALSE
