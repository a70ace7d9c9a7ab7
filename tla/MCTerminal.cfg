\* One tab that opens two streams, one request and the event loop; two goroutines, three chats and two dialogs of which
\* one is kept.
CONSTANTS
  b1 = b1
  r1 = r1
  Browser = {b1}
  Ordering = {r1}
  HubBuffer = 1
  MaxAccount = 2
  MaxStreams = 2
  Talker = {t1, t2}
  Dialog = {d1, d2}
  MaxIterations = 1
  MaxFanOut = 2
  LRUSize = 1
  MaxTurns = 2
  MaxMessages = 9
  MaxChats = 3
SPECIFICATION MCSpec
INVARIANTS
  OrdersReachClients
  DialogsWhole
PROPERTIES
  PortfolioConverges
  TerminalExits
  ChatsEnd
CHECK_DEADLOCK FALSE
