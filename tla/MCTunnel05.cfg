SPECIFICATION FairSpec
CONSTANTS
  c1 = c1
  c2 = c2
  c3 = c3
  a = a
  b = b
  NumSessions = 2
  Clients = {c1, c2, c3}
  PSPs = {a, b}
  Near <- NearThem
  Broadcast = Broadcast
  MaxMac = 1
  MaxIgnored = 2
  NoFrame = NoFrame
  NoCommand = NoCommand
  MaxConnections = 3
  Budgets <- FewThings
INVARIANTS NoLoop EchoOnlyByReconnect UnicastToOwner
PROPERTIES AskedIsAnswered
CHECK_DEADLOCK FALSE
