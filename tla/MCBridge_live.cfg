SPECIFICATION FairSpec
CONSTANTS
  Locals = {a, b}
  Remotes = {}
  Broadcast = Broadcast
  Nobody = Nobody
  MaxMac = 2
  MaxIgnored = 2
  Known = {a, b}
  ReplaceWait = 0
  RoomWait = 1
  MaxBuffer = 1
  MaxCaptures = 1
  MaxMonitors = 1
  Budgets <- OneCommand
  Prompt = TRUE
PROPERTIES LocalIsTunnelled
CHECK_DEADLOCK FALSE
