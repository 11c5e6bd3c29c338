SPECIFICATION FairSpec
CONSTANTS
  NumSessions = 3
  MaxConnections = 3
  Ssids = {"plaza", "hall"}
  NoSsid = "none"
  Macs = {"psp1", "psp2"}
  Broadcast = "ff"
  TableSize = 1
  Courses <- RelayOrLists
INVARIANTS SendersInOrder NothingMissed KeptInGroup MacsOwned
PROPERTIES ListsConverge
CHECK_DEADLOCK FALSE
