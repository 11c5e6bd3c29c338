SPECIFICATION FairSpec
CONSTANTS
  MaxConnections = 2
  Courses <- LossesOrCommands
INVARIANTS ConnectedIsServed
PROPERTIES LoopReconnects CommandsReturn
CHECK_DEADLOCK FALSE
