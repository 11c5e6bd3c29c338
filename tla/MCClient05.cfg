SPECIFICATION FairSpec
CONSTANTS
  MaxConnections = 2
  Budgets <- FewThings
INVARIANTS ConnectedIsServed
PROPERTIES FrameLeaves
CHECK_DEADLOCK FALSE
