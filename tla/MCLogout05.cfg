SPECIFICATION FairSpec
CONSTANTS
  MaxConnections = 2
  Budgets <- OneLine
PROPERTIES LogoutEnds
CHECK_DEADLOCK FALSE
