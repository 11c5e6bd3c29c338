SPECIFICATION FairSpec
CONSTANTS
  NumSessions = 2
  Listeners = {"ip1"}
  MaxConnections = 3
  Adversities <- OneThing
INVARIANTS NoSocketForgotten ClosesWhatFailed LostByAcceptOnly
PROPERTIES SessionsComeBack NoSessionLeak
CHECK_DEADLOCK FALSE
