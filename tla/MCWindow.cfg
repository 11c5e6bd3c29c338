SPECIFICATION WindowSpec
CONSTANTS
  a = a
  b = b
  c = c
  MaxUsers = 2
  Users = {a, b, c}
  Nobody = Nobody
  Lists <- ArenaLists
  MaxChanges = 4
  MaxDisconnects = 1
  historyMax = 3
  Texts = {a, b, c, d, none}
  NoText = none
  NULL = NULL
INVARIANTS FirstIsActive ViewFollows
PROPERTIES ImplementsRoster PspRowsSettle KeptUnlessTemp TypedComesBack
CHECK_DEADLOCK FALSE
