SPECIFICATION Spec
CONSTANTS
  Locals = {a}
  Remotes = {r}
  Broadcast = Broadcast
  Nobody = Nobody
  MaxMac = 2
  MaxIgnored = 2
  Known = {a, r}
  ReplaceWait = 0
  RoomWait = 1
  MaxBuffer = 1
  MaxCaptures = 2
  MaxMonitors = 1
  Budgets <- RelayBudgets
  Prompt = FALSE
INVARIANTS TypeOK NoLoop OncePerLink EntriesByRace
CHECK_DEADLOCK FALSE
