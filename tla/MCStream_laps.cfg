SPECIFICATION Spec
CONSTANTS
  BufferSize = 8
  WireCapacity = 4
  WholeSegments = TRUE
  Senders = {"ping", "handler"}
  EventThread = "event"
  NoThread = "none"
  LeftStates = {0}
  Payloads <- PlainPayloads
  MaxCommands = 3
  MaxBacklog = 7
  MaxSize = 4
  MayBreak = TRUE
INVARIANTS NothingLost RingDrained BlockedIsWatched
PROPERTIES ImplementsChannel
CHECK_DEADLOCK FALSE
