SPECIFICATION FairSpec
CONSTANTS
  BufferSize = 6
  WireCapacity = 2
  WholeSegments = TRUE
  Senders = {"ping", "handler"}
  EventThread = "event"
  NoThread = "none"
  LeftStates <- AnyState
  Payloads <- OnePayload
  MaxCommands = 3
  MaxBacklog = 5
  MaxSize = 4
  MayBreak = FALSE
PROPERTIES CommandsArrive
CHECK_DEADLOCK FALSE
