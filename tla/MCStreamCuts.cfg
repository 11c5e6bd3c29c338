SPECIFICATION CutsSpec
CONSTANTS
  BufferSize = 12
  WireCapacity = 3
  WholeSegments = FALSE
  Senders = {"ping", "handler"}
  EventThread = "event"
  NoThread = "none"
  LeftStates = {0}
  Payloads <- AllPayloads
  MaxCommands = 3
  MaxBacklog = 11
  MaxSize = 6
  MayBreak = TRUE
INVARIANTS NoInternalErrorIfPlain ExecutedInOrder ScanEnds
PROPERTIES ChannelIfPlain BytesInOrder
CHECK_DEADLOCK FALSE
