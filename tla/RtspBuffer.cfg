SPECIFICATION Spec
CONSTANTS
  Messages <- AllMessages
  MaxMessages = 3
  BufferSize = 12
  OutSize = 5
  FrameSize = 2
  Interleaved = 2
  MaxPackets = 2
  Careful = TRUE
INVARIANTS
  HandledAsSent
  WireCarriesOwed
PROPERTIES
  MessagesAreHandled
CHECK_DEADLOCK FALSE
