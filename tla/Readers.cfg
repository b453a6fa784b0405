SPECIFICATION Spec
CONSTANTS
  Media <- AllMedia
  UDP_MAX_SIZE = 2
  num_bytes = 32
  frame_bytes = 6
  MaxFrames = 6
  MaxBytes = 100
INVARIANTS
  InFileOrder
  MarkersAtEnds
  LittleIsLost
  FrameReturns
CHECK_DEADLOCK FALSE
