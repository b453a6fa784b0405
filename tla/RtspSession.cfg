SPECIFICATION Spec
CONSTANTS
  Files = {"video", "enhancement"}
  Priority1 = {"video"}
  MaxStreams = 3
  MaxChannel = 3
INVARIANTS
  ScheduledAreListed
  PauseSticks
PROPERTIES
  AutoChannelIsFree
CHECK_DEADLOCK FALSE
