SPECIFICATION FairSpec
CONSTANTS
  Consumers = {c1, c2}
  NSlots = 2
  OMSBUFF_MEM_PAGE = 1
  Outcomes = {"last", "recall", "empty", "eof"}
  FailsOnNewPage = FALSE
  Ticks = {0, 1}
  MaxSeq = 5
  MaxRefs = 8
INVARIANTS
  RefsExact
  SendsWrittenSlots
PROPERTIES
  ImplementsLog
  EveryPacketIsRead
  UnrefEnds
CHECK_DEADLOCK FALSE
