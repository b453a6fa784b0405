SPECIFICATION Spec
CONSTANTS
  Consumers = {c1, c2, c3}
  NSlots = 2
  OMSBUFF_MEM_PAGE = 1
  Outcomes = {"last"}
  FailsOnNewPage = FALSE
  Ticks = {1}
  MaxSeq = 7
  MaxRefs = 8
PROPERTIES
  ReadInOrder
CHECK_DEADLOCK FALSE
