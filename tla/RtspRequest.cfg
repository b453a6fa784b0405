SPECIFICATION RequestSpec
CONSTANTS
  Files = {"video"}
  Priority1 = {"video"}
  MaxStreams = 2
  MaxChannel = 3
  Ids = {1, 2}
  Requests <- MCRequests
  Pipelined <- MCPipelined
PROPERTIES
  AnswersAreTrue
CHECK_DEADLOCK FALSE
