SPECIFICATION Spec
CONSTANTS
  Procs <- MCProcs
  Scenarios <- MCScenarios
  LastDay = 2
  BufSize = 8
  MaxSize = 14
  TestInterval = 2
  RotateCount = 2
INVARIANTS LinesAreWhole RotationKeepsFiles RemovedFilesAreLeft
PROPERTY CallsReturn
CHECK_DEADLOCK FALSE
