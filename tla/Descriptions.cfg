SPECIFICATION Spec
CONSTANTS
  Names = {n1, n2}
  Files = {"a", "b"}
  Sessions = {"s1"}
  Contents <- FiveContents
  MaxLookups = 3
  MaxEdits = 1
  Missing = Missing
SYMMETRY NameSymmetry
INVARIANTS
  CacheIsAList
  SessionsStayKnown
  DescribesTheFile
CHECK_DEADLOCK FALSE
