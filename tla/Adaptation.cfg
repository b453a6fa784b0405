SPECIFICATION Spec
CONSTANTS
  Sessions = {s1, s2}
  MeList <- ThreeRates
  Reports <- ThreeReports
  Interval = 2
  OutMax = 80
  NameLen = 7
  Budgets <- AllBudgets
SYMMETRY Symmetry
INVARIANTS
  BoundsAreReal
  EachReportOnce
  ReadsWhatItWrites
  ByesMatchEnds
PROPERTIES
  MovesWithVerdict
CHECK_DEADLOCK FALSE
