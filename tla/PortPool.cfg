SPECIFICATION PoolSpec
CONSTANTS
  N = 3
  FirstPort = 5
  Multicast = {m1, m2}
  MulticastPort = 0
INVARIANTS
  NoDoubleUse
  NoPairVanishes
  GetFailsOnlyWhenEmpty
