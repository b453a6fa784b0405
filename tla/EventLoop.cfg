SPECIFICATION Spec
CONSTANTS
  Clients = {c1, c2, c3}
  Null = Null
  Max = 2
  MaxForks = 1
  RTP_DEFAULT_PORT = 5004
INVARIANTS
  ListHoldsOwned
  OneAcceptor
  PortsDisjoint
PROPERTIES
  EveryoneIsAccepted
  ServedUnlessStarved
CHECK_DEADLOCK FALSE
