SPECIFICATION FairSpec
CONSTANTS
  s1 = s1  s2 = s2  s3 = s3
  m1 = m1  m2 = m2  m3 = m3
  NoSession = NoSession
  N = 2
  Sessions = {s1, s2, s3}
  Media = {m1, m2, m3}
  MediaOf <- PrivateMedia
  Live = {}
  MaxRefs <- Plays
INVARIANTS
  CountIsExact
  NoCrash
  SerialPassIsSafe
PROPERTIES
  EverySessionIsVisited
CHECK_DEADLOCK FALSE
