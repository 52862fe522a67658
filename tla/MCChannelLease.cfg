SPECIFICATION FairSpec
CONSTANTS
  g1 = g1
  g2 = g2
  g3 = g3
  p1 = p1
  p2 = p2
  Runners = {g1, g2}
  Replicas = {p1, p2}
  Home <- OneEach
  TTL = 12
  RenewEvery = 4
  RetryEvery = 4
  StopWithin = 2
  Skew = 1
  MaxBoots = 2
  MaxFaults = 2
INVARIANTS
  TypeOK
  SingleClient
PROPERTIES
  LeaseFenced
  Failover
CHECK_DEADLOCK FALSE
