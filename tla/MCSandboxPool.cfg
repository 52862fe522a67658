SPECIFICATION FairSpec
CONSTANTS
  Callers = {c1, c2}
  Sweeper = sweeper
  IdleTTL = 0
  MaxBoxes = 2
  MaxCalls = 2
  MaxWrites = 1
  MaxFaults = 1
  MaxExpired = 1
  Size <- Grows
  InProject = FALSE
INVARIANTS
  TypeOK
  SeesPastCalls
  NoneLeaks
PROPERTIES
  IdleReclaimed
CHECK_DEADLOCK FALSE
