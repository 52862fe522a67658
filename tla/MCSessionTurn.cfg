SPECIFICATION FairSpec
CONSTANTS
  Workers = {w1}
  Inbound = {m1, m2}
  BotPosts = {}
  StoreMode = FALSE
  Cards = FALSE
  MaxRounds = 3
  MaxCalls = 3
  CompactAt = 4
  Keep = 3
  MaxDisturbances = 1
INVARIANTS
  TypeOK
  RoundSteersFolded
  ContextWellFormed
PROPERTIES
  EveryMessageEnds
CHECK_DEADLOCK FALSE
