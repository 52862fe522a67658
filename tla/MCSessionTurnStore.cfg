SPECIFICATION Spec
CONSTANTS
  Workers = {w1, w2}
  Inbound = {m1, m2}
  BotPosts = {b1}
  StoreMode = TRUE
  Cards = TRUE
  MaxRounds = 1
  MaxCalls = 1
  CompactAt = 99
  Keep = 3
  MaxDisturbances = 1
INVARIANTS
  NoSteerStranded
  AcceptedOnce
SYMMETRY Symmetry
CHECK_DEADLOCK FALSE
