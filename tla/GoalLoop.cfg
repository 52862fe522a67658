SPECIFICATION FairSpec
CONSTANTS
  Web = TRUE
  Faults = TRUE
  Budget = 2
  Cost = 1
  BusCap = 2
  MaxRounds = 2
  MaxSent = 3
  MaxGoals = 2
INVARIANTS
  TypeOK
  ActiveWithinBudget
PROPERTIES
  ClearedStaysCleared
  StoppedGoalRunsDry
CHECK_DEADLOCK FALSE
