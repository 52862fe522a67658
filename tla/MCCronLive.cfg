SPECIFICATION FairSpec
CONSTANTS
  j1 = j1
  j2 = j2
  Pods = {p1}
  Jobs = {j1}
  Kind <- Repeats
  Direct = {}
  Period = 2
  LockTTL = 2
  Idle = 3
  Prompt = FALSE
  MaxCrashes = 1
  MaxFaults = 2
  MaxToggles = 1
INVARIANTS
  TypeOK
  SleepsUntilDue
PROPERTIES
  FiresWhenDue
  ReapedAfterMisses
  DueJobServed
CHECK_DEADLOCK FALSE
