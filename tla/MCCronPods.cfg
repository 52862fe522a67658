SPECIFICATION Spec
CONSTANTS
  j1 = j1
  j2 = j2
  Pods = {p1, p2}
  Jobs = {j1, j2}
  Kind <- Mixed
  Direct = {j2}
  Period = 2
  LockTTL = 2
  Idle = 2
  Prompt = TRUE
  MaxCrashes = 0
  MaxFaults = 0
  MaxToggles = 0
INVARIANTS
  WorksAlone
PROPERTIES
  OnceFiresOnce
CHECK_DEADLOCK FALSE
