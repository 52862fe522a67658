SPECIFICATION Spec
CONSTANTS
  c1 = c1
  c2 = c2
  c3 = c3
  gw = gw
  Submitters = {gw}
  Chats = {c1, c2}
  MaxTasks = 4
  MaxConcurrent = 2
  ChanCap = 2
  IdleTimeout = 1
  TaskTimeout = 1
  Retain = 2
INVARIANTS
  SerialPerChat
PROPERTIES
  ImplementsChatSerial
CHECK_DEADLOCK FALSE
