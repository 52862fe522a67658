SPECIFICATION FairSpec
CONSTANTS
  c1 = c1
  c2 = c2
  c3 = c3
  gw = gw
  Submitters = {gw}
  Chats = {c1, c2}
  MaxTasks = 3
  MaxConcurrent = 1
  ChanCap = 1
  IdleTimeout = 1
  TaskTimeout = 2
  Retain = 1
INVARIANTS
  TypeOK
  SlotsBounded
  NoSendOnClosed
  NoTaskStranded
PROPERTIES
  EveryTaskEnds
CHECK_DEADLOCK FALSE
