SPECIFICATION Rescheduling
CONSTANTS
  Length <- SmallCalendar
  Horizon = 250
  Lateness <- AnyLateness
  Schedules <- Everything
INVARIANTS
  DailyOnTime
PROPERTIES
  OneRunPerMinute
CHECK_DEADLOCK FALSE
