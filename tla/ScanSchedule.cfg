CONSTANTS
  Schedules = {s1, s2}
  Offers <- DailyAndWeekly
  Limit = 1
  Interval <- DayAndWeek
  Delay = 0
  MaxTime = 3
  Workers = {w1, w2}
SPECIFICATION FairSpec
INVARIANTS
  HeldIsDue
  Spaced
  NextRunFits
PROPERTIES
  ImplementsTimetable
  DueIsEnqueued
  AlertsServed
CHECK_DEADLOCK FALSE
