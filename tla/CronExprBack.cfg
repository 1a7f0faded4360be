SPECIFICATION Spec
CONSTANTS
  Seconds = 2
  Minutes = 2
  Hours = 4
  WeekDays = 2
  Months = 3
  LongestMonth = 3
  LastYear = 12
  FirstDays <- SmallCalendar
  Summer <- OneSummer
  SummerShift <- OneHour
  SearchDays = 9
  SearchYears = 2
  Texts <- DailyTexts
  Starts <- AroundChanges
  LastStart = 185
INVARIANTS NextIsLater
CHECK_DEADLOCK FALSE
