SPECIFICATION Spec
CONSTANTS
  Seconds = 3
  Minutes = 3
  Hours = 2
  WeekDays = 2
  Months = 3
  LongestMonth = 3
  LastYear = 12
  FirstDays <- SmallCalendar
  Summer = {}
  SummerShift = 0
  SearchDays = 9
  SearchYears = 2
  Texts <- AllTexts
  Starts <- SomeStarts
  LastStart = 60
INVARIANTS NextIsFirst
CHECK_DEADLOCK FALSE
