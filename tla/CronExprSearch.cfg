SPECIFICATION Spec
CONSTANTS
  Seconds = 3
  Minutes = 3
  Hours = 2
  WeekDays = 2
  Months = 3
  LongestMonth = 3
  LastYear = 12
  FirstDays <- SmallCalendar
  Summer <- EarlySummer
  SummerShift <- OneHour
  SearchDays = 9
  SearchYears = 2
  Texts <- AllTexts
  Starts <- SomeStarts
  LastStart = 130
INVARIANTS AnswerMatches LaterAndMatches FirstMinute FirstInstant GivesUpLate
PROPERTIES CallsMoveForward
CHECK_DEADLOCK FALSE
