----------------------------- MODULE MCCronExpr -----------------------------
(* A small calendar for CronExpr: minutes of three seconds, hours of three  *)
(* minutes, days of two hours, weeks of two days, and three months of      *)
(* three, two and three days.  Years 2, 4, 9 and 11 are leap years, so that *)
(* once, as around a century, none comes within the years of a search.       *)
EXTENDS CronExpr

MonthLength(n) ==
  IF n % 3 # 1 THEN 3 ELSE IF n \div 3 \in {2, 4, 9, 11} THEN 3 ELSE 2

SmallCalendar ==
  LET first[n \in 0..EndMonth] == IF n = 0 THEN 0 ELSE first[n - 1] + MonthLength(n - 1)
  IN  [n \in 0..EndMonth |-> first[n]]

\* Per field the texts: all, a value, a step, a list and a range; an empty range
\* and a value out of range.
SecTexts  == {{Star}, {Value(1)}, {Every(Star, 2)}}
MinTexts  == {{Star}, {Value(2)}, {Every(Value(1), 1)}}
HourTexts == {{Star}, {Value(1)}, {Value(2)}, {Between(1, 0), Value(0)}}
MdayTexts == {{Star}, {Value(3)}, {Between(2, 3)}, {Value(1)}}
MonTexts  == {{Star}, {Value(2)}, {Value(1), Value(3)}}
WdayTexts == {{Star}, {Value(2)}, {Value(1)}}

AllTexts ==
  [sec : SecTexts, min : MinTexts, hour : HourTexts, mday : MdayTexts,
   mon : MonTexts, wday : WdayTexts]

\* The first instant, one in the day before the summer, its first day, in it and its last
\* day, two just after it, one in a later year, and the last of the calendar.
SomeStarts ==
  {0, 45, 60, 81, 92, 104, 140, 900, FirstDays[EndMonth] * Hours * Minutes * Seconds - 1}

\* One summer: from hour 1 of the first day of a month to hour 1 of the first day of the
\* next.
SummerFrom(month) ==
  LET change(n) == (FirstDays[n] * Hours + 1) * Minutes * Seconds
  IN  change(month)..(change(month + 1) - 1)

EarlySummer == SummerFrom(1)

OneSummer == SummerFrom(4)

OneHour == Minutes * Seconds

\* Once a day, at the hour.
DailyTexts ==
  [sec : {{Value(0)}}, min : {{Value(0)}}, hour : {{Value(h)} : h \in 0..(Hours - 1)},
   mday : {{Star}}, mon : {{Star}}, wday : {{Star}}]

\* Each hour of the days on which a summer begins or ends and of the days around them.
AroundChanges ==
  {((FirstDays[month] + day) * Hours + hour) * Minutes * Seconds :
     month \in 4..5, day \in -2..1, hour \in 0..(Hours - 1)}
=============================================================================
