--------------------------- MODULE CronExprProofs ---------------------------
(***************************************************************************)
(* Theorems about the search of cronexpr_next: for every calendar that     *)
(* CalendarAssumption allows, every expression and every date, in a zone   *)
(* without summer time.  With it they do not hold: an answer may be before *)
(* the date (NextIsLater).                                                 *)
(***************************************************************************)
EXTENDS CronExpr, FiniteSetTheorems, WellFoundedInduction, TLAPS

-----------------------------------------------------------------------------
(* Numbers.                                                                *)

\* A set of natural numbers that is not empty has a least element.
LEMMA MinIs ==
  ASSUME NEW S \in SUBSET Nat, S # {}
  PROVE  Min(S) \in S /\ \A i \in S : Min(S) <= i
<1>1. PICK i \in S : \A j \in S : <<j, i>> \notin OpToRel(<, Nat)
  BY NatLessThanWellFounded, WFMin, Zenon
<1>2. \A j \in S : ~(j < i)
  BY <1>1 DEF OpToRel
<1>3. \E k \in S : \A j \in S : k <= j
  BY <1>2
<1> QED
  BY <1>3, Zenon DEF Min

LEMMA MinIn ==
  ASSUME NEW N \in Nat, NEW S \in SUBSET (0..(N - 1)), S # {}
  PROVE  Min(S) \in 0..(N - 1)
<1>1. \A x \in 0..(N - 1) : x \in Nat
  OBVIOUS
<1>2. S \in SUBSET Nat
  BY <1>1, Zenon
<1>3. Min(S) \in S
  BY <1>2, MinIs
<1> QED
  BY <1>3

\* Quotient and remainder.
LEMMA Split ==
  ASSUME NEW x \in Nat, NEW M \in Nat \ {0}
  PROVE  /\ x \div M \in Nat /\ x % M \in 0..(M - 1)
         /\ x = (x \div M) * M + (x % M)
OBVIOUS

\* A larger quotient makes a larger number.
LEMMA Ahead ==
  ASSUME NEW p \in Int, NEW q \in Int, p < q, NEW M \in Nat \ {0}, NEW r \in 0..(M - 1)
  PROVE  /\ p * M + r < q * M
         /\ p * M \in Int /\ q * M \in Int
<1>1. q * M >= (p + 1) * M
  OBVIOUS
<1>2. (p + 1) * M = p * M + M
  OBVIOUS
<1> QED
  BY <1>1, <1>2

\* A quotient and a remainder are those of one number.
LEMMA Join ==
  ASSUME NEW q \in Nat, NEW M \in Nat \ {0}, NEW r \in 0..(M - 1)
  PROVE  /\ q * M + r \in Nat
         /\ (q * M + r) \div M = q /\ (q * M + r) % M = r
<1> DEFINE x == q * M + r
<1>1. x \in Nat
  OBVIOUS
<1>2. /\ x \div M \in Nat /\ x % M \in 0..(M - 1)
      /\ x = (x \div M) * M + (x % M)
  BY <1>1, Split
<1> DEFINE p == x \div M
           s == x % M
<1>3. p * M + s = q * M + r /\ p \in Nat /\ s \in 0..(M - 1)
  BY <1>2
<1> HIDE DEF p, s, x
<1>4. ~(p < q)
  BY <1>3, Ahead
<1>5. ~(q < p)
  BY <1>3, Ahead
<1>6. p = q
  BY <1>3, <1>4, <1>5
<1>7. s = r
  BY <1>3, <1>6
<1> QED
  BY <1>1, <1>6, <1>7 DEF p, s, x

\* The quotient grows with the number.
LEMMA DivMonotone ==
  ASSUME NEW x \in Nat, NEW y \in Nat, x <= y, NEW M \in Nat \ {0}
  PROVE  x \div M <= y \div M
<1>1. /\ x \div M \in Nat /\ x % M \in 0..(M - 1) /\ x = (x \div M) * M + (x % M)
      /\ y \div M \in Nat /\ y % M \in 0..(M - 1) /\ y = (y \div M) * M + (y % M)
  BY Split
<1> DEFINE p == x \div M
           q == y \div M
<1> HIDE DEF p, q
<1>2. ~(q < p)
  BY <1>1, Ahead DEF p, q
<1> QED
  BY <1>1, <1>2 DEF p, q

\* The product of two factors grows with each.
LEMMA Bound ==
  ASSUME NEW x \in Nat, NEW K \in Nat, NEW M \in Nat \ {0}, x < K * M
  PROVE  x \div M < K
<1>1. /\ x \div M \in Nat /\ x % M \in 0..(M - 1)
      /\ x = (x \div M) * M + (x % M)
  BY Split
<1> DEFINE p == x \div M
<1> HIDE DEF p
<1>2. p \in Nat /\ p * M <= x
  BY <1>1 DEF p
<1>3. ~(K < p)
  BY <1>2, Ahead
<1>4. p # K
  BY <1>2
<1> QED
  BY <1>2, <1>3, <1>4 DEF p

-----------------------------------------------------------------------------
(* The calendar.                                                            *)

MinuteOf(t) == t \div Seconds
HourOf(t)   == MinuteOf(t) \div Minutes
DayOf(t)    == HourOf(t) \div Hours
MonthAt(t)  == MonthOfDays[DayOf(t)]

\* The instant of a day, an hour, a minute and a second.
Ins(d, h, m, s) == ((d * Hours + h) * Minutes + m) * Seconds + s

InOr(i) == IF i \in Instants THEN i ELSE Invalid

\* The constants are numbers, and the calendar has a day at least.
LEMMA Constants ==
  /\ Seconds \in Nat \ {0} /\ Minutes \in Nat \ {0} /\ Hours \in Nat \ {0}
  /\ WeekDays \in Nat \ {0} /\ Months \in Nat \ {0} /\ LongestMonth \in Nat \ {0}
  /\ LastYear \in Nat /\ SearchYears \in Nat /\ SearchDays \in Nat
  /\ EndMonth \in Nat \ {0}
  /\ FirstDays \in [0..EndMonth -> Nat] /\ FirstDays[0] = 0
<1>1. /\ Seconds \in Nat \ {0} /\ Minutes \in Nat \ {0} /\ Hours \in Nat \ {0}
      /\ WeekDays \in Nat \ {0} /\ Months \in Nat \ {0} /\ LongestMonth \in Nat \ {0}
  BY CalendarAssumption
<1>2. LastYear \in Nat /\ SearchYears \in Nat /\ SearchDays \in Nat
  BY CalendarAssumption
<1>3. EndMonth \in Nat \ {0}
  <2>1. Months * (LastYear + 1) >= Months
    BY <1>1, <1>2
  <2> QED
    BY <1>1, <1>2, <2>1 DEF EndMonth
<1>4. FirstDays \in [0..EndMonth -> Nat] /\ FirstDays[0] = 0
  BY CalendarAssumption
<1> QED
  BY <1>1, <1>2, <1>3, <1>4

\* A month has its days.
LEMMA MonthLengths ==
  ASSUME NEW n \in 0..(EndMonth - 1)
  PROVE  /\ FirstDays[n] \in Nat /\ FirstDays[n + 1] \in Nat
         /\ DaysIn(n) \in WeekDays..LongestMonth
         /\ DaysIn(n) = FirstDays[n + 1] - FirstDays[n]
         /\ FirstDays[n + 1] >= FirstDays[n] + WeekDays
         /\ FirstDays[n] < FirstDays[n + 1]
<1>1. DaysIn(n) \in WeekDays..LongestMonth
  BY CalendarAssumption
<1>2. FirstDays[n] \in Nat /\ FirstDays[n + 1] \in Nat
  BY Constants
<1> QED
  BY <1>1, <1>2, Constants DEF DaysIn

\* The months follow each other.
LEMMA FirstDaysGrow ==
  ASSUME NEW m \in 0..EndMonth, NEW n \in 0..EndMonth, m < n
  PROVE  FirstDays[m] < FirstDays[n]
<1> DEFINE Bad == {b \in 0..EndMonth : \E a \in 0..(b - 1) : ~(FirstDays[a] < FirstDays[b])}
<1>1. SUFFICES ASSUME Bad # {} PROVE FALSE
  BY <1>1, Constants
<1>2. Bad \in SUBSET Nat
  BY Constants
<1> DEFINE b == Min(Bad)
<1>3. b \in Bad /\ \A i \in Bad : b <= i
  BY <1>1, <1>2, MinIs
<1> HIDE DEF b
<1>4. PICK a \in 0..(b - 1) : ~(FirstDays[a] < FirstDays[b])
  BY <1>3
<1>5. b \in 1..EndMonth /\ b - 1 \in 0..(EndMonth - 1) /\ a \in 0..EndMonth
  BY <1>3, <1>4, Constants
<1>6. FirstDays[b - 1] < FirstDays[b] /\ FirstDays[b - 1] \in Nat /\ FirstDays[b] \in Nat
  <2>1. b - 1 + 1 = b
    BY <1>5
  <2> QED
    BY <1>5, <2>1, MonthLengths
<1>7. FirstDays[a] \in Nat
  BY <1>5, Constants
<1>8. a \in Nat /\ b \in Nat /\ a \in 0..((b - 1) - 1)
  <2>1. a \in Nat /\ b \in Nat /\ a <= b - 1
    BY <1>4, <1>5
  <2>2. a # b - 1
    BY <1>4, <1>6
  <2> QED
    BY <2>1, <2>2
<1>9. b - 1 \notin Bad
  <2>1. ~(b <= b - 1)
    BY <1>8
  <2> QED
    BY <1>3, <2>1
<1>10. FirstDays[a] < FirstDays[b - 1]
  <2>1. b - 1 \in 0..EndMonth
    BY <1>5, Constants
  <2> QED
    BY <1>8, <1>9, <2>1
<1> QED
  BY <1>4, <1>6, <1>7, <1>10

\* Every day is in one month.
LEMMA MonthOfDay ==
  ASSUME NEW day \in Days
  PROVE  /\ MonthOfDays[day] \in 0..(EndMonth - 1)
         /\ FirstDays[MonthOfDays[day]] <= day /\ day < FirstDays[MonthOfDays[day] + 1]
<1> DEFINE Past == {n \in 0..EndMonth : FirstDays[n] > day}
<1>1. day \in Nat /\ FirstDays[EndMonth] \in Nat /\ EndMonth \in Past
  BY Constants DEF Days
<1>2. Past \in SUBSET Nat
  BY Constants
<1> DEFINE n == Min(Past)
<1>3. n \in Past /\ \A i \in Past : n <= i
  BY <1>1, <1>2, MinIs
<1> HIDE DEF n
<1>4. n \in 1..EndMonth /\ FirstDays[n] > day
  BY <1>1, <1>3, Constants
<1>5. n - 1 \notin Past
  BY <1>3, <1>4, Constants
<1>6. n - 1 \in 0..(EndMonth - 1) /\ FirstDays[n - 1] \in Nat /\ n - 1 + 1 = n
  BY <1>4, Constants
<1>7. FirstDays[n - 1] <= day /\ day < FirstDays[n - 1 + 1]
  BY <1>1, <1>4, <1>5, <1>6, Constants
<1> HIDE DEF Past
<1>8. \E i \in 0..(EndMonth - 1) : FirstDays[i] <= day /\ day < FirstDays[i + 1]
  BY <1>6, <1>7
<1> QED
  BY <1>8, Zenon DEF MonthOfDays

\* A day between the first of a month and the first of the next one is in the month.
LEMMA MonthIs ==
  ASSUME NEW n \in 0..(EndMonth - 1), NEW day \in Nat,
         FirstDays[n] <= day, day < FirstDays[n + 1]
  PROVE  day \in Days /\ MonthOfDays[day] = n
<1>1. n + 1 \in 0..EndMonth /\ FirstDays[n + 1] \in Nat /\ FirstDays[EndMonth] \in Nat
  BY Constants
<1>2. n + 1 = EndMonth \/ FirstDays[n + 1] < FirstDays[EndMonth]
  BY <1>1, FirstDaysGrow, Constants
<1>3. day \in Days
  BY <1>1, <1>2 DEF Days
<1> DEFINE k == MonthOfDays[day]
<1>4. k \in 0..(EndMonth - 1) /\ FirstDays[k] <= day /\ day < FirstDays[k + 1]
  BY <1>3, MonthOfDay
<1> HIDE DEF k
<1>5. k + 1 \in 0..EndMonth /\ FirstDays[k + 1] \in Nat /\ FirstDays[k] \in Nat
      /\ FirstDays[n] \in Nat /\ k \in 0..EndMonth /\ n \in 0..EndMonth
  BY <1>4, Constants
<1>6. ~(k + 1 < n) /\ k + 1 # n
  BY <1>4, <1>5, FirstDaysGrow
<1>7. ~(n + 1 < k) /\ n + 1 # k
  BY <1>1, <1>4, <1>5, FirstDaysGrow
<1>8. k = n
  BY <1>5, <1>6, <1>7
<1> QED
  BY <1>3, <1>8 DEF k

\* A later day is in no earlier month.
LEMMA MonthsGrow ==
  ASSUME NEW a \in Days, NEW b \in Days, a <= b
  PROVE  MonthOfDays[a] <= MonthOfDays[b]
<1> DEFINE m == MonthOfDays[a]
           n == MonthOfDays[b]
<1>1. /\ m \in 0..(EndMonth - 1) /\ FirstDays[m] <= a
      /\ n \in 0..(EndMonth - 1) /\ b < FirstDays[n + 1]
  BY MonthOfDay
<1> HIDE DEF m, n
<1>2. /\ FirstDays[m] \in Nat /\ FirstDays[n + 1] \in Nat /\ n + 1 \in 0..EndMonth
      /\ m \in 0..EndMonth /\ a \in Nat /\ b \in Nat
  BY <1>1, Constants DEF Days
<1>3. ~(n + 1 < m) /\ n + 1 # m
  BY <1>1, <1>2, FirstDaysGrow
<1>4. m <= n
  BY <1>1, <1>3, Constants
<1> QED
  BY <1>4 DEF m, n

-----------------------------------------------------------------------------
(* The parts of an instant.                                                 *)

\* The hours, the minutes and the instants of the calendar.
Size == FirstDays[EndMonth]

LEMMA Sizes ==
  /\ Size \in Nat /\ Size * Hours \in Nat /\ Size * Hours * Minutes \in Nat
  /\ Size * Hours * Minutes * Seconds \in Nat
  /\ Days = 0..(Size - 1) /\ Instants = 0..(Size * Hours * Minutes * Seconds - 1)
<1>1. Size \in Nat
  BY Constants DEF Size
<1>2. \A a, b \in Nat : a * b \in Nat
  OBVIOUS
<1>3. Size * Hours \in Nat
  BY <1>1, <1>2, Constants
<1>4. Size * Hours * Minutes \in Nat
  BY <1>2, <1>3, Constants
<1>5. Size * Hours * Minutes * Seconds \in Nat
  BY <1>2, <1>4, Constants
<1> QED
  BY <1>1, <1>3, <1>4, <1>5 DEF Days, Instants, Size

\* An instant is made of its minute and a second, the minute of its hour and a minute,
\* the hour of its day and an hour.
LEMMA Parts ==
  ASSUME NEW t \in Instants
  PROVE  /\ t \in Nat
         /\ MinuteOf(t) \in Nat /\ MinuteOf(t) < Size * Hours * Minutes
         /\ t % Seconds \in 0..(Seconds - 1)
         /\ t = MinuteOf(t) * Seconds + (t % Seconds)
         /\ HourOf(t) \in Nat /\ HourOf(t) < Size * Hours
         /\ MinuteOf(t) % Minutes \in 0..(Minutes - 1)
         /\ MinuteOf(t) = HourOf(t) * Minutes + (MinuteOf(t) % Minutes)
         /\ DayOf(t) \in Days /\ DayOf(t) \in Nat /\ DayOf(t) < Size
         /\ HourOf(t) % Hours \in 0..(Hours - 1)
         /\ HourOf(t) = DayOf(t) * Hours + (HourOf(t) % Hours)
<1>1. t \in Nat /\ t < Size * Hours * Minutes * Seconds
  BY Sizes
<1> DEFINE q == MinuteOf(t)
           p == HourOf(t)
           d == DayOf(t)
<1>2. /\ q \in Nat /\ q < Size * Hours * Minutes /\ t % Seconds \in 0..(Seconds - 1)
      /\ t = q * Seconds + (t % Seconds)
  BY <1>1, Split, Bound, Sizes, Constants DEF MinuteOf
<1> HIDE DEF q
<1>3. /\ p \in Nat /\ p < Size * Hours /\ q % Minutes \in 0..(Minutes - 1)
      /\ q = p * Minutes + (q % Minutes)
  BY <1>2, Split, Bound, Sizes, Constants DEF HourOf, q
<1> HIDE DEF p
<1>4. /\ d \in Nat /\ d < Size /\ p % Hours \in 0..(Hours - 1)
      /\ p = d * Hours + (p % Hours)
  BY <1>3, Split, Bound, Sizes, Constants DEF DayOf, p
<1> HIDE DEF d
<1>5. d \in Days
  BY <1>4, Sizes
<1> QED
  BY <1>1, <1>2, <1>3, <1>4, <1>5 DEF q, p, d

\* The instant of a minute and a second.
LEMMA OfMinute ==
  ASSUME NEW q \in Nat, NEW s \in 0..(Seconds - 1)
  PROVE  /\ q * Seconds + s \in Nat
         /\ q * Seconds + s \in Instants <=> q < Size * Hours * Minutes
         /\ MinuteOf(q * Seconds + s) = q
         /\ (q * Seconds + s) % Seconds = s
<1>1. /\ q * Seconds + s \in Nat
      /\ (q * Seconds + s) \div Seconds = q /\ (q * Seconds + s) % Seconds = s
  BY Join, Constants
<1> DEFINE K == Size * Hours * Minutes
<1>2. K \in Nat /\ K * Seconds \in Nat /\ Instants = 0..(K * Seconds - 1)
  BY Sizes
<1> HIDE DEF K
<1>3. q < K => q * Seconds + s < K * Seconds
  BY <1>2, Ahead, Constants
<1>4. q * Seconds + s < K * Seconds => q < K
  BY <1>1, <1>2, Bound, Constants
<1>5. q * Seconds + s \in Instants <=> q < K
  BY <1>1, <1>2, <1>3, <1>4
<1> QED
  BY <1>1, <1>5 DEF K, MinuteOf

\* The instant of an hour, a minute and a second.
LEMMA OfHour ==
  ASSUME NEW p \in Nat, NEW m \in 0..(Minutes - 1), NEW s \in 0..(Seconds - 1)
  PROVE  LET x == (p * Minutes + m) * Seconds + s
         IN  /\ x \in Nat
             /\ x \in Instants <=> p < Size * Hours
             /\ MinuteOf(x) = p * Minutes + m /\ HourOf(x) = p
             /\ x % Seconds = s /\ MinuteOf(x) % Minutes = m
<1> DEFINE q == p * Minutes + m
<1>1. q \in Nat /\ q \div Minutes = p /\ q % Minutes = m
  BY Join, Constants
<1> DEFINE K == Size * Hours
<1>2. K \in Nat /\ K * Minutes \in Nat
  BY Sizes
<1> HIDE DEF K
<1>3. p < K => q < K * Minutes
  BY <1>2, Ahead, Constants
<1> HIDE DEF q
<1>4. q < K * Minutes => p < K
  BY <1>1, <1>2, Bound, Constants
<1> DEFINE x == q * Seconds + s
<1>5. /\ x \in Nat
      /\ x \in Instants <=> q < K * Minutes
      /\ MinuteOf(x) = q /\ x % Seconds = s
  BY <1>1, OfMinute DEF K
<1> HIDE DEF x
<1>6. HourOf(x) = p /\ MinuteOf(x) % Minutes = m
  BY <1>1, <1>5 DEF HourOf
<1>7. x \in Instants <=> p < K
  BY <1>3, <1>4, <1>5
<1> QED
  BY <1>5, <1>6, <1>7 DEF x, q, K

\* The instant of a day, an hour, a minute and a second.
LEMMA OfDay ==
  ASSUME NEW d \in Nat, NEW h \in 0..(Hours - 1), NEW m \in 0..(Minutes - 1),
         NEW s \in 0..(Seconds - 1)
  PROVE  /\ Ins(d, h, m, s) \in Nat
         /\ Ins(d, h, m, s) \in Instants <=> d \in Days
         /\ DayOf(Ins(d, h, m, s)) = d
         /\ HourOf(Ins(d, h, m, s)) = d * Hours + h
         /\ HourOf(Ins(d, h, m, s)) % Hours = h
         /\ MinuteOf(Ins(d, h, m, s)) = (d * Hours + h) * Minutes + m
         /\ MinuteOf(Ins(d, h, m, s)) % Minutes = m
         /\ Ins(d, h, m, s) % Seconds = s
<1> DEFINE p == d * Hours + h
<1>1. p \in Nat /\ p \div Hours = d /\ p % Hours = h
  BY Join, Constants
<1>2. d < Size => p < Size * Hours
  BY Sizes, Ahead, Constants
<1> HIDE DEF p
<1>3. p < Size * Hours => d < Size
  BY <1>1, Sizes, Bound, Constants
<1> DEFINE x == (p * Minutes + m) * Seconds + s
<1>4. /\ x \in Nat
      /\ x \in Instants <=> p < Size * Hours
      /\ MinuteOf(x) = p * Minutes + m /\ HourOf(x) = p
      /\ x % Seconds = s /\ MinuteOf(x) % Minutes = m
  BY <1>1, OfHour
<1> HIDE DEF x
<1>5. DayOf(x) = d /\ HourOf(x) % Hours = h
  BY <1>1, <1>4 DEF DayOf
<1>6. x \in Instants <=> d \in Days
  BY <1>2, <1>3, <1>4, Sizes
<1>7. x = Ins(d, h, m, s)
  BY DEF x, p, Ins
<1> QED
  BY <1>4, <1>5, <1>6, <1>7 DEF p

-----------------------------------------------------------------------------
(* localtime, mktime and the functions that change the calendar.            *)

\* Without summer time the clock shows the instant.
LEMMA SteadyFields ==
  ASSUME SteadyClock, NEW t
  PROVE  LocalTime(t) = [sec |-> t % Seconds, min |-> (t \div Seconds) % Minutes,
                         hour |-> ((t \div Seconds) \div Minutes) % Hours,
                         mday |-> DayOfMonth(((t \div Seconds) \div Minutes) \div Hours),
                         wday |-> (((t \div Seconds) \div Minutes) \div Hours) % WeekDays,
                         mon |-> MonthOfDays[((t \div Seconds) \div Minutes) \div Hours] % Months,
                         year |-> MonthOfDays[((t \div Seconds) \div Minutes) \div Hours]
                                    \div Months,
                         isdst |-> FALSE]
<1>1. t \notin Summer
  BY DEF SteadyClock
<1>2. (t \in Summer) = FALSE
  BY <1>1
<1> QED
  BY <1>1, <1>2, Zenon DEF LocalTime

LEMMA Local ==
  ASSUME SteadyClock, NEW t \in Instants
  PROVE  /\ t # Invalid
         /\ LocalTime(t).sec = t % Seconds
         /\ LocalTime(t).min = MinuteOf(t) % Minutes
         /\ LocalTime(t).hour = HourOf(t) % Hours
         /\ LocalTime(t).mday = DayOfMonth(DayOf(t))
         /\ LocalTime(t).wday = DayOf(t) % WeekDays
         /\ LocalTime(t).mon = MonthAt(t) % Months
         /\ LocalTime(t).year = MonthAt(t) \div Months
         /\ MonthAt(t) \in 0..(EndMonth - 1)
         /\ LocalTime(t).mon \in 0..(Months - 1)
         /\ LocalTime(t).year \in 0..LastYear
         /\ LocalTime(t).year * Months + LocalTime(t).mon = MonthAt(t)
         /\ LocalTime(t).mday \in 1..LongestMonth
         /\ LocalTime(t).mday <= DaysIn(MonthAt(t))
         /\ FirstDays[MonthAt(t)] \in Nat
         /\ FirstDays[MonthAt(t)] + LocalTime(t).mday - 1 = DayOf(t)
         /\ LocalTime(t).wday \in 0..(WeekDays - 1)
<1>1. /\ t \in Nat /\ DayOf(t) \in Days /\ DayOf(t) \in Nat
  BY Parts
<1>2. /\ LocalTime(t).sec = t % Seconds
      /\ LocalTime(t).min = MinuteOf(t) % Minutes
      /\ LocalTime(t).hour = HourOf(t) % Hours
      /\ LocalTime(t).mday = DayOfMonth(DayOf(t))
      /\ LocalTime(t).wday = DayOf(t) % WeekDays
      /\ LocalTime(t).mon = MonthAt(t) % Months
      /\ LocalTime(t).year = MonthAt(t) \div Months
  BY SteadyFields DEF MinuteOf, HourOf, DayOf, MonthAt
<1> DEFINE n == MonthAt(t)
<1>3. n \in 0..(EndMonth - 1) /\ FirstDays[n] <= DayOf(t) /\ DayOf(t) < FirstDays[n + 1]
  BY <1>1, MonthOfDay DEF MonthAt
<1>4. /\ FirstDays[n] \in Nat /\ FirstDays[n + 1] \in Nat
      /\ DaysIn(n) \in WeekDays..LongestMonth
      /\ DaysIn(n) = FirstDays[n + 1] - FirstDays[n]
  BY <1>3, MonthLengths
<1>5. LocalTime(t).mday = DayOf(t) - FirstDays[n] + 1
  BY <1>2 DEF DayOfMonth, MonthAt
<1> HIDE DEF n
<1>6. /\ LocalTime(t).mday \in 1..LongestMonth /\ LocalTime(t).mday <= DaysIn(n)
      /\ FirstDays[n] + LocalTime(t).mday - 1 = DayOf(t)
  <2> DEFINE F == FirstDays[n]
             G == FirstDays[n + 1]
             D == DayOf(t)
             L == DaysIn(n)
             c == LocalTime(t).mday
  <2>1. /\ F \in Nat /\ G \in Nat /\ D \in Nat /\ F <= D /\ D < G /\ c = D - F + 1
        /\ L = G - F /\ L \in WeekDays..LongestMonth
    BY <1>1, <1>3, <1>4, <1>5, Zenon
  <2>2. WeekDays \in Nat /\ LongestMonth \in Nat
    BY Constants
  <2> HIDE DEF F, G, D, L, c
  <2>3. c \in 1..LongestMonth /\ c <= L /\ F + c - 1 = D
    BY <2>1, <2>2
  <2> QED
    BY <2>3, Zenon DEF F, D, L, c
<1>7. /\ n \div Months \in Nat /\ n % Months \in 0..(Months - 1)
      /\ n = (n \div Months) * Months + (n % Months)
  <2>1. n \in Nat /\ Months \in Nat \ {0}
    BY <1>3, Constants
  <2> QED
    BY <2>1, Split
<1>8. n \div Months < LastYear + 1
  <2>1. (LastYear + 1) * Months = EndMonth
    BY Constants DEF EndMonth
  <2>2. n < (LastYear + 1) * Months
    BY <1>3, <2>1, Constants
  <2> QED
    <3>1. n \in Nat /\ LastYear + 1 \in Nat /\ Months \in Nat \ {0}
      BY <1>3, Constants
    <3> QED
      BY <2>2, <3>1, Bound
<1>9. n \div Months \in 0..LastYear
  BY <1>7, <1>8, Constants
<1>10. DayOf(t) % WeekDays \in 0..(WeekDays - 1)
  BY <1>1, Split, Constants
<1>11. t # Invalid
  BY <1>1 DEF Invalid
<1> QED
  BY <1>2, <1>3, <1>4, <1>6, <1>7, <1>9, <1>10, <1>11 DEF n

\* An instant is that of its day, hour, minute and second.
LEMMA Whole ==
  ASSUME NEW t \in Instants
  PROVE  t = Ins(DayOf(t), HourOf(t) % Hours, MinuteOf(t) % Minutes, t % Seconds)
BY Parts DEF Ins

\* mktime of fields that are those of an instant but for one.
LEMMA SetIs ==
  ASSUME SteadyClock, NEW t \in Instants, NEW v \in Int
  PROVE  LET d == DayOf(t)
             h == HourOf(t) % Hours
             m == MinuteOf(t) % Minutes
             s == t % Seconds
             tm == LocalTime(t)
         IN  /\ Mktime([tm EXCEPT !["sec"] = v]) = InOr(Ins(d, h, m, v))
             /\ Mktime([tm EXCEPT !["min"] = v]) = InOr(Ins(d, h, v, s))
             /\ Mktime([tm EXCEPT !["hour"] = v]) = InOr(Ins(d, v, m, s))
             /\ Mktime([tm EXCEPT !["mday"] = v])
                  = InOr(Ins(FirstDays[MonthAt(t)] + v - 1, h, m, s))
             /\ Mktime([tm EXCEPT !["mon"] = v])
                  = IF tm.year * Months + v < EndMonth
                      THEN InOr(Ins(FirstDays[tm.year * Months + v] + tm.mday - 1, h, m, s))
                      ELSE Invalid
             /\ Mktime([tm EXCEPT !["year"] = v])
                  = IF v * Months + tm.mon < EndMonth
                      THEN InOr(Ins(FirstDays[v * Months + tm.mon] + tm.mday - 1, h, m, s))
                      ELSE Invalid
<1> DEFINE d == DayOf(t)
           h == HourOf(t) % Hours
           m == MinuteOf(t) % Minutes
           s == t % Seconds
           n == MonthAt(t)
           tm == LocalTime(t)
<1>1. /\ tm.sec = s /\ tm.min = m /\ tm.hour = h
      /\ tm.year * Months + tm.mon = n /\ n < EndMonth
      /\ FirstDays[n] + tm.mday - 1 = d
  BY Local, Constants
<1>2. tm.isdst = FALSE
  BY SteadyFields
<1>9. tm = [sec |-> tm.sec, min |-> tm.min, hour |-> tm.hour, mday |-> tm.mday,
            wday |-> tm.wday, mon |-> tm.mon, year |-> tm.year, isdst |-> FALSE]
  BY <1>2, SteadyFields
<1> HIDE DEF d, h, m, s, n, tm
<1>3. Mktime([tm EXCEPT !["sec"] = v]) = InOr(Ins(d, h, m, v))
  BY <1>1, <1>9 DEF Mktime, InOr, Ins
<1>4. Mktime([tm EXCEPT !["min"] = v]) = InOr(Ins(d, h, v, s))
  BY <1>1, <1>9 DEF Mktime, InOr, Ins
<1>5. Mktime([tm EXCEPT !["hour"] = v]) = InOr(Ins(d, v, m, s))
  BY <1>1, <1>9 DEF Mktime, InOr, Ins
<1>6. Mktime([tm EXCEPT !["mday"] = v]) = InOr(Ins(FirstDays[n] + v - 1, h, m, s))
  BY <1>1, <1>9 DEF Mktime, InOr, Ins
<1>7. Mktime([tm EXCEPT !["mon"] = v])
        = IF tm.year * Months + v < EndMonth
            THEN InOr(Ins(FirstDays[tm.year * Months + v] + tm.mday - 1, h, m, s))
            ELSE Invalid
  BY <1>1, <1>9 DEF Mktime, InOr, Ins
<1>8. Mktime([tm EXCEPT !["year"] = v])
        = IF v * Months + tm.mon < EndMonth
            THEN InOr(Ins(FirstDays[v * Months + tm.mon] + tm.mday - 1, h, m, s))
            ELSE Invalid
  BY <1>1, <1>9 DEF Mktime, InOr, Ins
<1> QED
  BY <1>3, <1>4, <1>5, <1>6, <1>7, <1>8 DEF d, h, m, s, n, tm

\* What reset_all leaves of a field.
Rest(fields, f, v, lowest) == IF f \in fields THEN lowest ELSE v

\* A date outside the calendar stays one.
LEMMA StaysInvalid ==
  ASSUME NEW f, NEW v, NEW R
  PROVE  /\ AddTo(Invalid, f) = Invalid /\ SetField(Invalid, f, v) = Invalid
         /\ ResetAll(Invalid, R) = Invalid
<1>1. \A g, w : SetField(Invalid, g, w) = Invalid
  BY DEF SetField
<1>2. \A g : Reset(Invalid, g, R) = Invalid
  BY <1>1, Zenon DEF Reset
<1>3. ResetAll(Invalid, R) = Invalid
  BY <1>2, Zenon DEF ResetAll
<1>4. AddTo(Invalid, f) = Invalid
  BY DEF AddTo
<1> QED
  BY <1>1, <1>3, <1>4

\* One field of reset_all.
LEMMA ResetParts ==
  ASSUME SteadyClock, NEW d \in Days, NEW h \in 0..(Hours - 1), NEW m \in 0..(Minutes - 1),
         NEW s \in 0..(Seconds - 1), NEW R
  PROVE  LET x == Ins(d, h, m, s)
         IN  /\ Reset(x, "sec", R) = Ins(d, h, m, Rest(R, "sec", s, 0))
             /\ Reset(x, "min", R) = Ins(d, h, Rest(R, "min", m, 0), s)
             /\ Reset(x, "hour", R) = Ins(d, Rest(R, "hour", h, 0), m, s)
             /\ Reset(x, "mday", R)
                  = Ins(FirstDays[MonthOfDays[d]] + Rest(R, "mday", DayOfMonth(d), 1) - 1, h, m, s)
<1> DEFINE x == Ins(d, h, m, s)
           n == MonthOfDays[d]
<1>1. d \in Nat
  BY Sizes
<1>2. /\ x \in Instants /\ DayOf(x) = d /\ HourOf(x) % Hours = h
      /\ MinuteOf(x) % Minutes = m /\ x % Seconds = s
  BY <1>1, OfDay
<1>3. 0 \in 0..(Hours - 1) /\ 0 \in 0..(Minutes - 1) /\ 0 \in 0..(Seconds - 1)
  BY Constants
<1>4. MonthAt(x) = n /\ x # Invalid
  BY <1>2, Local DEF MonthAt
<1>5. /\ n \in 0..(EndMonth - 1) /\ FirstDays[n] <= d /\ FirstDays[n] \in Nat
      /\ FirstDays[n] < FirstDays[n + 1]
  BY MonthOfDay, MonthLengths
<1>6. FirstDays[n] \in Days
  BY <1>5, MonthIs
<1>7. FirstDays[n] + 1 - 1 = FirstDays[n] /\ FirstDays[n] + DayOfMonth(d) - 1 = d
  BY <1>1, <1>5 DEF DayOfMonth
<1> HIDE DEF x, n
<1>8. /\ Mktime([LocalTime(x) EXCEPT !["sec"] = 0]) = InOr(Ins(d, h, m, 0))
      /\ Mktime([LocalTime(x) EXCEPT !["min"] = 0]) = InOr(Ins(d, h, 0, s))
      /\ Mktime([LocalTime(x) EXCEPT !["hour"] = 0]) = InOr(Ins(d, 0, m, s))
      /\ Mktime([LocalTime(x) EXCEPT !["mday"] = 1]) = InOr(Ins(FirstDays[n] + 1 - 1, h, m, s))
  <2>1. 0 \in Int /\ 1 \in Int
    OBVIOUS
  <2>2. /\ Mktime([LocalTime(x) EXCEPT !["sec"] = 0]) = InOr(Ins(d, h, m, 0))
        /\ Mktime([LocalTime(x) EXCEPT !["min"] = 0]) = InOr(Ins(d, h, 0, s))
        /\ Mktime([LocalTime(x) EXCEPT !["hour"] = 0]) = InOr(Ins(d, 0, m, s))
    BY <1>2, <2>1, SetIs, Zenon
  <2>3. Mktime([LocalTime(x) EXCEPT !["mday"] = 1])
          = InOr(Ins(FirstDays[MonthAt(x)] + 1 - 1, HourOf(x) % Hours, MinuteOf(x) % Minutes,
                     x % Seconds))
    BY <1>2, <2>1, SetIs, Zenon
  <2> QED
    BY <1>2, <1>4, <2>2, <2>3, Zenon
<1>9. /\ Ins(d, h, m, 0) \in Instants /\ Ins(d, h, 0, s) \in Instants
      /\ Ins(d, 0, m, s) \in Instants
  BY <1>1, <1>3, OfDay
<1>10. Ins(FirstDays[n], h, m, s) \in Instants
  BY <1>5, <1>6, OfDay
<1>11. Reset(x, "sec", R) = Ins(d, h, m, Rest(R, "sec", s, 0))
  BY <1>4, <1>8, <1>9 DEF Reset, SetField, Rest, InOr, x
<1>12. Reset(x, "min", R) = Ins(d, h, Rest(R, "min", m, 0), s)
  BY <1>4, <1>8, <1>9 DEF Reset, SetField, Rest, InOr, x
<1>13. Reset(x, "hour", R) = Ins(d, Rest(R, "hour", h, 0), m, s)
  BY <1>4, <1>8, <1>9 DEF Reset, SetField, Rest, InOr, x
<1>14. Reset(x, "mday", R)
         = Ins(FirstDays[n] + Rest(R, "mday", DayOfMonth(d), 1) - 1, h, m, s)
  BY <1>4, <1>7, <1>8, <1>10 DEF Reset, SetField, Rest, InOr, x
<1> QED
  BY <1>11, <1>12, <1>13, <1>14 DEF x, n

LEMMA ResetIs ==
  ASSUME SteadyClock, NEW t \in Instants, NEW R
  PROVE  LET tm == LocalTime(t)
             n == tm.year * Months + Rest(R, "mon", tm.mon, 0)
         IN  ResetAll(t, R)
               = IF n < EndMonth
                   THEN InOr(Ins(FirstDays[n] + Rest(R, "mday", tm.mday, 1) - 1,
                                 Rest(R, "hour", HourOf(t) % Hours, 0),
                                 Rest(R, "min", MinuteOf(t) % Minutes, 0),
                                 Rest(R, "sec", t % Seconds, 0)))
                   ELSE Invalid
<1> DEFINE tm == LocalTime(t)
           d == DayOf(t)
           h == HourOf(t) % Hours
           m == MinuteOf(t) % Minutes
           s == t % Seconds
           hh == Rest(R, "hour", h, 0)
           mm == Rest(R, "min", m, 0)
           ss == Rest(R, "sec", s, 0)
           c == Rest(R, "mday", tm.mday, 1)
           dd == FirstDays[MonthAt(t)] + c - 1
           x == Ins(dd, hh, mm, ss)
<1>1. /\ d \in Days /\ h \in 0..(Hours - 1) /\ m \in 0..(Minutes - 1)
      /\ s \in 0..(Seconds - 1)
  BY Parts
<1>2. hh \in 0..(Hours - 1) /\ mm \in 0..(Minutes - 1) /\ ss \in 0..(Seconds - 1)
  <2>1. 0 \in 0..(Hours - 1) /\ 0 \in 0..(Minutes - 1) /\ 0 \in 0..(Seconds - 1)
    BY Constants
  <2> QED
    BY <1>1, <2>1, Zenon DEF Rest
<1>3. t = Ins(d, h, m, s)
  BY Whole
<1>4. tm.mday = DayOfMonth(d) /\ MonthAt(t) = MonthOfDays[d]
  BY Local DEF MonthAt
<1>5. ResetAll(t, R) = Reset(x, "mon", R)
  <2> HIDE DEF d, h, m, s, hh, mm, ss
  <2>1. Reset(t, "sec", R) = Ins(d, h, m, ss)
    BY <1>1, <1>3, ResetParts DEF ss
  <2>2. Reset(Ins(d, h, m, ss), "min", R) = Ins(d, h, mm, ss)
    BY <1>1, <1>2, ResetParts DEF mm
  <2>3. Reset(Ins(d, h, mm, ss), "hour", R) = Ins(d, hh, mm, ss)
    BY <1>1, <1>2, ResetParts DEF hh
  <2>4. Reset(Ins(d, hh, mm, ss), "mday", R) = x
    BY <1>1, <1>2, <1>4, ResetParts
  <2> HIDE DEF x
  <2> QED
    BY <2>1, <2>2, <2>3, <2>4 DEF ResetAll
<1>6. /\ MonthAt(t) \in 0..(EndMonth - 1) /\ FirstDays[MonthAt(t)] \in Nat
      /\ tm.mday \in 1..LongestMonth /\ tm.mday <= DaysIn(MonthAt(t))
      /\ tm.year * Months + tm.mon = MonthAt(t) /\ tm.year \in 0..LastYear
  BY Local
<1>7. /\ DaysIn(MonthAt(t)) = FirstDays[MonthAt(t) + 1] - FirstDays[MonthAt(t)]
      /\ DaysIn(MonthAt(t)) \in WeekDays..LongestMonth /\ FirstDays[MonthAt(t) + 1] \in Nat
  BY <1>6, MonthLengths
<1> HIDE DEF tm, d, h, m, s, hh, mm, ss
<1>8. c \in Nat /\ 1 <= c /\ c <= DaysIn(MonthAt(t)) /\ c = Rest(R, "mday", tm.mday, 1)
  <2> DEFINE k == tm.mday
             L == DaysIn(MonthAt(t))
  <2>1. c = Rest(R, "mday", k, 1)
    OBVIOUS
  <2>2. L \in WeekDays..LongestMonth /\ k \in 1..LongestMonth /\ k <= L
    BY <1>6, <1>7, Zenon
  <2> HIDE DEF c, L, k
  <2>3. c = k \/ c = 1
    BY <2>1 DEF Rest
  <2>4. c \in Nat /\ 1 <= c /\ c <= L
    BY <2>2, <2>3, Constants
  <2> QED
    BY <2>1, <2>4 DEF L, k
<1>9. /\ dd \in Nat /\ FirstDays[MonthAt(t)] <= dd /\ dd < FirstDays[MonthAt(t) + 1]
      /\ dd - FirstDays[MonthAt(t)] + 1 = c
  <2> DEFINE F == FirstDays[MonthAt(t)]
             G == FirstDays[MonthAt(t) + 1]
             L == DaysIn(MonthAt(t))
  <2>1. F \in Nat /\ G \in Nat /\ L = G - F /\ c \in Nat /\ 1 <= c /\ c <= L /\ dd = F + c - 1
    BY <1>6, <1>7, <1>8
  <2> HIDE DEF c, dd, F, G, L
  <2>2. dd \in Nat /\ F <= dd /\ dd < G /\ dd - F + 1 = c
    BY <2>1
  <2> QED
    BY <2>2 DEF F, G
<1> HIDE DEF dd
<1>10. dd \in Days /\ MonthOfDays[dd] = MonthAt(t)
  BY <1>6, <1>9, MonthIs
<1>11. /\ x \in Instants /\ DayOf(x) = dd /\ HourOf(x) % Hours = hh
       /\ MinuteOf(x) % Minutes = mm /\ x % Seconds = ss
  BY <1>2, <1>9, <1>10, OfDay
<1>12. /\ MonthAt(x) = MonthAt(t) /\ LocalTime(x).mday = c
       /\ LocalTime(x).mon = tm.mon /\ LocalTime(x).year = tm.year
  <2>1. MonthAt(x) = MonthAt(t)
    BY <1>10, <1>11 DEF MonthAt
  <2>2. LocalTime(x).mday = dd - FirstDays[MonthAt(t)] + 1
    BY <1>10, <1>11, Local DEF DayOfMonth
  <2>3. LocalTime(x).mon = tm.mon /\ LocalTime(x).year = tm.year
    BY <1>11, <2>1, Local DEF tm
  <2> QED
    BY <1>9, <2>1, <2>2, <2>3
<1>13. CASE "mon" \in R
  <2>1. ResetAll(t, R) = Mktime([LocalTime(x) EXCEPT !["mon"] = 0])
    BY <1>5, <1>11, <1>13, Local DEF Reset, SetField
  <2>2. Mktime([LocalTime(x) EXCEPT !["mon"] = 0])
          = IF tm.year * Months + 0 < EndMonth
              THEN InOr(Ins(FirstDays[tm.year * Months + 0] + c - 1, hh, mm, ss)) ELSE Invalid
    <3>1. 0 \in Int
      OBVIOUS
    <3> HIDE DEF x, c
    <3>2. Mktime([LocalTime(x) EXCEPT !["mon"] = 0])
            = IF LocalTime(x).year * Months + 0 < EndMonth
                THEN InOr(Ins(FirstDays[LocalTime(x).year * Months + 0] + LocalTime(x).mday - 1,
                              HourOf(x) % Hours, MinuteOf(x) % Minutes, x % Seconds))
                ELSE Invalid
      BY <1>11, <3>1, SetIs, Zenon
    <3> QED
      BY <1>11, <1>12, <3>2, Zenon
  <2> QED
    BY <1>8, <1>13, <2>1, <2>2 DEF Rest, tm, hh, mm, ss, h, m, s
<1>14. CASE "mon" \notin R
  <2>1. ResetAll(t, R) = x /\ x = InOr(x)
    BY <1>5, <1>11, <1>14 DEF Reset, InOr
  <2>2. tm.year * Months + Rest(R, "mon", tm.mon, 0) = MonthAt(t) /\ MonthAt(t) < EndMonth
    BY <1>6, <1>14, Constants DEF Rest
  <2> QED
    BY <1>8, <2>1, <2>2 DEF tm, hh, mm, ss, h, m, s, dd
<1> QED
  BY <1>13, <1>14

\* Setting or raising a part of the time of day, and clearing those in R.
LEMMA SetTime ==
  ASSUME SteadyClock, NEW t \in Instants
  PROVE  /\ \A v \in 0..(Seconds - 1) :
               /\ SetField(t, "sec", v) = MinuteOf(t) * Seconds + v
               /\ SetField(t, "sec", v) \in Instants
         /\ \A v \in 0..(Minutes - 1) :
               /\ SetField(t, "min", v) = (HourOf(t) * Minutes + v) * Seconds + (t % Seconds)
               /\ SetField(t, "min", v) \in Instants
         /\ \A v \in 0..(Hours - 1) :
               /\ SetField(t, "hour", v)
                    = Ins(DayOf(t), v, MinuteOf(t) % Minutes, t % Seconds)
               /\ SetField(t, "hour", v) \in Instants
<1>1. /\ MinuteOf(t) = HourOf(t) * Minutes + (MinuteOf(t) % Minutes)
      /\ HourOf(t) = DayOf(t) * Hours + (HourOf(t) % Hours)
      /\ DayOf(t) \in Nat /\ DayOf(t) \in Days /\ HourOf(t) % Hours \in 0..(Hours - 1)
      /\ MinuteOf(t) % Minutes \in 0..(Minutes - 1) /\ t % Seconds \in 0..(Seconds - 1)
  BY Parts
<1>2. \A v : /\ SetField(t, "sec", v) = Mktime([LocalTime(t) EXCEPT !["sec"] = v])
             /\ SetField(t, "min", v) = Mktime([LocalTime(t) EXCEPT !["min"] = v])
             /\ SetField(t, "hour", v) = Mktime([LocalTime(t) EXCEPT !["hour"] = v])
  BY Local DEF SetField
<1>3. ASSUME NEW v \in 0..(Seconds - 1)
      PROVE  /\ SetField(t, "sec", v) = MinuteOf(t) * Seconds + v
             /\ SetField(t, "sec", v) \in Instants
  <2> DEFINE x == Ins(DayOf(t), HourOf(t) % Hours, MinuteOf(t) % Minutes, v)
  <2>1. x \in Instants
    BY <1>1, OfDay
  <2>2. SetField(t, "sec", v) = InOr(x)
    <3>1. v \in Int
      BY Constants
    <3>2. Mktime([LocalTime(t) EXCEPT !["sec"] = v]) = InOr(x)
      BY <3>1, SetIs
    <3> QED
      BY <1>2, <3>2
  <2>3. x = MinuteOf(t) * Seconds + v
    BY <1>1 DEF Ins
  <2> QED
    BY <2>1, <2>2, <2>3 DEF InOr
<1>4. ASSUME NEW v \in 0..(Minutes - 1)
      PROVE  /\ SetField(t, "min", v) = (HourOf(t) * Minutes + v) * Seconds + (t % Seconds)
             /\ SetField(t, "min", v) \in Instants
  <2> DEFINE x == Ins(DayOf(t), HourOf(t) % Hours, v, t % Seconds)
  <2>1. x \in Instants
    BY <1>1, OfDay
  <2>2. SetField(t, "min", v) = InOr(x)
    <3>1. v \in Int
      BY Constants
    <3>2. Mktime([LocalTime(t) EXCEPT !["min"] = v]) = InOr(x)
      BY <3>1, SetIs
    <3> QED
      BY <1>2, <3>2
  <2>3. x = (HourOf(t) * Minutes + v) * Seconds + (t % Seconds)
    BY <1>1 DEF Ins
  <2> QED
    BY <2>1, <2>2, <2>3 DEF InOr
<1>5. ASSUME NEW v \in 0..(Hours - 1)
      PROVE  /\ SetField(t, "hour", v) = Ins(DayOf(t), v, MinuteOf(t) % Minutes, t % Seconds)
             /\ SetField(t, "hour", v) \in Instants
  <2> DEFINE x == Ins(DayOf(t), v, MinuteOf(t) % Minutes, t % Seconds)
  <2>1. x \in Instants
    BY <1>1, OfDay
  <2>2. SetField(t, "hour", v) = InOr(x)
    <3>1. v \in Int
      BY Constants
    <3>2. Mktime([LocalTime(t) EXCEPT !["hour"] = v]) = InOr(x)
      BY <3>1, SetIs
    <3> QED
      BY <1>2, <3>2
  <2> QED
    BY <2>1, <2>2 DEF InOr
<1> QED
  BY <1>3, <1>4, <1>5

LEMMA AddTime ==
  ASSUME SteadyClock, NEW t \in Instants
  PROVE  /\ AddTo(t, "sec") = InOr(t + 1)
         /\ AddTo(t, "min") = InOr((MinuteOf(t) + 1) * Seconds + (t % Seconds))
         /\ AddTo(t, "hour")
              = InOr(((HourOf(t) + 1) * Minutes + (MinuteOf(t) % Minutes)) * Seconds
                       + (t % Seconds))
         /\ AddTo(t, "mday")
              = InOr(Ins(DayOf(t) + 1, HourOf(t) % Hours, MinuteOf(t) % Minutes, t % Seconds))
<1> DEFINE d == DayOf(t)
           h == HourOf(t) % Hours
           m == MinuteOf(t) % Minutes
           s == t % Seconds
           q == MinuteOf(t)
           p == HourOf(t)
           tm == LocalTime(t)
<1>1. /\ t \in Nat /\ t = q * Seconds + s /\ q = p * Minutes + m /\ p = d * Hours + h
      /\ d \in Nat /\ h \in Nat /\ m \in Nat /\ s \in Nat /\ q \in Nat /\ p \in Nat
  BY Parts
<1>2. /\ tm.sec = s /\ tm.min = m /\ tm.hour = h /\ tm.mday \in Nat
      /\ FirstDays[MonthAt(t)] \in Nat /\ FirstDays[MonthAt(t)] + tm.mday - 1 = d
  BY Local
<1>3. /\ AddTo(t, "sec") = Mktime([tm EXCEPT !["sec"] = tm.sec + 1])
      /\ AddTo(t, "min") = Mktime([tm EXCEPT !["min"] = tm.min + 1])
      /\ AddTo(t, "hour") = Mktime([tm EXCEPT !["hour"] = tm.hour + 1])
      /\ AddTo(t, "mday") = Mktime([tm EXCEPT !["mday"] = tm.mday + 1])
  BY Local DEF AddTo
<1>4. /\ Mktime([tm EXCEPT !["sec"] = tm.sec + 1]) = InOr(Ins(d, h, m, s + 1))
      /\ Mktime([tm EXCEPT !["min"] = tm.min + 1]) = InOr(Ins(d, h, m + 1, s))
      /\ Mktime([tm EXCEPT !["hour"] = tm.hour + 1]) = InOr(Ins(d, h + 1, m, s))
      /\ Mktime([tm EXCEPT !["mday"] = tm.mday + 1])
           = InOr(Ins(FirstDays[MonthAt(t)] + (tm.mday + 1) - 1, h, m, s))
  <2>1. s + 1 \in Int /\ m + 1 \in Int /\ h + 1 \in Int /\ tm.mday + 1 \in Int
    BY <1>1, <1>2
  <2> QED
    BY <1>2, <2>1, SetIs
<1> HIDE DEF d, h, m, s, q, p, tm
<1>5. Ins(d, h, m, s + 1) = t + 1
  BY <1>1, Constants DEF Ins
<1>6. Ins(d, h, m + 1, s) = (q + 1) * Seconds + s
  BY <1>1, Constants DEF Ins
<1>7. Ins(d, h + 1, m, s) = ((p + 1) * Minutes + m) * Seconds + s
  BY <1>1, Constants DEF Ins
<1>8. FirstDays[MonthAt(t)] + (tm.mday + 1) - 1 = d + 1
  BY <1>1, <1>2
<1> QED
  BY <1>3, <1>4, <1>5, <1>6, <1>7, <1>8 DEF d, h, m, s, q, p, tm

LEMMA ResetTime ==
  ASSUME SteadyClock, NEW t \in Instants, NEW R \in SUBSET {"sec", "min", "hour"}
  PROVE  /\ ResetAll(t, R) = Ins(DayOf(t), Rest(R, "hour", HourOf(t) % Hours, 0),
                                Rest(R, "min", MinuteOf(t) % Minutes, 0),
                                Rest(R, "sec", t % Seconds, 0))
         /\ ResetAll(t, R) \in Instants
         /\ "hour" \notin R =>
              ResetAll(t, R) = (HourOf(t) * Minutes + Rest(R, "min", MinuteOf(t) % Minutes, 0))
                                 * Seconds + Rest(R, "sec", t % Seconds, 0)
         /\ "hour" \notin R /\ "min" \notin R =>
              ResetAll(t, R) = MinuteOf(t) * Seconds + Rest(R, "sec", t % Seconds, 0)
         /\ R = {} => ResetAll(t, R) = t
<1> DEFINE d == DayOf(t)
           h == Rest(R, "hour", HourOf(t) % Hours, 0)
           m == Rest(R, "min", MinuteOf(t) % Minutes, 0)
           s == Rest(R, "sec", t % Seconds, 0)
<1>1. /\ MinuteOf(t) = HourOf(t) * Minutes + (MinuteOf(t) % Minutes)
      /\ HourOf(t) = DayOf(t) * Hours + (HourOf(t) % Hours)
      /\ d \in Nat /\ d \in Days /\ t = MinuteOf(t) * Seconds + (t % Seconds)
      /\ h \in 0..(Hours - 1) /\ m \in 0..(Minutes - 1) /\ s \in 0..(Seconds - 1)
  <2>1. /\ MinuteOf(t) = HourOf(t) * Minutes + (MinuteOf(t) % Minutes)
        /\ HourOf(t) = DayOf(t) * Hours + (HourOf(t) % Hours)
        /\ d \in Nat /\ d \in Days /\ t = MinuteOf(t) * Seconds + (t % Seconds)
    BY Parts
  <2>2. /\ HourOf(t) % Hours \in 0..(Hours - 1) /\ 0 \in 0..(Hours - 1)
        /\ MinuteOf(t) % Minutes \in 0..(Minutes - 1) /\ 0 \in 0..(Minutes - 1)
        /\ t % Seconds \in 0..(Seconds - 1) /\ 0 \in 0..(Seconds - 1)
    BY Parts, Constants
  <2>3. h \in 0..(Hours - 1) /\ m \in 0..(Minutes - 1) /\ s \in 0..(Seconds - 1)
    BY <2>2, Zenon DEF Rest
  <2> QED
    BY <2>1, <2>3, Zenon
<1>2. Ins(d, h, m, s) \in Instants
  BY <1>1, OfDay
<1>3. LocalTime(t).year * Months + Rest(R, "mon", LocalTime(t).mon, 0) = MonthAt(t)
  BY Local DEF Rest
<1>4. FirstDays[MonthAt(t)] + Rest(R, "mday", LocalTime(t).mday, 1) - 1 = d
  BY Local DEF Rest
<1>5. MonthAt(t) < EndMonth
  BY Local, Constants
<1>6. ResetAll(t, R) = InOr(Ins(d, h, m, s))
  BY <1>3, <1>4, <1>5, ResetIs
<1>7. ResetAll(t, R) = Ins(d, h, m, s)
  BY <1>2, <1>6 DEF InOr
<1>8. "hour" \notin R => d * Hours + h = HourOf(t)
  BY <1>1 DEF Rest
<1>9. "hour" \notin R /\ "min" \notin R => (d * Hours + h) * Minutes + m = MinuteOf(t)
  BY <1>1, <1>8 DEF Rest
<1>10. R = {} => Ins(d, h, m, s) = t
  BY <1>1, <1>9 DEF Rest, Ins
<1> QED
  BY <1>2, <1>7, <1>8, <1>9, <1>10 DEF Ins

-----------------------------------------------------------------------------
(* find_next.                                                               *)

\* The next number after N whose last digit, of M, is in bits: the next bit, or with a
\* carry the first one.
Upper(bits, N, M) ==
  LET ahead == {i \in bits : i >= N % M}
  IN  IF ahead # {} THEN (N \div M) * M + Min(ahead) ELSE (N \div M + 1) * M + Min(bits)

LEMMA UpperIs ==
  ASSUME NEW N \in Nat, NEW M \in Nat \ {0}, NEW bits \in SUBSET (0..(M - 1)),
         bits # {}, N % M \notin bits
  PROVE  /\ Upper(bits, N, M) \in Nat /\ Upper(bits, N, M) > N
         /\ Upper(bits, N, M) % M \in bits
         /\ \A n \in Nat : n >= N /\ n % M \in bits => n >= Upper(bits, N, M)
<1> DEFINE p == N \div M
           v == N % M
           ahead == {i \in bits : i >= v}
           U == Upper(bits, N, M)
<1>1. p \in Nat /\ v \in 0..(M - 1) /\ N = p * M + v
  BY Split
<1>2. ASSUME NEW n \in Nat, n >= N, n % M \in bits
      PROVE  /\ n \div M \in Nat /\ n % M \in 0..(M - 1) /\ n = (n \div M) * M + (n % M)
             /\ p <= n \div M /\ (n \div M = p => n % M \in ahead)
  <2> DEFINE a == n \div M
             b == n % M
  <2>1. a \in Nat /\ b \in 0..(M - 1) /\ n = a * M + b
    BY Split
  <2>2. p <= a
    BY <1>2, DivMonotone
  <2> HIDE DEF a, b, p, v
  <2>3. a = p => b >= v
    BY <1>1, <1>2, <2>1
  <2>4. b \in bits
    BY <1>2 DEF b
  <2>5. a = p => b \in ahead
    BY <2>3, <2>4
  <2> QED
    BY <2>1, <2>2, <2>5 DEF a, b
<1>3. bits \in SUBSET Nat /\ ahead \in SUBSET Nat
  <2>1. \A i \in bits : i \in Nat
    OBVIOUS
  <2> QED
    BY <2>1, Zenon
<1>4. CASE ahead # {}
  <2> DEFINE i == Min(ahead)
  <2>1. U = p * M + i
    BY <1>4 DEF Upper
  <2>2. i \in ahead /\ \A j \in ahead : i <= j
    BY <1>3, <1>4, MinIs
  <2> HIDE DEF i, U, p
  <2>3. i \in 0..(M - 1) /\ i \in bits /\ i > v
    BY <1>1, <2>2
  <2>4. U \in Nat /\ U % M = i
    BY <1>1, <2>1, <2>3, Join
  <2>5. U > N
    <3> HIDE DEF v
    <3> QED
      BY <1>1, <2>1, <2>3
  <2>6. ASSUME NEW n \in Nat, n >= N, n % M \in bits PROVE n >= U
    <3> DEFINE a == n \div M
               b == n % M
    <3>1. /\ a \in Nat /\ b \in 0..(M - 1) /\ n = a * M + b /\ p <= a
          /\ a = p => b \in ahead
      BY <1>2, <2>6
    <3>2. a = p => i <= b
      BY <2>2, <3>1
    <3> HIDE DEF a, b, ahead
    <3>3. p < a => p * M + i < a * M
      BY <1>1, <2>3, <3>1, Ahead
    <3>4. p * M \in Nat /\ a * M \in Nat
      BY <1>1, <3>1
    <3>5. CASE p < a
      BY <2>1, <3>1, <3>3, <3>4, <3>5, <2>3
    <3>6. CASE p = a
      <4>1. n = p * M + b /\ i <= b
        BY <3>1, <3>2, <3>6
      <4> QED
        BY <2>1, <2>3, <3>1, <3>4, <4>1
    <3> QED
      BY <1>1, <3>1, <3>5, <3>6
  <2> QED
    BY <2>3, <2>4, <2>5, <2>6 DEF U
<1>5. CASE ahead = {}
  <2> DEFINE i == Min(bits)
  <2>1. U = (p + 1) * M + i
    BY <1>5 DEF Upper
  <2>2. i \in bits /\ \A j \in bits : i <= j
    BY <1>3, MinIs
  <2> HIDE DEF i, U, p
  <2>3. i \in 0..(M - 1) /\ p + 1 \in Nat
    BY <1>1, <2>2
  <2>4. U \in Nat /\ U % M = i
    BY <2>1, <2>3, Join
  <2>5. U > N
    <3> HIDE DEF v
    <3>1. p * M + v < (p + 1) * M /\ (p + 1) * M \in Int
      BY <1>1, <2>3, Ahead
    <3> QED
      BY <1>1, <2>1, <2>3, <3>1
  <2>6. ASSUME NEW n \in Nat, n >= N, n % M \in bits PROVE n >= U
    <3> DEFINE a == n \div M
               b == n % M
    <3>1. /\ a \in Nat /\ b \in 0..(M - 1) /\ n = a * M + b /\ p <= a
          /\ a # p /\ b \in bits
      BY <1>2, <1>5, <2>6
    <3>2. i <= b
      BY <2>2, <3>1
    <3> HIDE DEF a, b
    <3>3. p + 1 < a => (p + 1) * M + i < a * M
      <4>1. p + 1 \in Int /\ a \in Int /\ i \in 0..(M - 1)
        BY <2>3, <3>1
      <4> QED
        BY <4>1, Ahead
    <3>4. (p + 1) * M \in Nat /\ a * M \in Nat
      BY <2>3, <3>1
    <3>5. CASE p + 1 < a
      BY <2>1, <2>3, <3>1, <3>3, <3>4, <3>5
    <3>6. CASE p + 1 = a
      <4>1. n = (p + 1) * M + b
        BY <3>1, <3>6
      <4> QED
        BY <2>1, <2>3, <3>1, <3>2, <3>4, <4>1
    <3>7. p \in Nat /\ a \in Nat /\ p <= a /\ p # a
      BY <1>1, <3>1
    <3>8. p + 1 < a \/ p + 1 = a
      BY <3>7
    <3> QED
      BY <3>5, <3>6, <3>8
  <2> QED
    BY <2>2, <2>4, <2>5, <2>6 DEF U
<1> QED
  BY <1>4, <1>5

\* The search of the seconds.
LEMMA FindSec ==
  ASSUME SteadyClock, NEW t \in Instants, NEW bits \in SUBSET (0..(Seconds - 1)), bits # {},
         t % Seconds \notin bits
  PROVE  FindNext(bits, t, "sec", {}) = InOr(Upper(bits, t, Seconds))
<1> DEFINE v == t % Seconds
           q == MinuteOf(t)
           ahead == {i \in bits : i >= v}
           rolled == ResetAll(AddTo(t, "min"), {"sec"})
<1>1. LocalTime(t).sec = v /\ Carry["sec"] = "min"
  BY Local DEF Carry
<1>2. /\ ahead # {} => FindNext(bits, t, "sec", {}) = ResetAll(SetField(t, "sec", Min(ahead)), {})
      /\ ahead = {} =>
           FindNext(bits, t, "sec", {}) = ResetAll(SetField(rolled, "sec", Min(bits)), {})
  BY <1>1 DEF FindNext
<1>3. /\ ahead # {} => Upper(bits, t, Seconds) = q * Seconds + Min(ahead)
      /\ ahead = {} => Upper(bits, t, Seconds) = (q + 1) * Seconds + Min(bits)
  BY DEF Upper, MinuteOf
<1>4. \A S \in SUBSET (0..(Seconds - 1)) : S # {} => Min(S) \in 0..(Seconds - 1)
  BY MinIn, Constants
<1>5. q \in Nat /\ v \in 0..(Seconds - 1)
  BY Parts
<1>6. ahead \in SUBSET (0..(Seconds - 1))
  BY Zenon
<1>7. CASE ahead # {}
  <2> DEFINE i == Min(ahead)
  <2>1. i \in 0..(Seconds - 1)
    BY <1>4, <1>6, <1>7
  <2> HIDE DEF i
  <2>2. SetField(t, "sec", i) = q * Seconds + i /\ SetField(t, "sec", i) \in Instants
    BY <2>1, SetTime
  <2>3. ResetAll(SetField(t, "sec", i), {}) = SetField(t, "sec", i)
    BY <2>2, ResetTime
  <2> QED
    BY <1>2, <1>3, <1>7, <2>2, <2>3 DEF i, InOr
<1>8. CASE ahead = {}
  <2> DEFINE i == Min(bits)
             x == (q + 1) * Seconds + v
  <2>1. i \in 0..(Seconds - 1)
    BY <1>4
  <2> HIDE DEF i, v
  <2>2. AddTo(t, "min") = InOr(x)
    BY AddTime DEF v
  <2>3. /\ x \in Instants <=> q + 1 < Size * Hours * Minutes
        /\ MinuteOf(x) = q + 1
    BY <1>5, OfMinute
  <2>4. (q + 1) * Seconds + i \in Instants <=> q + 1 < Size * Hours * Minutes
    BY <1>5, <2>1, OfMinute
  <2> HIDE DEF x
  <2>5. CASE x \in Instants
    <3>1. rolled = (q + 1) * Seconds + 0 /\ rolled \in Instants
      BY <2>2, <2>3, <2>5, ResetTime DEF Rest, InOr
    <3>2. MinuteOf(rolled) = q + 1
      BY <1>5, <3>1, OfMinute, Constants
    <3> HIDE DEF rolled, q
    <3>3. SetField(rolled, "sec", i) = (q + 1) * Seconds + i /\ SetField(rolled, "sec", i) \in Instants
      BY <2>1, <3>1, <3>2, SetTime
    <3>4. ResetAll(SetField(rolled, "sec", i), {}) = SetField(rolled, "sec", i)
      BY <3>3, ResetTime
    <3> QED
      BY <1>2, <1>3, <1>8, <3>3, <3>4 DEF i, InOr
  <2>6. CASE x \notin Instants
    <3>1. rolled = Invalid
      BY <2>2, <2>6, StaysInvalid DEF InOr
    <3>2. ResetAll(SetField(rolled, "sec", i), {}) = Invalid
      BY <3>1, StaysInvalid
    <3> QED
      BY <1>2, <1>3, <1>8, <2>3, <2>4, <2>6, <3>2 DEF i, InOr
  <2> QED
    BY <2>5, <2>6
<1> QED
  BY <1>7, <1>8

\* The search of the minutes.
LEMMA FindMin ==
  ASSUME SteadyClock, NEW t \in Instants, NEW bits \in SUBSET (0..(Minutes - 1)), bits # {},
         MinuteOf(t) % Minutes \notin bits, NEW R \in SUBSET {"sec"}
  PROVE  FindNext(bits, t, "min", R)
           = InOr(Upper(bits, MinuteOf(t), Minutes) * Seconds + Rest(R, "sec", t % Seconds, 0))
<1> DEFINE v == MinuteOf(t) % Minutes
           p == HourOf(t)
           s == t % Seconds
           z == Rest(R, "sec", s, 0)
           ahead == {i \in bits : i >= v}
           rolled == ResetAll(AddTo(t, "hour"), {"min"})
           U == Upper(bits, MinuteOf(t), Minutes)
<1>1. LocalTime(t).min = v /\ Carry["min"] = "hour"
  BY Local DEF Carry
<1>2. /\ ahead # {} => FindNext(bits, t, "min", R) = ResetAll(SetField(t, "min", Min(ahead)), R)
      /\ ahead = {} =>
           FindNext(bits, t, "min", R) = ResetAll(SetField(rolled, "min", Min(bits)), R)
  BY <1>1 DEF FindNext
<1>3. /\ ahead # {} => U = p * Minutes + Min(ahead)
      /\ ahead = {} => U = (p + 1) * Minutes + Min(bits)
  BY DEF Upper, HourOf
<1>4. \A S \in SUBSET (0..(Minutes - 1)) : S # {} => Min(S) \in 0..(Minutes - 1)
  BY MinIn, Constants
<1>5. p \in Nat /\ v \in 0..(Minutes - 1) /\ s \in 0..(Seconds - 1)
  BY Parts
<1>6. ahead \in SUBSET (0..(Minutes - 1))
  BY Zenon
<1>7. z \in 0..(Seconds - 1)
  BY <1>5, Constants DEF Rest
<1>8. ASSUME NEW x \in Instants, NEW i \in 0..(Minutes - 1), x % Seconds = s
      PROVE  /\ ResetAll(SetField(x, "min", i), R) = (HourOf(x) * Minutes + i) * Seconds + z
             /\ (HourOf(x) * Minutes + i) * Seconds + z \in Instants
  <2> DEFINE y == (HourOf(x) * Minutes + i) * Seconds + s
  <2>1. SetField(x, "min", i) = y /\ y \in Instants
    BY <1>8, SetTime
  <2>2. HourOf(x) \in Nat /\ HourOf(x) * Minutes + i \in Nat
    BY Parts, Join, Constants
  <2>3. MinuteOf(y) = HourOf(x) * Minutes + i /\ y % Seconds = s
    BY <1>5, <2>2, OfMinute
  <2> HIDE DEF y, s
  <2>4. ResetAll(y, R) = MinuteOf(y) * Seconds + Rest(R, "sec", y % Seconds, 0)
        /\ ResetAll(y, R) \in Instants
    <3>1. R \in SUBSET {"sec", "min", "hour"} /\ "hour" \notin R /\ "min" \notin R
      OBVIOUS
    <3> QED
      BY <2>1, <3>1, ResetTime
  <2> QED
    BY <2>1, <2>3, <2>4
<1>9. CASE ahead # {}
  <2>1. Min(ahead) \in 0..(Minutes - 1)
    BY <1>4, <1>6, <1>9
  <2> QED
    BY <1>2, <1>3, <1>8, <1>9, <2>1 DEF InOr
<1>10. CASE ahead = {}
  <2> DEFINE i == Min(bits)
             x == ((p + 1) * Minutes + v) * Seconds + s
  <2>1. i \in 0..(Minutes - 1)
    BY <1>4
  <2>7. U * Seconds + z = ((p + 1) * Minutes + i) * Seconds + z
    BY <1>3, <1>10, Zenon
  <2> HIDE DEF i, v, s, z, U
  <2>2. AddTo(t, "hour") = InOr(x)
    BY AddTime DEF v, s
  <2>3. /\ x \in Instants <=> p + 1 < Size * Hours
        /\ HourOf(x) = p + 1 /\ x % Seconds = s
    BY <1>5, OfHour
  <2>4. ((p + 1) * Minutes + i) * Seconds + z \in Instants <=> p + 1 < Size * Hours
    BY <1>5, <1>7, <2>1, OfHour
  <2> HIDE DEF x
  <2>5. CASE x \in Instants
    <3>1. rolled = ((p + 1) * Minutes + 0) * Seconds + s /\ rolled \in Instants
      BY <2>2, <2>3, <2>5, ResetTime DEF Rest, InOr
    <3>2. HourOf(rolled) = p + 1 /\ rolled % Seconds = s
      <4> DEFINE b == ((p + 1) * Minutes + 0) * Seconds + s
      <4>1. p + 1 \in Nat /\ 0 \in 0..(Minutes - 1)
        BY <1>5, Constants
      <4>2. HourOf(b) = p + 1 /\ b % Seconds = s
        BY <1>5, <4>1, OfHour
      <4> QED
        BY <3>1, <4>2, Zenon
    <3> HIDE DEF rolled, p
    <3>3. ResetAll(SetField(rolled, "min", i), R) = ((p + 1) * Minutes + i) * Seconds + z
      BY <1>8, <2>1, <3>1, <3>2
    <3> QED
      BY <1>2, <1>10, <2>3, <2>4, <2>5, <2>7, <3>3, Zenon DEF i, U, s, z, InOr
  <2>6. CASE x \notin Instants
    <3>1. rolled = Invalid
      BY <2>2, <2>6, StaysInvalid DEF InOr
    <3>2. ResetAll(SetField(rolled, "min", i), R) = Invalid
      BY <3>1, StaysInvalid
    <3>3. ((p + 1) * Minutes + i) * Seconds + z \notin Instants
      BY <2>3, <2>4, <2>6
    <3> QED
      BY <1>2, <1>10, <2>7, <3>2, <3>3, Zenon DEF i, U, s, z, InOr
  <2> QED
    BY <2>5, <2>6
<1> QED
  BY <1>9, <1>10

\* The search of the hours.
LEMMA FindHour ==
  ASSUME SteadyClock, NEW t \in Instants, NEW bits \in SUBSET (0..(Hours - 1)), bits # {},
         HourOf(t) % Hours \notin bits, NEW R \in SUBSET {"sec", "min"}
  PROVE  FindNext(bits, t, "hour", R)
           = InOr((Upper(bits, HourOf(t), Hours) * Minutes
                     + Rest(R, "min", MinuteOf(t) % Minutes, 0)) * Seconds
                  + Rest(R, "sec", t % Seconds, 0))
<1> DEFINE v == HourOf(t) % Hours
           d == DayOf(t)
           m == MinuteOf(t) % Minutes
           s == t % Seconds
           y == Rest(R, "min", m, 0)
           z == Rest(R, "sec", s, 0)
           ahead == {i \in bits : i >= v}
           rolled == ResetAll(AddTo(t, "mday"), {"hour"})
           U == Upper(bits, HourOf(t), Hours)
<1>1. LocalTime(t).hour = v /\ Carry["hour"] = "mday"
  BY Local DEF Carry
<1>2. /\ ahead # {} => FindNext(bits, t, "hour", R) = ResetAll(SetField(t, "hour", Min(ahead)), R)
      /\ ahead = {} =>
           FindNext(bits, t, "hour", R) = ResetAll(SetField(rolled, "hour", Min(bits)), R)
  BY <1>1 DEF FindNext
<1>3. /\ ahead # {} => U = d * Hours + Min(ahead)
      /\ ahead = {} => U = (d + 1) * Hours + Min(bits)
  BY DEF Upper, DayOf
<1>4. \A S \in SUBSET (0..(Hours - 1)) : S # {} => Min(S) \in 0..(Hours - 1)
  BY MinIn, Constants
<1>5. /\ d \in Nat /\ v \in 0..(Hours - 1) /\ m \in 0..(Minutes - 1) /\ s \in 0..(Seconds - 1)
  BY Parts
<1>6. ahead \in SUBSET (0..(Hours - 1))
  BY Zenon
<1>7. y \in 0..(Minutes - 1) /\ z \in 0..(Seconds - 1)
  <2>1. 0 \in 0..(Minutes - 1) /\ 0 \in 0..(Seconds - 1)
    BY Constants
  <2> QED
    BY <1>5, <2>1, Zenon DEF Rest
<1>8. ASSUME NEW x \in Instants, NEW i \in 0..(Hours - 1), x % Seconds = s,
             MinuteOf(x) % Minutes = m
      PROVE  /\ ResetAll(SetField(x, "hour", i), R) = Ins(DayOf(x), i, y, z)
             /\ Ins(DayOf(x), i, y, z) \in Instants
  <2> DEFINE c == Ins(DayOf(x), i, m, s)
  <2>1. SetField(x, "hour", i) = c /\ c \in Instants
    BY <1>8, SetTime
  <2>2. DayOf(x) \in Nat
    BY Parts
  <2>3. /\ DayOf(c) = DayOf(x) /\ HourOf(c) % Hours = i
        /\ MinuteOf(c) % Minutes = m /\ c % Seconds = s
    BY <1>5, <2>2, OfDay
  <2> HIDE DEF c, s, m
  <2>4. /\ ResetAll(c, R) = Ins(DayOf(c), Rest(R, "hour", HourOf(c) % Hours, 0),
                               Rest(R, "min", MinuteOf(c) % Minutes, 0),
                               Rest(R, "sec", c % Seconds, 0))
        /\ ResetAll(c, R) \in Instants
    <3>1. R \in SUBSET {"sec", "min", "hour"}
      OBVIOUS
    <3> QED
      BY <2>1, <3>1, ResetTime
  <2>5. Rest(R, "hour", HourOf(c) % Hours, 0) = i
    BY <2>3 DEF Rest
  <2> QED
    BY <2>1, <2>3, <2>4, <2>5
<1>9. CASE ahead # {}
  <2>1. Min(ahead) \in 0..(Hours - 1)
    BY <1>4, <1>6, <1>9
  <2>2. /\ ResetAll(SetField(t, "hour", Min(ahead)), R) = Ins(d, Min(ahead), y, z)
        /\ Ins(d, Min(ahead), y, z) \in Instants
    BY <1>8, <2>1
  <2>3. Ins(d, Min(ahead), y, z) = (U * Minutes + y) * Seconds + z
    BY <1>3, <1>9, Zenon DEF Ins
  <2> QED
    BY <1>2, <1>9, <2>2, <2>3, Zenon DEF InOr
<1>10. CASE ahead = {}
  <2> DEFINE i == Min(bits)
             x == Ins(d + 1, v, m, s)
  <2>1. i \in 0..(Hours - 1)
    BY <1>4
  <2>7. Ins(d + 1, i, y, z) = (U * Minutes + y) * Seconds + z
    BY <1>3, <1>10, Zenon DEF Ins
  <2> HIDE DEF i, v, m, s, y, z, U
  <2>2. AddTo(t, "mday") = InOr(x)
    BY AddTime DEF v, m, s
  <2>3. /\ x \in Instants <=> d + 1 \in Days
        /\ DayOf(x) = d + 1 /\ x % Seconds = s /\ MinuteOf(x) % Minutes = m
    BY <1>5, OfDay
  <2>4. Ins(d + 1, i, y, z) \in Instants <=> d + 1 \in Days
    <3>1. d + 1 \in Nat
      BY <1>5
    <3> QED
      BY <1>7, <2>1, <3>1, OfDay
  <2> HIDE DEF x
  <2>5. CASE x \in Instants
    <3>1. rolled = Ins(d + 1, 0, m, s) /\ rolled \in Instants
      BY <2>2, <2>3, <2>5, ResetTime DEF Rest, InOr
    <3>2. DayOf(rolled) = d + 1 /\ rolled % Seconds = s /\ MinuteOf(rolled) % Minutes = m
      <4> DEFINE b == Ins(d + 1, 0, m, s)
      <4>1. d + 1 \in Nat /\ 0 \in 0..(Hours - 1)
        BY <1>5, Constants
      <4>2. DayOf(b) = d + 1 /\ b % Seconds = s /\ MinuteOf(b) % Minutes = m
        BY <1>5, <4>1, OfDay
      <4> QED
        BY <3>1, <4>2, Zenon
    <3> HIDE DEF rolled, d
    <3>3. /\ ResetAll(SetField(rolled, "hour", i), R) = Ins(d + 1, i, y, z)
          /\ Ins(d + 1, i, y, z) \in Instants
      BY <1>8, <2>1, <3>1, <3>2
    <3> QED
      BY <1>2, <1>10, <2>7, <3>3 DEF i, U, y, m, s, z, InOr
  <2>6. CASE x \notin Instants
    <3>1. rolled = Invalid
      BY <2>2, <2>6, StaysInvalid DEF InOr
    <3>2. ResetAll(SetField(rolled, "hour", i), R) = Invalid
      BY <3>1, StaysInvalid
    <3>3. Ins(d + 1, i, y, z) \notin Instants
      BY <2>3, <2>4, <2>6
    <3> QED
      BY <1>2, <1>10, <2>7, <3>2, <3>3, Zenon DEF i, U, y, m, s, z, InOr
  <2> QED
    BY <2>5, <2>6
<1> QED
  BY <1>9, <1>10

-----------------------------------------------------------------------------
(* find_next_day.                                                           *)

\* The expressions whose values are in their ranges.
FieldSets ==
  [sec : SUBSET (0..(Seconds - 1)), min : SUBSET (0..(Minutes - 1)),
   hour : SUBSET (0..(Hours - 1)), wday : SUBSET (0..(WeekDays - 1)),
   mday : SUBSET (1..LongestMonth), mon : SUBSET (0..(Months - 1))]

\* A day of the calendar that both fields allow.
DayHits(e, d) == DayOfMonth(d) \in e.mday /\ d % WeekDays \in e.wday

LEMMA DayHitsIs ==
  ASSUME SteadyClock, NEW t \in Instants, NEW e
  PROVE  DayMatches(e, t) <=> DayHits(e, DayOf(t))
BY Local DEF DayMatches, DayHits

\* The days after a day of the month have other numbers, for a week.
LEMMA OtherDay ==
  ASSUME NEW d \in Days, NEW n \in 1..(WeekDays - 1), d + n \in Days
  PROVE  DayOfMonth(d + n) # DayOfMonth(d)
<1> DEFINE a == MonthOfDays[d]
           b == MonthOfDays[d + n]
<1>1. /\ a \in 0..(EndMonth - 1) /\ b \in 0..(EndMonth - 1)
      /\ FirstDays[a] <= d /\ FirstDays[b] <= d + n
  BY MonthOfDay
<1>2. d \in Nat /\ d + n \in Nat /\ d <= d + n
  BY Constants DEF Days
<1>3. a <= b
  BY <1>2, MonthsGrow
<1>4. DayOfMonth(d) = d - FirstDays[a] + 1 /\ DayOfMonth(d + n) = (d + n) - FirstDays[b] + 1
  BY Zenon DEF DayOfMonth
<1> HIDE DEF a, b
<1>5. /\ FirstDays[a] \in Nat /\ FirstDays[b] \in Nat /\ FirstDays[a + 1] \in Nat
      /\ FirstDays[a + 1] >= FirstDays[a] + WeekDays
  BY <1>1, MonthLengths
<1>6. a = b \/ a + 1 = b \/ a + 1 < b
  BY <1>1, <1>3, Constants
<1>7. a = b \/ FirstDays[b] >= FirstDays[a] + WeekDays
  <2>1. CASE a = b
    BY <2>1
  <2>2. CASE a + 1 = b
    BY <1>5, <2>2
  <2>3. CASE a + 1 < b
    <3>1. a + 1 \in 0..EndMonth /\ b \in 0..EndMonth
      BY <1>1, Constants
    <3>2. FirstDays[a + 1] < FirstDays[b]
      BY <2>3, <3>1, FirstDaysGrow
    <3>3. WeekDays \in Nat
      BY Constants
    <3> QED
      BY <1>5, <3>2, <3>3
  <2> QED
    BY <1>6, <2>1, <2>2, <2>3
<1>8. SUFFICES ASSUME (d + n) - FirstDays[b] + 1 = d - FirstDays[a] + 1 PROVE FALSE
  BY <1>4, Zenon
<1>9. FirstDays[b] = FirstDays[a] + n
  <2>1. d \in Int /\ n \in Int /\ FirstDays[a] \in Int /\ FirstDays[b] \in Int
    BY <1>2, <1>5, Constants
  <2>2. \A x, y, z, w \in Int : (x + y) - z + 1 = x - w + 1 => z = w + y
    OBVIOUS
  <2> QED
    BY <1>8, <2>1, <2>2
<1> QED
  BY <1>5, <1>7, <1>9, Constants

\* The calendar after n turns of find_next_day, and the day that the last of them read.
LaterAt(t, R, n) ==
  IF n = 0 THEN t
  ELSE InOr(Ins(DayOf(t) + n, Rest(R, "hour", HourOf(t) % Hours, 0),
                Rest(R, "min", MinuteOf(t) % Minutes, 0), Rest(R, "sec", t % Seconds, 0)))

LaterSeen(t, R, n) == IF n = 0 THEN t ELSE AddTo(LaterAt(t, R, n - 1), "mday")

LEMMA LaterAtIs ==
  ASSUME NEW t \in Instants, NEW R \in SUBSET {"sec", "min", "hour"}, NEW n \in Nat
  PROVE  LET x == LaterAt(t, R, n)
         IN  /\ DayOf(t) + n \in Days =>
                  /\ x \in Instants /\ DayOf(x) = DayOf(t) + n
                  /\ Rest(R, "hour", HourOf(x) % Hours, 0) = Rest(R, "hour", HourOf(t) % Hours, 0)
                  /\ Rest(R, "min", MinuteOf(x) % Minutes, 0)
                       = Rest(R, "min", MinuteOf(t) % Minutes, 0)
                  /\ Rest(R, "sec", x % Seconds, 0) = Rest(R, "sec", t % Seconds, 0)
             /\ DayOf(t) + n \notin Days => x = Invalid
<1> DEFINE d == DayOf(t)
           h == Rest(R, "hour", HourOf(t) % Hours, 0)
           m == Rest(R, "min", MinuteOf(t) % Minutes, 0)
           s == Rest(R, "sec", t % Seconds, 0)
           y == Ins(d + n, h, m, s)
           x == LaterAt(t, R, n)
<1>1. /\ d \in Nat /\ d \in Days /\ HourOf(t) % Hours \in 0..(Hours - 1)
      /\ MinuteOf(t) % Minutes \in 0..(Minutes - 1) /\ t % Seconds \in 0..(Seconds - 1)
  BY Parts
<1>2. h \in 0..(Hours - 1) /\ m \in 0..(Minutes - 1) /\ s \in 0..(Seconds - 1)
  <2>1. 0 \in 0..(Hours - 1) /\ 0 \in 0..(Minutes - 1) /\ 0 \in 0..(Seconds - 1)
    BY Constants
  <2> QED
    BY <1>1, <2>1, Zenon DEF Rest
<1>3. CASE n = 0
  <2>1. x = t /\ d + n = d
    BY <1>1, <1>3 DEF LaterAt
  <2> QED
    BY <1>1, <2>1
<1>4. CASE n # 0
  <2>1. d + n \in Nat
    BY <1>1
  <2>2. /\ y \in Instants <=> d + n \in Days
        /\ DayOf(y) = d + n /\ HourOf(y) % Hours = h /\ MinuteOf(y) % Minutes = m
        /\ y % Seconds = s
    <3> HIDE DEF d, h, m, s
    <3> QED
      BY <1>2, <2>1, OfDay
  <2>3. x = InOr(y)
    BY <1>4 DEF LaterAt
  <2>4. /\ Rest(R, "hour", h, 0) = h /\ Rest(R, "min", m, 0) = m /\ Rest(R, "sec", s, 0) = s
    BY DEF Rest
  <2> HIDE DEF d, h, m, s, y, x
  <2>5. d + n \in Days => x = y
    BY <2>2, <2>3 DEF InOr
  <2>6. d + n \notin Days => x = Invalid
    BY <2>2, <2>3 DEF InOr
  <2> QED
    BY <2>2, <2>4, <2>5, <2>6 DEF d, h, m, s, x
<1> QED
  BY <1>3, <1>4

\* A turn of find_next_day.
LEMMA TurnIs ==
  ASSUME SteadyClock, NEW t \in Instants, NEW R \in SUBSET {"sec", "min", "hour"},
         NEW n \in Nat \ {0}
  PROVE  LET day == LaterSeen(t, R, n)
         IN  /\ DayOf(t) + n \in Days => day \in Instants /\ DayOf(day) = DayOf(t) + n
             /\ DayOf(t) + n \notin Days => day = Invalid
             /\ ResetAll(day, R) = LaterAt(t, R, n)
<1> DEFINE d == DayOf(t)
           x == LaterAt(t, R, n - 1)
           h == HourOf(x) % Hours
           m == MinuteOf(x) % Minutes
           s == x % Seconds
           y == Ins(DayOf(x) + 1, h, m, s)
           day == LaterSeen(t, R, n)
<1>1. d \in Nat /\ n - 1 \in Nat
  BY Parts
<1>2. /\ d + (n - 1) \in Days =>
           /\ x \in Instants /\ DayOf(x) = d + (n - 1)
           /\ Rest(R, "hour", h, 0) = Rest(R, "hour", HourOf(t) % Hours, 0)
           /\ Rest(R, "min", m, 0) = Rest(R, "min", MinuteOf(t) % Minutes, 0)
           /\ Rest(R, "sec", s, 0) = Rest(R, "sec", t % Seconds, 0)
      /\ d + (n - 1) \notin Days => x = Invalid
  BY <1>1, LaterAtIs
<1>3. day = AddTo(x, "mday")
  BY DEF LaterSeen
<1>4. /\ LaterAt(t, R, n)
           = InOr(Ins(d + n, Rest(R, "hour", HourOf(t) % Hours, 0),
                      Rest(R, "min", MinuteOf(t) % Minutes, 0), Rest(R, "sec", t % Seconds, 0)))
      /\ d + n \notin Days => LaterAt(t, R, n) = Invalid
  <2>1. n \in Nat
    OBVIOUS
  <2> QED
    BY <2>1, LaterAtIs DEF LaterAt
<1>5. ResetAll(Invalid, R) = Invalid
  BY StaysInvalid
<1>6. CASE d + (n - 1) \in Days
  <2>1. x \in Instants /\ DayOf(x) + 1 = d + n
    BY <1>1, <1>2, <1>6
  <2>2. /\ h \in 0..(Hours - 1) /\ m \in 0..(Minutes - 1) /\ s \in 0..(Seconds - 1)
        /\ DayOf(x) + 1 \in Nat
    BY <2>1, Parts
  <2>3. day = InOr(y)
    BY <1>3, <2>1, AddTime
  <2> HIDE DEF d, x, day, h, m, s
  <2>4. /\ y \in Instants <=> d + n \in Days
        /\ DayOf(y) = d + n /\ HourOf(y) % Hours = h /\ MinuteOf(y) % Minutes = m
        /\ y % Seconds = s
    BY <2>1, <2>2, OfDay
  <2> HIDE DEF y
  <2>5. CASE d + n \in Days
    <3>1. day = y /\ y \in Instants
      BY <2>3, <2>4, <2>5 DEF InOr
    <3>2. ResetAll(y, R) \in Instants
      BY <3>1, ResetTime
    <3>3. ResetAll(y, R)
            = Ins(d + n, Rest(R, "hour", h, 0), Rest(R, "min", m, 0), Rest(R, "sec", s, 0))
      BY <2>4, <3>1, ResetTime
    <3>4. ResetAll(y, R) = LaterAt(t, R, n)
      BY <1>2, <1>4, <1>6, <3>2, <3>3 DEF InOr
    <3> QED
      BY <2>4, <2>5, <3>1, <3>4 DEF day, d
  <2>6. CASE d + n \notin Days
    <3>1. day = Invalid
      BY <2>3, <2>4, <2>6 DEF InOr
    <3> QED
      BY <1>4, <1>5, <2>6, <3>1 DEF day, d
  <2> QED
    BY <2>5, <2>6
<1>7. CASE d + (n - 1) \notin Days
  <2>1. d + n \notin Days
    BY <1>1, <1>7, Sizes
  <2>2. day = Invalid
    BY <1>2, <1>3, <1>7, StaysInvalid
  <2> HIDE DEF day
  <2> QED
    BY <1>4, <1>5, <2>1, <2>2 DEF day
<1> QED
  BY <1>6, <1>7

\* The loop of find_next_day, when n is the first turn after which it stops.
LEMMA LoopIs ==
  ASSUME SteadyClock, NEW e, NEW t \in Instants, NEW R \in SUBSET {"sec", "min", "hour"},
         NEW n \in 0..SearchDays,
         \/ LaterSeen(t, R, n) = Invalid
         \/ DayMatches(e, LaterSeen(t, R, n)),
         \A k \in 0..(n - 1) :
           ~(LaterSeen(t, R, k) = Invalid \/ DayMatches(e, LaterSeen(t, R, k)))
  PROVE  FindNextDay(e, t, R) = [seen |-> LaterSeen(t, R, n), at |-> LaterAt(t, R, n)]
<1> DEFINE Stops(u) == u = Invalid \/ DayMatches(e, u)
           Turn(k) == [seen |-> LaterSeen(t, R, k), at |-> LaterAt(t, R, k)]
           Step(last) == IF Stops(last.seen) THEN last
                         ELSE [seen |-> AddTo(last.at, "mday"),
                               at |-> ResetAll(AddTo(last.at, "mday"), R)]
           Loop(f) == [k \in 0..SearchDays |->
                         IF k = 0 THEN [seen |-> t, at |-> t] ELSE Step(f[k - 1])]
           g == [k \in 0..SearchDays |-> IF k <= n THEN Turn(k) ELSE Turn(n)]
<1>1. SearchDays \in Nat /\ n \in Nat
  BY Constants
<1>2. Turn(0) = [seen |-> t, at |-> t]
  BY DEF LaterSeen, LaterAt
<1>3. ASSUME NEW k \in 1..SearchDays
      PROVE  g[k] = Step(g[k - 1])
  <2>1. k - 1 \in 0..SearchDays /\ k \in 0..SearchDays /\ k \in Nat \ {0}
    BY <1>1
  <2>2. CASE k <= n
    <3>1. g[k] = Turn(k) /\ g[k - 1] = Turn(k - 1) /\ k - 1 \in 0..(n - 1)
      BY <1>1, <2>1, <2>2
    <3>2. ~Stops(Turn(k - 1).seen)
      BY <3>1
    <3>3. AddTo(LaterAt(t, R, k - 1), "mday") = LaterSeen(t, R, k)
      BY <2>1 DEF LaterSeen
    <3>4. ResetAll(LaterSeen(t, R, k), R) = LaterAt(t, R, k)
      BY <2>1, TurnIs
    <3> HIDE DEF g, Stops
    <3> QED
      BY <3>1, <3>2, <3>3, <3>4
  <2>3. CASE ~(k <= n)
    <3>1. g[k] = Turn(n) /\ g[k - 1] = Turn(n)
      BY <1>1, <2>1, <2>3
    <3>2. Stops(Turn(n).seen)
      OBVIOUS
    <3> HIDE DEF g, Stops, Turn
    <3> QED
      BY <3>1, <3>2
  <2> QED
    BY <2>2, <2>3
<1>4. g[0] = [seen |-> t, at |-> t]
  BY <1>1, <1>2
<1> HIDE DEF Step, Turn
<1>5. g = Loop(g)
  <2>1. ASSUME NEW k \in 0..SearchDays PROVE g[k] = Loop(g)[k]
    <3>1. k = 0 \/ k \in 1..SearchDays
      BY <1>1
    <3> HIDE DEF g
    <3> QED
      BY <1>3, <1>4, <3>1
  <2>2. g = [k \in 0..SearchDays |-> g[k]]
    OBVIOUS
  <2> HIDE DEF g
  <2> QED
    BY <2>1, <2>2
<1> HIDE DEF g
<1>6. ASSUME NEW f, f = Loop(f) PROVE f[SearchDays] = g[SearchDays]
  <2> DEFINE Bad == {k \in 0..SearchDays : f[k] # g[k]}
  <2>1. SUFFICES ASSUME Bad # {} PROVE FALSE
    BY <1>1
  <2>2. Bad \in SUBSET Nat
    BY <1>1
  <2> DEFINE k == Min(Bad)
  <2>3. k \in Bad /\ \A i \in Bad : k <= i
    BY <2>1, <2>2, MinIs
  <2> HIDE DEF k
  <2>4. k \in 0..SearchDays /\ f[k] # g[k]
    BY <2>3
  <2>5. f[0] = g[0]
    BY <1>1, <1>4, <1>6
  <2>6. k \in 1..SearchDays /\ k - 1 \in 0..SearchDays /\ ~(k <= k - 1) /\ k # 0
    BY <1>1, <2>4, <2>5
  <2>7. f[k - 1] = g[k - 1]
    BY <2>3, <2>6
  <2>8. f[k] = Step(f[k - 1])
    BY <1>6, <2>4, <2>6
  <2> QED
    BY <1>3, <2>4, <2>6, <2>7, <2>8
<1>7. FindNextDay(e, t, R) = g[SearchDays]
  <2> DEFINE F == CHOOSE f : f = Loop(f)
  <2>1. FindNextDay(e, t, R) = F[SearchDays]
    BY DEF FindNextDay, Step
  <2> HIDE DEF Loop
  <2>2. F = Loop(F)
    BY <1>5
  <2> HIDE DEF F
  <2> QED
    BY <1>6, <2>1, <2>2
<1>8. g[SearchDays] = Turn(n)
  <2>1. SearchDays \in 0..SearchDays /\ (SearchDays <= n => n = SearchDays)
    BY <1>1
  <2> QED
    BY <2>1 DEF g
<1> QED
  BY <1>7, <1>8 DEF Turn

\* A day that both fields allow, or one past the calendar, comes within SearchDays.
LEMMA DayComes ==
  ASSUME NEW e \in FieldSets, e.mday # {}, e.wday # {},
         DayOfMonthFree(e) \/ DayOfWeekFree(e), NEW d \in Days
  PROVE  \E n \in 0..SearchDays :
           /\ d + n \in Days => DayHits(e, d + n)
           /\ n < WeekDays \/ DayOfWeekFree(e)
<1>1. d \in Nat /\ \A c \in Days : c \in Nat
  BY Constants DEF Days
<1>2. \A c \in Days : DayOfMonth(c) \in 1..LongestMonth
  <2>1. ASSUME NEW c \in Days PROVE DayOfMonth(c) \in 1..LongestMonth
    <3> DEFINE k == MonthOfDays[c]
    <3>1. k \in 0..(EndMonth - 1) /\ FirstDays[k] <= c /\ c < FirstDays[k + 1]
      BY MonthOfDay
    <3>2. DayOfMonth(c) = c - FirstDays[k] + 1
      BY DEF DayOfMonth
    <3> HIDE DEF k
    <3>3. /\ FirstDays[k] \in Nat /\ FirstDays[k + 1] \in Nat
          /\ FirstDays[k + 1] - FirstDays[k] \in WeekDays..LongestMonth
      BY <3>1, MonthLengths
    <3>4. c \in Nat /\ LongestMonth \in Nat
      BY <1>1, Constants
    <3> DEFINE F == FirstDays[k]
               G == FirstDays[k + 1]
    <3>5. /\ F \in Nat /\ G \in Nat /\ F <= c /\ c < G /\ G - F <= LongestMonth
          /\ DayOfMonth(c) = c - F + 1
      BY <3>1, <3>2, <3>3
    <3> HIDE DEF F, G
    <3> QED
      BY <3>4, <3>5
  <2> QED
    BY <2>1
<1>3. CASE DayOfMonthFree(e)
  <2> DEFINE p == d \div WeekDays
             v == d % WeekDays
  <2>1. p \in Nat /\ v \in 0..(WeekDays - 1) /\ d = p * WeekDays + v
    BY <1>1, Split, Constants
  <2>2. PICK w \in e.wday : TRUE
    OBVIOUS
  <2>3. w \in 0..(WeekDays - 1)
    BY DEF FieldSets
  <2> HIDE DEF p, v
  <2>4. \E n \in 0..(WeekDays - 1) : (d + n) % WeekDays = w
    <3>1. CASE w >= v
      <4>3. p * WeekDays \in Nat /\ WeekDays \in Nat \ {0}
        BY <2>1, Constants
      <4>1. d + (w - v) = p * WeekDays + w /\ w - v \in 0..(WeekDays - 1)
        BY <2>1, <2>3, <3>1, <4>3
      <4>2. (p * WeekDays + w) % WeekDays = w
        BY <2>1, <2>3, <4>3, Join
      <4> QED
        BY <4>1, <4>2, Zenon
    <3>2. CASE w < v
      <4>1. d + (w - v + WeekDays) = (p + 1) * WeekDays + w /\ w - v + WeekDays \in 0..(WeekDays - 1)
        BY <2>1, <2>3, <3>2, Constants
      <4>2. p + 1 \in Nat
        BY <2>1
      <4>3. ((p + 1) * WeekDays + w) % WeekDays = w
        BY <4>2, <2>3, Join, Constants
      <4> QED
        BY <4>1, <4>3, Zenon
    <3> QED
      BY <2>1, <2>3, <3>1, <3>2, Constants
  <2>5. PICK n \in 0..(WeekDays - 1) : (d + n) % WeekDays = w
    BY <2>4
  <2>6. n \in 0..SearchDays /\ n < WeekDays
    <3>1. SearchDays >= WeekDays
      BY CalendarAssumption
    <3> QED
      BY <2>5, <3>1, Constants
  <2>7. d + n \in Days => DayHits(e, d + n)
    BY <1>2, <1>3, <2>2, <2>5 DEF DayHits, DayOfMonthFree
  <2> QED
    BY <2>6, <2>7
<1>4. CASE DayOfWeekFree(e)
  <2>1. PICK v \in e.mday : TRUE
    OBVIOUS
  <2>2. v \in 1..LongestMonth
    BY DEF FieldSets
  <2>3. PICK later \in d..(d + SearchDays) : later \in Days => DayOfMonth(later) = v
    BY <2>2, CalendarAssumption
  <2> DEFINE n == later - d
  <2>4. n \in 0..SearchDays /\ d + n = later
    BY <1>1, <2>3, Constants
  <2>5. later \in Days => later % WeekDays \in 0..(WeekDays - 1)
    BY <1>1, Split, Constants
  <2>6. later \in Days => DayHits(e, later)
    BY <1>4, <2>1, <2>3, <2>5 DEF DayHits, DayOfWeekFree
  <2> QED
    BY <1>4, <2>4, <2>6
<1> QED
  BY <1>3, <1>4

\* The search of the day: the first of the days from this one on that both fields
\* allow.  It is on another day of the month.
LEMMA FindDay ==
  ASSUME SteadyClock, NEW e \in FieldSets, e.mday # {}, e.wday # {},
         DayOfMonthFree(e) \/ DayOfWeekFree(e),
         NEW t \in Instants, ~DayMatches(e, t), NEW R \in SUBSET {"sec", "min", "hour"}
  PROVE  \E n \in Nat \ {0} :
           /\ FindNextDay(e, t, R) = [seen |-> LaterSeen(t, R, n), at |-> LaterAt(t, R, n)]
           /\ DayOf(t) + n \in Days => DayHits(e, DayOf(t) + n)
           /\ \A k \in 0..(n - 1) :
                DayOf(t) + k \in Days /\ ~DayHits(e, DayOf(t) + k)
           /\ DayOf(t) + n \in Days => DayOfMonth(DayOf(t) + n) # DayOfMonth(DayOf(t))
<1> DEFINE d == DayOf(t)
           Stops(n) == \/ LaterSeen(t, R, n) = Invalid
                       \/ DayMatches(e, LaterSeen(t, R, n))
           stops == {n \in 0..SearchDays : Stops(n)}
           n == Min(stops)
<1>1. d \in Days /\ d \in Nat
  BY Parts
<1>2. ASSUME NEW k \in Nat \ {0}
      PROVE  Stops(k) <=> (d + k \in Days => DayHits(e, d + k))
  <2> DEFINE x == LaterSeen(t, R, k)
  <2>1. /\ d + k \in Days => x \in Instants /\ DayOf(x) = d + k
        /\ d + k \notin Days => x = Invalid
    BY TurnIs
  <2> HIDE DEF x, d
  <2>2. CASE d + k \in Days
    <3>1. x # Invalid
      BY <2>1, <2>2, Local
    <3>2. DayMatches(e, x) <=> DayHits(e, d + k)
      BY <2>1, <2>2, DayHitsIs
    <3> QED
      BY <2>2, <3>1, <3>2 DEF x
  <2>3. CASE d + k \notin Days
    BY <2>1, <2>3 DEF x
  <2> QED
    BY <2>2, <2>3
<1>3. ~Stops(0) /\ ~DayHits(e, d)
  BY Local, DayHitsIs DEF LaterSeen
<1>4. PICK c \in 0..SearchDays :
        /\ d + c \in Days => DayHits(e, d + c)
        /\ c < WeekDays \/ DayOfWeekFree(e)
  BY <1>1, DayComes
<1>5. c # 0
  <2>1. d + 0 = d
    BY <1>1
  <2>2. d + 0 \in Days /\ ~DayHits(e, d + 0)
    BY <1>1, <1>3, <2>1
  <2> QED
    BY <1>4, <2>2, Zenon
<1>6. c \in stops
  <2>1. c \in Nat \ {0}
    BY <1>4, <1>5, Constants
  <2>2. Stops(c)
    BY <1>2, <1>4, <2>1
  <2> HIDE DEF Stops
  <2> QED
    BY <2>2
<1>7. stops \in SUBSET Nat
  <2>1. \A x \in 0..SearchDays : x \in Nat
    OBVIOUS
  <2> QED
    BY <2>1, Zenon
<1>8. n \in stops /\ \A i \in stops : n <= i
  BY <1>6, <1>7, MinIs
<1> HIDE DEF n
<1>9. n \in Nat \ {0} /\ n <= c /\ n \in 0..SearchDays
  BY <1>3, <1>6, <1>7, <1>8
<1>10. \A k \in 0..(n - 1) : ~Stops(k)
  <2>1. ASSUME NEW k \in 0..(n - 1) PROVE k \notin stops /\ k \in 0..SearchDays
    BY <1>8, <1>9, Constants
  <2> QED
    BY <2>1
<1>11. FindNextDay(e, t, R) = [seen |-> LaterSeen(t, R, n), at |-> LaterAt(t, R, n)]
  BY <1>8, <1>9, <1>10, LoopIs
<1>12. ASSUME NEW k \in 0..(n - 1) PROVE d + k \in Days /\ ~DayHits(e, d + k)
  <2>1. CASE k = 0
    BY <1>1, <1>3, <2>1
  <2>2. CASE k # 0
    <3>1. k \in Nat \ {0}
      BY <1>9, <2>2
    <3>2. ~Stops(k)
      BY <1>10
    <3> HIDE DEF Stops
    <3> QED
      BY <1>2, <3>1, <3>2
  <2> QED
    BY <2>1, <2>2
<1>13. d + n \in Days => DayHits(e, d + n)
  <2>1. Stops(n)
    BY <1>8
  <2> HIDE DEF Stops
  <2> QED
    BY <1>2, <1>9, <2>1
<1>14. ASSUME d + n \in Days PROVE DayOfMonth(d + n) # DayOfMonth(d)
  <2>1. CASE n < WeekDays
    <3>1. n \in 1..(WeekDays - 1)
      BY <1>9, <2>1, Constants
    <3> QED
      BY <1>1, <1>14, <3>1, OtherDay
  <2>2. CASE ~(n < WeekDays)
    <3>1. DayOfWeekFree(e)
      BY <1>4, <1>9, <2>2, Constants
    <3>2. d % WeekDays \in e.wday
      BY <1>1, <3>1, Split, Constants DEF DayOfWeekFree
    <3> QED
      BY <1>3, <1>13, <1>14, <3>2 DEF DayHits
  <2> QED
    BY <2>1, <2>2
<1> QED
  BY <1>9, <1>11, <1>12, <1>13, <1>14

\* The day that the search of the day returns is the one it leaves in the calendar.
LEMMA SeenIs ==
  ASSUME SteadyClock, NEW e \in FieldSets, e.mday # {}, e.wday # {},
         DayOfMonthFree(e) \/ DayOfWeekFree(e),
         NEW t \in Instants, ~DayMatches(e, t), NEW R \in SUBSET {"sec", "min", "hour"}
  PROVE  LET f == FindNextDay(e, t, R)
         IN  f.at # Invalid => LocalTime(f.seen).mday = LocalTime(f.at).mday
<1> DEFINE f == FindNextDay(e, t, R)
           d == DayOf(t)
<1>1. PICK n \in Nat \ {0} : f = [seen |-> LaterSeen(t, R, n), at |-> LaterAt(t, R, n)]
  BY FindDay
<1> HIDE DEF f
<1>2. SUFFICES ASSUME f.at # Invalid PROVE LocalTime(f.seen).mday = LocalTime(f.at).mday
  BY DEF f
<1>3. f.at = LaterAt(t, R, n) /\ f.seen = LaterSeen(t, R, n) /\ n \in Nat
  BY <1>1
<1>4. d + n \in Days /\ f.at \in Instants /\ DayOf(f.at) = d + n
  BY <1>2, <1>3, LaterAtIs
<1>5. f.seen \in Instants /\ DayOf(f.seen) = d + n
  <2>1. LaterSeen(t, R, n) \in Instants /\ DayOf(LaterSeen(t, R, n)) = d + n
    BY <1>1, <1>4, TurnIs
  <2> QED
    BY <1>3, <2>1, Zenon
<1> QED
  BY <1>4, <1>5, Local

-----------------------------------------------------------------------------
(* The search of the month.                                                 *)

LEMMA FirstDaysRise ==
  ASSUME NEW m \in 0..EndMonth, NEW n \in 0..EndMonth, m <= n
  PROVE  FirstDays[m] <= FirstDays[n]
<1>1. FirstDays[m] \in Nat /\ FirstDays[n] \in Nat
  BY Constants
<1>2. CASE m = n
  BY <1>1, <1>2
<1>3. CASE m < n
  BY <1>1, <1>3, FirstDaysGrow
<1> QED
  BY <1>2, <1>3, Constants

\* A month's day of the month that the month may not have: the days past its end are
\* carried into a later month, over months that have no such day either.
LEMMA Overflow ==
  ASSUME SteadyClock, NEW k \in 0..(EndMonth - 1), NEW c \in 1..LongestMonth,
         NEW h \in 0..(Hours - 1), NEW m \in 0..(Minutes - 1), NEW s \in 0..(Seconds - 1)
  PROVE  LET x == Ins(FirstDays[k] + c - 1, h, m, s)
         IN  /\ x \in Instants =>
                  /\ MonthAt(x) \in k..(EndMonth - 1)
                  /\ \A j \in k..(MonthAt(x) - 1) : DaysIn(j) < c
             /\ x \notin Instants => \A j \in k..(EndMonth - 1) : DaysIn(j) < c
             /\ c <= DaysIn(k) =>
                  x \in Instants /\ MonthAt(x) = k /\ LocalTime(x).mday = c
             /\ x % Seconds = s /\ MinuteOf(x) % Minutes = m /\ HourOf(x) % Hours = h
             /\ DayOf(x) = FirstDays[k] + c - 1
<1> DEFINE day == FirstDays[k] + c - 1
           x == Ins(day, h, m, s)
<1>1. /\ FirstDays[k] \in Nat /\ FirstDays[k + 1] \in Nat /\ day \in Nat /\ FirstDays[k] <= day
      /\ DaysIn(k) = FirstDays[k + 1] - FirstDays[k] /\ k \in 0..EndMonth /\ k + 1 \in 0..EndMonth
  BY MonthLengths, Constants
<1>2. /\ x \in Instants <=> day \in Days
      /\ DayOf(x) = day /\ x % Seconds = s /\ MinuteOf(x) % Minutes = m
      /\ HourOf(x) % Hours = h
  BY <1>1, OfDay
<1>3. ASSUME NEW e \in k..EndMonth, FirstDays[e] <= day
      PROVE  \A j \in k..(e - 1) : DaysIn(j) < c
  <2>1. SUFFICES ASSUME NEW j \in k..(e - 1) PROVE DaysIn(j) < c
    OBVIOUS
  <2>2. /\ j \in 0..(EndMonth - 1) /\ j \in 0..EndMonth /\ j + 1 \in 0..EndMonth
        /\ e \in 0..EndMonth /\ k <= j /\ j + 1 <= e
    BY <1>1, Constants
  <2>3. FirstDays[k] <= FirstDays[j] /\ FirstDays[j + 1] <= FirstDays[e]
    BY <1>1, <2>2, FirstDaysRise
  <2>4. /\ FirstDays[j] \in Nat /\ FirstDays[j + 1] \in Nat /\ FirstDays[e] \in Nat
        /\ DaysIn(j) = FirstDays[j + 1] - FirstDays[j]
    BY <2>2, MonthLengths, Constants
  <2> QED
    BY <1>1, <1>3, <2>3, <2>4
<1> HIDE DEF x
<1>4. ASSUME x \in Instants
      PROVE  /\ MonthAt(x) \in k..(EndMonth - 1)
             /\ \A j \in k..(MonthAt(x) - 1) : DaysIn(j) < c
  <2> DEFINE n == MonthAt(x)
  <2>1. n \in 0..(EndMonth - 1) /\ FirstDays[n] <= day /\ day < FirstDays[n + 1]
    BY <1>2, <1>4, MonthOfDay DEF MonthAt
  <2> HIDE DEF n, day
  <2>2. n + 1 \in 0..EndMonth /\ FirstDays[n + 1] \in Nat
    BY <2>1, Constants
  <2>3. ~(n + 1 <= k)
    BY <1>1, <2>1, <2>2, FirstDaysRise
  <2>4. n \in k..(EndMonth - 1) /\ n \in k..EndMonth
    BY <1>1, <2>1, <2>3, Constants
  <2> QED
    BY <1>3, <2>1, <2>4 DEF n
<1>5. ASSUME x \notin Instants PROVE \A j \in k..(EndMonth - 1) : DaysIn(j) < c
  <2> HIDE DEF day
  <2>1. FirstDays[EndMonth] <= day /\ EndMonth \in k..EndMonth
    <3>1. day \in Nat /\ day \notin Days
      BY <1>1, <1>2, <1>5
    <3>2. FirstDays[EndMonth] \in Nat /\ EndMonth \in Nat
      BY Constants
    <3>3. FirstDays[EndMonth] <= day
      BY <3>1, <3>2 DEF Days
    <3> QED
      BY <3>2, <3>3
  <2> QED
    BY <1>3, <2>1
<1>6. ASSUME c <= DaysIn(k)
      PROVE  x \in Instants /\ MonthAt(x) = k /\ LocalTime(x).mday = c
  <2>1. day < FirstDays[k + 1]
    BY <1>1, <1>6
  <2>2. day \in Days /\ MonthOfDays[day] = k
    BY <1>1, <2>1, MonthIs
  <2>3. DayOfMonth(day) = c
    BY <1>1, <2>2 DEF DayOfMonth
  <2> QED
    BY <1>2, <2>2, <2>3, Local DEF MonthAt
<1> QED
  BY <1>2, <1>4, <1>5, <1>6 DEF x

\* What reset_all leaves of a date when the month stays.
LEMMA ResetDate ==
  ASSUME SteadyClock, NEW t \in Instants, NEW R \in SUBSET {"sec", "min", "hour", "mday"}
  PROVE  LET x == ResetAll(t, R)
         IN  /\ x \in Instants /\ MonthAt(x) = MonthAt(t)
             /\ DayOf(x) = IF "mday" \in R THEN FirstDays[MonthAt(t)] ELSE DayOf(t)
             /\ HourOf(x) % Hours = Rest(R, "hour", HourOf(t) % Hours, 0)
             /\ MinuteOf(x) % Minutes = Rest(R, "min", MinuteOf(t) % Minutes, 0)
             /\ x % Seconds = Rest(R, "sec", t % Seconds, 0)
<1> DEFINE k == MonthAt(t)
           c == Rest(R, "mday", LocalTime(t).mday, 1)
           h == Rest(R, "hour", HourOf(t) % Hours, 0)
           m == Rest(R, "min", MinuteOf(t) % Minutes, 0)
           s == Rest(R, "sec", t % Seconds, 0)
           x == Ins(FirstDays[k] + c - 1, h, m, s)
<1>1. h \in 0..(Hours - 1) /\ m \in 0..(Minutes - 1) /\ s \in 0..(Seconds - 1)
  <2>1. /\ HourOf(t) % Hours \in 0..(Hours - 1) /\ 0 \in 0..(Hours - 1)
        /\ MinuteOf(t) % Minutes \in 0..(Minutes - 1) /\ 0 \in 0..(Minutes - 1)
        /\ t % Seconds \in 0..(Seconds - 1) /\ 0 \in 0..(Seconds - 1)
    BY Parts, Constants
  <2> QED
    BY <2>1, Zenon DEF Rest
<1>2. /\ k \in 0..(EndMonth - 1) /\ LocalTime(t).year * Months + LocalTime(t).mon = k
      /\ LocalTime(t).mday \in 1..LongestMonth /\ LocalTime(t).mday <= DaysIn(k)
      /\ FirstDays[k] \in Nat /\ FirstDays[k] + LocalTime(t).mday - 1 = DayOf(t)
  BY Local
<1>3. DaysIn(k) \in WeekDays..LongestMonth /\ DaysIn(k) >= 1
  <2>1. DaysIn(k) \in WeekDays..LongestMonth
    BY <1>2, MonthLengths
  <2> HIDE DEF k
  <2> QED
    BY <2>1, Constants
<1>4. c \in 1..LongestMonth /\ c <= DaysIn(k)
  BY <1>2, <1>3, Constants DEF Rest
<1>5. FirstDays[k] + c - 1 = IF "mday" \in R THEN FirstDays[k] ELSE DayOf(t)
  BY <1>2 DEF Rest
<1> HIDE DEF c, h, m, s, k
<1>6. /\ x \in Instants /\ MonthAt(x) = k /\ DayOf(x) = FirstDays[k] + c - 1
      /\ x % Seconds = s /\ MinuteOf(x) % Minutes = m /\ HourOf(x) % Hours = h
  BY <1>1, <1>2, <1>4, Overflow
<1>7. ResetAll(t, R) = x
  <2>1. LocalTime(t).year * Months + Rest(R, "mon", LocalTime(t).mon, 0) = k
    BY <1>2 DEF Rest
  <2>2. ResetAll(t, R) = InOr(x)
    <3>1. k < EndMonth /\ "year" \notin R
      BY <1>2, Constants
    <3> QED
      BY <2>1, <3>1, ResetIs DEF c, h, m, s
  <2> QED
    BY <1>6, <2>2 DEF InOr
<1> QED
  BY <1>5, <1>6, <1>7 DEF k, h, m, s

\* The same date a year later, or the next day: of a month that is a day too short the
\* first day of the one after it, which is in the same year.  With the month reset it
\* is that day of the first month.
LEMMA NextYear ==
  ASSUME SteadyClock, NEW t \in Instants
  PROVE  LET x == ResetAll(AddTo(t, "year"), {"mon"})
             y == LocalTime(t).year + 1
         IN  IF y <= LastYear
               THEN /\ x \in Instants /\ LocalTime(x).year = y
                    /\ LocalTime(x).mday \in {LocalTime(t).mday, 1}
                    /\ HourOf(x) % Hours = HourOf(t) % Hours
                    /\ MinuteOf(x) % Minutes = MinuteOf(t) % Minutes
                    /\ x % Seconds = t % Seconds
               ELSE x = Invalid
<1> DEFINE y == LocalTime(t).year + 1
           v == LocalTime(t).mon
           c == LocalTime(t).mday
           h == HourOf(t) % Hours
           m == MinuteOf(t) % Minutes
           s == t % Seconds
           n == y * Months + v
           z == Ins(FirstDays[n] + c - 1, h, m, s)
           z0 == AddTo(t, "year")
<1>1. /\ y - 1 \in 0..LastYear /\ y \in Nat /\ v \in 0..(Months - 1)
      /\ MonthAt(t) \in 0..(EndMonth - 1)
      /\ MonthAt(t) = (y - 1) * Months + v /\ c \in 1..LongestMonth /\ c <= DaysIn(MonthAt(t))
  <2>1. LocalTime(t).year \in Nat /\ y - 1 = LocalTime(t).year
    <3>1. LocalTime(t).year \in 0..LastYear
      BY Local
    <3> QED
      BY <3>1
  <2> QED
    BY <2>1, Local
<1>2. h \in 0..(Hours - 1) /\ m \in 0..(Minutes - 1) /\ s \in 0..(Seconds - 1)
  BY Parts
<1>3. z0 = IF n < EndMonth THEN InOr(z) ELSE Invalid
  <2>1. z0 = Mktime([LocalTime(t) EXCEPT !["year"] = y])
    BY Local DEF AddTo
  <2>2. y \in Int
    BY <1>1
  <2> HIDE DEF y
  <2>3. Mktime([LocalTime(t) EXCEPT !["year"] = y])
          = IF y * Months + v < EndMonth
              THEN InOr(Ins(FirstDays[y * Months + v] + c - 1, h, m, s))
              ELSE Invalid
    BY <2>2, SetIs
  <2> QED
    BY <2>1, <2>3, Zenon
<1> HIDE DEF y, v, c, h, m, s, z0
<1>4. EndMonth = (LastYear + 1) * Months /\ n = MonthAt(t) + Months /\ n \in Nat
  <2>1. EndMonth = (LastYear + 1) * Months
    BY Constants DEF EndMonth
  <2>2. y * Months = (y - 1) * Months + Months
    BY <1>1, Constants
  <2> QED
    BY <1>1, <2>1, <2>2, Constants
<1>5. CASE ~(y <= LastYear)
  <2>1. y = LastYear + 1
    BY <1>1, <1>5, Constants
  <2>2. n >= EndMonth
    BY <1>1, <1>4, <2>1, Constants
  <2>3. z0 = Invalid
    BY <1>3, <1>4, <2>2, Constants
  <2> QED
    BY <1>5, <2>3, StaysInvalid DEF y, z0
<1>6. CASE y <= LastYear
  <2>1. n < EndMonth /\ n \in 0..(EndMonth - 1)
    <3>1. y < LastYear + 1
      BY <1>1, <1>6, Constants
    <3>2. y * Months + v < (LastYear + 1) * Months
      BY <1>1, <3>1, Ahead, Constants
    <3> QED
      BY <1>4, <3>2, Constants
  <2>2. n % Months = v /\ n \div Months = y
    <3>1. y \in Nat /\ v \in 0..(Months - 1)
      BY <1>1
    <3> HIDE DEF y, v
    <3>2. Months \in Nat \ {0}
      BY Constants
    <3> QED
      BY <3>1, <3>2, Join
  <2>3. /\ DaysIn(n) \in WeekDays..LongestMonth /\ DaysIn(MonthAt(t)) \in WeekDays..LongestMonth
        /\ DaysIn(MonthAt(t)) <= DaysIn(n) + 1
        /\ v \in {0, Months - 1} => DaysIn(n) = LongestMonth
    BY <1>1, <1>4, <2>1, <2>2, CalendarAssumption
  <2>4. /\ z \in Instants /\ z0 = z /\ LocalTime(z).year = y
        /\ LocalTime(z).mday \in {c, 1} /\ LocalTime(z).mday \in 1..LongestMonth
        /\ z % Seconds = s /\ MinuteOf(z) % Minutes = m /\ HourOf(z) % Hours = h
    <3> HIDE DEF n
    <3>1. /\ z % Seconds = s /\ MinuteOf(z) % Minutes = m /\ HourOf(z) % Hours = h
          /\ DayOf(z) = FirstDays[n] + c - 1
          /\ c <= DaysIn(n) => z \in Instants /\ MonthAt(z) = n /\ LocalTime(z).mday = c
      BY <1>1, <1>2, <2>1, Overflow
    <3>2. CASE c <= DaysIn(n)
      <4>1. LocalTime(z).year = y
        BY <2>2, <3>1, <3>2, Local
      <4> HIDE DEF z
      <4> QED
        BY <1>1, <1>3, <2>1, <3>1, <3>2, <4>1 DEF InOr
    <3>3. CASE ~(c <= DaysIn(n))
      <4>1. c = DaysIn(n) + 1
        BY <1>1, <2>3, <3>3, Constants
      <4>2. v + 1 \in 0..(Months - 1)
        BY <1>1, <2>3, <3>3, Constants
      <4>3. n + 1 = y * Months + (v + 1)
        BY <1>1, Constants DEF n
      <4>4. (n + 1) \div Months = y
        BY <1>1, <4>2, <4>3, Join, Constants
      <4>5. n + 1 \in 0..(EndMonth - 1)
        <5>1. y < LastYear + 1
          BY <1>1, <1>6, Constants
        <5>2. y * Months + (v + 1) < (LastYear + 1) * Months
          BY <1>1, <4>2, <5>1, Ahead, Constants
        <5> QED
          BY <1>4, <2>1, <4>3, <5>2, Constants
      <4>6. /\ FirstDays[n] \in Nat /\ FirstDays[n + 1] \in Nat
            /\ DaysIn(n) = FirstDays[n + 1] - FirstDays[n]
        BY <2>1, MonthLengths
      <4>7. FirstDays[n] + c - 1 = FirstDays[n + 1] + 1 - 1
        BY <4>1, <4>6
      <4>8. 1 \in 1..LongestMonth /\ 1 <= DaysIn(n + 1)
        <5>1. DaysIn(n + 1) \in WeekDays..LongestMonth
          BY <4>5, MonthLengths
        <5> QED
          BY <5>1, Constants
      <4>9. z = Ins(FirstDays[n + 1] + 1 - 1, h, m, s)
        BY <4>7, Zenon
      <4> HIDE DEF z
      <4>10. z \in Instants /\ MonthAt(z) = n + 1 /\ LocalTime(z).mday = 1
        BY <1>2, <4>5, <4>8, <4>9, Overflow
      <4>11. LocalTime(z).year = y
        BY <4>4, <4>10, Local
      <4> QED
        BY <1>3, <2>1, <3>1, <4>8, <4>10, <4>11 DEF InOr
    <3> QED
      BY <3>2, <3>3
  <2> DEFINE k == y * Months + 0
             b == LocalTime(z).mday
             x == Ins(FirstDays[k] + b - 1, h, m, s)
  <2>5. k % Months = 0 /\ k \div Months = y /\ k \in Nat
    <3>1. 0 \in 0..(Months - 1) /\ Months \in Nat \ {0}
      BY Constants
    <3> QED
      BY <1>1, <3>1, Join
  <2>6. k \in 0..(EndMonth - 1)
    BY <1>1, <2>1, <2>5, Constants
  <2>7. DaysIn(k) = LongestMonth
    BY <2>5, <2>6, CalendarAssumption
  <2> HIDE DEF z, k, b, x
  <2>8. ResetAll(z0, {"mon"}) = InOr(x)
    <3>1. LocalTime(z).year * Months + Rest({"mon"}, "mon", LocalTime(z).mon, 0) = k
      BY <2>4 DEF Rest, k
    <3>2. /\ Rest({"mon"}, "mday", LocalTime(z).mday, 1) = b
          /\ Rest({"mon"}, "hour", HourOf(z) % Hours, 0) = h
          /\ Rest({"mon"}, "min", MinuteOf(z) % Minutes, 0) = m
          /\ Rest({"mon"}, "sec", z % Seconds, 0) = s
      BY <2>4 DEF Rest, b
    <3>3. k < EndMonth
      BY <2>6, Constants
    <3> QED
      BY <2>4, <3>1, <3>2, <3>3, ResetIs DEF x
  <2>9. b \in 1..LongestMonth /\ b <= DaysIn(k)
    BY <2>4, <2>7, Constants DEF b
  <2>10. /\ x \in Instants /\ MonthAt(x) = k /\ LocalTime(x).mday = b
         /\ x % Seconds = s /\ MinuteOf(x) % Minutes = m /\ HourOf(x) % Hours = h
    BY <1>2, <2>6, <2>9, Overflow DEF x
  <2>11. LocalTime(x).year = y
    BY <2>5, <2>10, Local
  <2>12. ResetAll(z0, {"mon"}) = x
    BY <2>8, <2>10 DEF InOr
  <2> QED
    BY <1>6, <2>4, <2>10, <2>11, <2>12 DEF b, y, c, h, m, s, z0
<1> QED
  BY <1>5, <1>6

\* Setting the month, with what is reset: the month set or a later one, over months that
\* have no such day.
LEMMA SetMonth ==
  ASSUME SteadyClock, NEW t \in Instants, NEW i \in 0..(Months - 1),
         NEW R \in SUBSET {"sec", "min", "hour", "mday"}
  PROVE  LET f == ResetAll(SetField(t, "mon", i), R)
             n == LocalTime(t).year * Months + i
             c == LocalTime(t).mday
         IN  /\ n \in 0..(EndMonth - 1)
             /\ f # Invalid =>
                  /\ f \in Instants /\ MonthAt(f) \in n..(EndMonth - 1)
                  /\ \A j \in n..(MonthAt(f) - 1) : DaysIn(j) < c
                  /\ "mday" \in R => DayOf(f) = FirstDays[MonthAt(f)]
                  /\ HourOf(f) % Hours = Rest(R, "hour", HourOf(t) % Hours, 0)
                  /\ MinuteOf(f) % Minutes = Rest(R, "min", MinuteOf(t) % Minutes, 0)
                  /\ f % Seconds = Rest(R, "sec", t % Seconds, 0)
             /\ f = Invalid => \A j \in n..(EndMonth - 1) : DaysIn(j) < c
<1> DEFINE f == ResetAll(SetField(t, "mon", i), R)
           n == LocalTime(t).year * Months + i
           c == LocalTime(t).mday
           h == HourOf(t) % Hours
           m == MinuteOf(t) % Minutes
           s == t % Seconds
           x == Ins(FirstDays[n] + c - 1, h, m, s)
<1>1. n \in 0..(EndMonth - 1)
  <2> DEFINE y == LocalTime(t).year
  <2>1. y \in 0..LastYear
    BY Local
  <2> HIDE DEF y
  <2>2. y < LastYear + 1 /\ y \in Nat /\ LastYear + 1 \in Nat
    BY <2>1, Constants
  <2>3. y * Months + i < (LastYear + 1) * Months /\ y * Months + i \in Nat
    BY <2>2, Ahead, Join, Constants
  <2>4. EndMonth = (LastYear + 1) * Months
    BY Constants DEF EndMonth
  <2> QED
    BY <2>3, <2>4, Constants DEF y
<1>2. SetField(t, "mon", i) = InOr(x)
  <2>1. SetField(t, "mon", i) = Mktime([LocalTime(t) EXCEPT !["mon"] = i])
    BY Local DEF SetField
  <2>2. n < EndMonth /\ i \in Int
    BY <1>1, Constants
  <2> QED
    BY <2>1, <2>2, SetIs
<1>3. /\ c \in 1..LongestMonth /\ h \in 0..(Hours - 1) /\ m \in 0..(Minutes - 1)
      /\ s \in 0..(Seconds - 1)
  BY Local, Parts
<1> HIDE DEF n, c, h, m, s
<1>4. /\ x \in Instants =>
           /\ MonthAt(x) \in n..(EndMonth - 1)
           /\ \A j \in n..(MonthAt(x) - 1) : DaysIn(j) < c
      /\ x \notin Instants => \A j \in n..(EndMonth - 1) : DaysIn(j) < c
      /\ x % Seconds = s /\ MinuteOf(x) % Minutes = m /\ HourOf(x) % Hours = h
  BY <1>1, <1>3, Overflow
<1> HIDE DEF x
<1>5. CASE x \in Instants
  <2>1. f = ResetAll(x, R)
    BY <1>2, <1>5 DEF InOr
  <2>2. /\ f \in Instants /\ MonthAt(f) = MonthAt(x)
        /\ DayOf(f) = IF "mday" \in R THEN FirstDays[MonthAt(x)] ELSE DayOf(x)
        /\ HourOf(f) % Hours = Rest(R, "hour", h, 0)
        /\ MinuteOf(f) % Minutes = Rest(R, "min", m, 0)
        /\ f % Seconds = Rest(R, "sec", s, 0)
    BY <1>4, <1>5, <2>1, ResetDate
  <2>3. f # Invalid
    BY <2>2, Local
  <2> HIDE DEF f
  <2>4. "mday" \in R => DayOf(f) = FirstDays[MonthAt(f)]
    BY <2>2
  <2> QED
    BY <1>1, <1>4, <1>5, <2>2, <2>3, <2>4 DEF f, n, c, h, m, s
<1>6. CASE x \notin Instants
  <2>1. f = Invalid
    BY <1>2, <1>6, StaysInvalid DEF InOr
  <2> QED
    BY <1>1, <1>4, <1>6, <2>1 DEF n, c
<1> QED
  BY <1>5, <1>6

\* The search of the month: the next month of the set, or a later one over months that
\* lack the day.
LEMMA FindMon ==
  ASSUME SteadyClock, NEW t \in Instants, NEW bits \in SUBSET (0..(Months - 1)), bits # {},
         LocalTime(t).mon \notin bits, NEW R \in SUBSET {"sec", "min", "hour", "mday"}
  PROVE  LET f == FindNext(bits, t, "mon", R)
             N == Upper(bits, MonthAt(t), Months)
             c == LocalTime(t).mday
         IN  /\ f # Invalid =>
                  /\ f \in Instants /\ MonthAt(f) \in N..(EndMonth - 1)
                  /\ \A j \in N..(MonthAt(f) - 1) : DaysIn(j) < c
                  /\ "mday" \in R => DayOf(f) = FirstDays[MonthAt(f)]
                  /\ HourOf(f) % Hours = Rest(R, "hour", HourOf(t) % Hours, 0)
                  /\ MinuteOf(f) % Minutes = Rest(R, "min", MinuteOf(t) % Minutes, 0)
                  /\ f % Seconds = Rest(R, "sec", t % Seconds, 0)
             /\ f = Invalid => \A j \in N..(EndMonth - 1) : DaysIn(j) < c
<1> DEFINE v == LocalTime(t).mon
           y == LocalTime(t).year
           c == LocalTime(t).mday
           n == MonthAt(t)
           ahead == {i \in bits : i >= v}
           rolled == ResetAll(AddTo(t, "year"), {"mon"})
           f == FindNext(bits, t, "mon", R)
           N == Upper(bits, n, Months)
<1>1. Carry["mon"] = "year"
  BY DEF Carry
<1>2. /\ ahead # {} => f = ResetAll(SetField(t, "mon", Min(ahead)), R)
      /\ ahead = {} => f = ResetAll(SetField(rolled, "mon", Min(bits)), R)
  BY <1>1 DEF FindNext
<1>3. v = n % Months /\ y = n \div Months
  BY Local, Zenon
<1>4. /\ ahead # {} => N = y * Months + Min(ahead)
      /\ ahead = {} => N = (y + 1) * Months + Min(bits)
  BY <1>3 DEF Upper
<1>5. \A S \in SUBSET (0..(Months - 1)) : S # {} => Min(S) \in 0..(Months - 1)
  BY MinIn, Constants
<1>6. ahead \in SUBSET (0..(Months - 1))
  BY Zenon
<1>7. y \in Nat /\ c \in 1..LongestMonth
  <2>1. y \in 0..LastYear /\ c \in 1..LongestMonth
    BY Local
  <2> HIDE DEF y, c
  <2> QED
    BY <2>1
<1>8. CASE ahead # {}
  <2>1. Min(ahead) \in 0..(Months - 1)
    BY <1>5, <1>6, <1>8
  <2>2. f = ResetAll(SetField(t, "mon", Min(ahead)), R) /\ N = y * Months + Min(ahead)
    BY <1>2, <1>4, <1>8, Zenon
  <2> DEFINE i == Min(ahead)
  <2> HIDE DEF i, f, N
  <2>3. /\ f # Invalid =>
             /\ f \in Instants /\ MonthAt(f) \in N..(EndMonth - 1)
             /\ \A j \in N..(MonthAt(f) - 1) : DaysIn(j) < c
             /\ "mday" \in R => DayOf(f) = FirstDays[MonthAt(f)]
             /\ HourOf(f) % Hours = Rest(R, "hour", HourOf(t) % Hours, 0)
             /\ MinuteOf(f) % Minutes = Rest(R, "min", MinuteOf(t) % Minutes, 0)
             /\ f % Seconds = Rest(R, "sec", t % Seconds, 0)
        /\ f = Invalid => \A j \in N..(EndMonth - 1) : DaysIn(j) < c
    BY <2>1, <2>2, SetMonth DEF i
  <2> QED
    BY <2>3, Zenon DEF f, N
<1>9. CASE ahead = {}
  <2> DEFINE i == Min(bits)
  <2>1. i \in 0..(Months - 1)
    BY <1>5
  <2>2. f = ResetAll(SetField(rolled, "mon", i), R) /\ N = (y + 1) * Months + i
    BY <1>2, <1>4, <1>9, Zenon
  <2> HIDE DEF i, f, N, ahead
  <2>3. CASE y + 1 <= LastYear
    <3>1. /\ rolled \in Instants /\ LocalTime(rolled).year = y + 1
          /\ LocalTime(rolled).mday \in {c, 1}
          /\ HourOf(rolled) % Hours = HourOf(t) % Hours
          /\ MinuteOf(rolled) % Minutes = MinuteOf(t) % Minutes
          /\ rolled % Seconds = t % Seconds
      BY <2>3, NextYear
    <3> DEFINE b == LocalTime(rolled).mday
    <3>2. /\ N \in 0..(EndMonth - 1)
          /\ f # Invalid =>
               /\ f \in Instants /\ MonthAt(f) \in N..(EndMonth - 1)
               /\ \A j \in N..(MonthAt(f) - 1) : DaysIn(j) < b
               /\ "mday" \in R => DayOf(f) = FirstDays[MonthAt(f)]
               /\ HourOf(f) % Hours = Rest(R, "hour", HourOf(t) % Hours, 0)
               /\ MinuteOf(f) % Minutes = Rest(R, "min", MinuteOf(t) % Minutes, 0)
               /\ f % Seconds = Rest(R, "sec", t % Seconds, 0)
          /\ f = Invalid => \A j \in N..(EndMonth - 1) : DaysIn(j) < b
      <4> HIDE DEF rolled, y
      <4> QED
        BY <2>1, <2>2, <3>1, SetMonth
    <3>3. b <= c /\ b \in Nat
      BY <1>7, <3>1, Constants
    <3> HIDE DEF b, c, rolled
    <3>4. \A j \in N..(EndMonth - 1) : DaysIn(j) < b => DaysIn(j) < c
      <4>1. SUFFICES ASSUME NEW j \in N..(EndMonth - 1), DaysIn(j) < b PROVE DaysIn(j) < c
        OBVIOUS
      <4>2. j \in 0..(EndMonth - 1)
        BY <3>2, Constants
      <4>3. DaysIn(j) \in Nat
        BY <4>2, MonthLengths, Constants
      <4> QED
        BY <1>7, <3>3, <4>1, <4>3
    <3>5. f # Invalid => \A j \in N..(MonthAt(f) - 1) : j \in N..(EndMonth - 1)
      BY <3>2, Constants
    <3> QED
      BY <3>2, <3>4, <3>5 DEF c, f, N
  <2>4. CASE ~(y + 1 <= LastYear)
    <3>1. rolled = Invalid
      BY <2>4, NextYear
    <3>2. f = Invalid
      BY <2>2, <3>1, StaysInvalid
    <3>3. N >= EndMonth /\ N \in Nat
      <4> HIDE DEF y
      <4>1. (y + 1) * Months >= (LastYear + 1) * Months
        <5>1. y + 1 = LastYear + 1 \/ LastYear + 1 < y + 1
          BY <1>7, <2>4, Constants
        <5>2. LastYear + 1 \in Int /\ y + 1 \in Int /\ 0 \in 0..(Months - 1)
          BY <1>7, Constants
        <5>3. LastYear + 1 < y + 1 => (LastYear + 1) * Months + 0 < (y + 1) * Months
          BY <5>2, Ahead, Constants
        <5> QED
          BY <1>7, <5>1, <5>3, Constants
      <4>2. EndMonth = (LastYear + 1) * Months
        BY Constants DEF EndMonth
      <4>3. N \in Nat
        <5>1. y + 1 \in Nat
          BY <1>7
        <5> QED
          BY <2>1, <2>2, <5>1, Join, Constants
      <4> QED
        BY <1>7, <2>1, <2>2, <4>1, <4>2, <4>3, Constants
    <3>4. \A j \in N..(EndMonth - 1) : FALSE
      BY <3>3, Constants
    <3> QED
      BY <3>2, <3>4 DEF f, N
  <2> QED
    BY <2>3, <2>4
<1> QED
  BY <1>8, <1>9

-----------------------------------------------------------------------------
(* What the search of one field does to the calendar.                       *)

LEMMA Above ==
  ASSUME NEW x \in Nat, NEW y \in Nat, NEW M \in Nat \ {0}, x \div M < y \div M
  PROVE  x < y
<1>1. x \div M \in Nat /\ y \div M \in Nat
  BY Split
<1>2. ~(y <= x)
  BY <1>1, DivMonotone
<1> QED
  BY <1>2

\* The first number of a group is not after one of the group or of a later one.
LEMMA Start ==
  ASSUME NEW x \in Nat, NEW y \in Nat, NEW M \in Nat \ {0}, x \div M <= y \div M, x % M = 0
  PROVE  x <= y
<1> DEFINE p == x \div M
           q == y \div M
           r == y % M
<1>1. p \in Nat /\ x = p * M + 0
  BY Split
<1>2. q \in Nat /\ r \in 0..(M - 1) /\ y = q * M + r
  BY Split
<1>3. p <= q
  OBVIOUS
<1> HIDE DEF p, q, r
<1>4. p < q => p * M + 0 < q * M
  BY <1>1, <1>2, Ahead
<1>5. p * M \in Nat /\ q * M \in Nat
  BY <1>1, <1>2
<1>6. CASE p = q
  BY <1>1, <1>2, <1>6
<1>7. CASE p < q
  BY <1>1, <1>2, <1>4, <1>5, <1>7
<1> QED
  BY <1>1, <1>2, <1>3, <1>6, <1>7

AllSeconds(e) == e.sec = 0..(Seconds - 1)

\* Field k of the order has one of its values; the day, of both fields.
Hits(e, k, t) ==
  IF k = 4 THEN DayMatches(e, t) ELSE LocalTime(t)[Order[k]] \in e[Order[k]]

\* What do_next finds for field k.
Find(e, t, k, R) ==
  IF k = 4 THEN FindNextDay(e, t, R).at ELSE FindNext(e[Order[k]], t, Order[k], R)

\* u is not before t, to the minute or, if every second is asked for, to the second.
Seen(e, t, u) == MinuteOf(t) <= MinuteOf(u) /\ (AllSeconds(e) => t <= u)

\* The fields before k are met, and are reset when field k changes.
Ready(e, t, k, R) ==
  /\ \A j \in 1..(k - 1) : Hits(e, j, t)
  /\ \A j \in 2..(k - 1) : Order[j] \in R
  /\ AllSeconds(e) /\ k >= 2 => "sec" \in R

\* The calendar moves forward, to the field's next value, and over no instant of the
\* expression but for seconds.
Moved(e, t, k, R, f) ==
  /\ f # Invalid =>
       /\ f \in Instants /\ t < f
       /\ k <= 4 => Hits(e, k, f)
       /\ k = 4 => LocalTime(f).mday # LocalTime(t).mday
       /\ k > 1 => f % Seconds \in {t % Seconds, 0}
  /\ MonthSafe(e) /\ Ready(e, t, k, R) =>
       \A u \in Instants :
         Matches(e, u) /\ Seen(e, t, u) /\ (k = 1 => t <= u) =>
           f # Invalid /\ Seen(e, f, u)

LEMMA OrderIs ==
  /\ Order[1] = "sec" /\ Order[2] = "min" /\ Order[3] = "hour" /\ Order[4] = "mday"
  /\ Order[5] = "mon" /\ Len(Order) = 5
BY DEF Order

\* The fields of an instant, met one by one.
LEMMA HitsIs ==
  ASSUME SteadyClock, NEW e \in FieldSets, NEW t \in Instants
  PROVE  /\ Hits(e, 1, t) <=> t % Seconds \in e.sec
         /\ Hits(e, 2, t) <=> MinuteOf(t) % Minutes \in e.min
         /\ Hits(e, 3, t) <=> HourOf(t) % Hours \in e.hour
         /\ Hits(e, 4, t) <=> DayHits(e, DayOf(t))
         /\ Hits(e, 5, t) <=> MonthAt(t) % Months \in e.mon
         /\ Matches(e, t) <=> \A k \in 1..5 : Hits(e, k, t)
<1>1. /\ LocalTime(t).sec = t % Seconds
      /\ LocalTime(t).min = MinuteOf(t) % Minutes
      /\ LocalTime(t).hour = HourOf(t) % Hours
      /\ LocalTime(t).mon = MonthAt(t) % Months
  BY Local
<1>2. /\ Hits(e, 1, t) <=> LocalTime(t).sec \in e.sec
      /\ Hits(e, 2, t) <=> LocalTime(t).min \in e.min
      /\ Hits(e, 3, t) <=> LocalTime(t).hour \in e.hour
      /\ Hits(e, 4, t) <=> DayMatches(e, t)
      /\ Hits(e, 5, t) <=> LocalTime(t).mon \in e.mon
  BY OrderIs DEF Hits
<1>3. DOMAIN e = {"sec", "min", "hour", "mday", "mon", "wday"}
  BY DEF FieldSets
<1>4. Matches(e, t) <=> /\ LocalTime(t).sec \in e.sec /\ LocalTime(t).min \in e.min
                       /\ LocalTime(t).hour \in e.hour /\ LocalTime(t).mday \in e.mday
                       /\ LocalTime(t).mon \in e.mon /\ LocalTime(t).wday \in e.wday
  BY <1>3 DEF Matches
<1>5. Matches(e, t) <=>
        Hits(e, 1, t) /\ Hits(e, 2, t) /\ Hits(e, 3, t) /\ Hits(e, 4, t) /\ Hits(e, 5, t)
  BY <1>2, <1>4 DEF DayMatches
<1>6. \A k \in 1..5 : k = 1 \/ k = 2 \/ k = 3 \/ k = 4 \/ k = 5
  OBVIOUS
<1>7. Matches(e, t) <=> \A k \in 1..5 : Hits(e, k, t)
  BY <1>5, <1>6
<1> QED
  BY <1>1, <1>2, <1>7, DayHitsIs

LEMMA SoundIs ==
  ASSUME NEW e \in FieldSets, Sound(e)
  PROVE  /\ e.sec # {} /\ e.min # {} /\ e.hour # {} /\ e.mday # {} /\ e.mon # {} /\ e.wday # {}
         /\ e.sec \in SUBSET (0..(Seconds - 1)) /\ e.min \in SUBSET (0..(Minutes - 1))
         /\ e.hour \in SUBSET (0..(Hours - 1)) /\ e.mon \in SUBSET (0..(Months - 1))
         /\ DayOfMonthFree(e) \/ DayOfWeekFree(e)
<1>1. DOMAIN e = {"sec", "min", "hour", "mday", "mon", "wday"}
  BY DEF FieldSets
<1>2. /\ e.sec \in SUBSET (0..(Seconds - 1)) /\ e.min \in SUBSET (0..(Minutes - 1))
      /\ e.hour \in SUBSET (0..(Hours - 1)) /\ e.mon \in SUBSET (0..(Months - 1))
  BY DEF FieldSets
<1> QED
  BY <1>1, <1>2 DEF Sound

LEMMA MoveSec ==
  ASSUME SteadyClock, NEW e \in FieldSets, Sound(e), NEW t \in Instants, ~Hits(e, 1, t)
  PROVE  Moved(e, t, 1, {}, Find(e, t, 1, {}))
<1> DEFINE f == Find(e, t, 1, {})
           U == Upper(e.sec, t, Seconds)
<1>1. t % Seconds \notin e.sec /\ t \in Nat
  BY HitsIs, Parts
<1>2. f = InOr(U)
  <2>1. f = FindNext(e.sec, t, "sec", {})
    BY OrderIs DEF Find
  <2> QED
    BY <1>1, <2>1, SoundIs, FindSec
<1>3. /\ U \in Nat /\ U > t /\ U % Seconds \in e.sec
      /\ \A u \in Nat : u >= t /\ u % Seconds \in e.sec => u >= U
  BY <1>1, SoundIs, UpperIs, Constants
<1> HIDE DEF f, U
<1>4. ASSUME f # Invalid
      PROVE  f \in Instants /\ t < f /\ Hits(e, 1, f) /\ f = U
  <2>1. f = U /\ f \in Instants
    BY <1>2, <1>4 DEF InOr
  <2>2. Hits(e, 1, f)
    BY <1>3, <2>1, HitsIs
  <2> QED
    BY <1>1, <1>3, <2>1, <2>2
<1>5. ASSUME NEW u \in Instants, Matches(e, u), t <= u
      PROVE  f # Invalid /\ Seen(e, f, u)
  <2>1. u \in Nat /\ u % Seconds \in e.sec
    BY <1>5, HitsIs, Parts
  <2>2. U <= u
    BY <1>1, <1>3, <1>5, <2>1
  <2>3. U \in Instants
    <3>1. Instants = 0..(Size * Hours * Minutes * Seconds - 1) /\ Size * Hours * Minutes * Seconds \in Nat
      BY Sizes
    <3> DEFINE K == Size * Hours * Minutes * Seconds
    <3> HIDE DEF K
    <3>2. Instants = 0..(K - 1) /\ K \in Nat
      BY <3>1 DEF K
    <3> QED
      BY <1>3, <2>1, <2>2, <3>2
  <2>4. f = U /\ f # Invalid
    BY <1>2, <1>3, <2>3 DEF InOr, Invalid
  <2>5. MinuteOf(f) <= MinuteOf(u)
    BY <1>3, <2>1, <2>2, <2>4, DivMonotone, Constants DEF MinuteOf
  <2> QED
    BY <2>2, <2>4, <2>5 DEF Seen
<1>6. Moved(e, t, 1, {}, f)
  BY <1>4, <1>5 DEF Moved
<1> QED
  BY <1>6 DEF f

LEMMA MoveMin ==
  ASSUME SteadyClock, NEW e \in FieldSets, Sound(e), NEW t \in Instants, ~Hits(e, 2, t),
         NEW R \in SUBSET {"sec"}
  PROVE  Moved(e, t, 2, R, Find(e, t, 2, R))
<1> DEFINE f == Find(e, t, 2, R)
           q == MinuteOf(t)
           U == Upper(e.min, q, Minutes)
           z == Rest(R, "sec", t % Seconds, 0)
           x == U * Seconds + z
<1>1. q % Minutes \notin e.min /\ q \in Nat /\ t \in Nat /\ t % Seconds \in 0..(Seconds - 1)
  BY HitsIs, Parts
<1>2. f = InOr(x)
  <2>1. f = FindNext(e.min, t, "min", R)
    BY OrderIs DEF Find
  <2> QED
    BY <1>1, <2>1, SoundIs, FindMin
<1>3. /\ U \in Nat /\ U > q /\ U % Minutes \in e.min
      /\ \A u \in Nat : u >= q /\ u % Minutes \in e.min => u >= U
  BY <1>1, SoundIs, UpperIs, Constants
<1>4. z \in 0..(Seconds - 1) /\ z \in {t % Seconds, 0} /\ ("sec" \in R => z = 0)
  BY <1>1, Constants DEF Rest
<1> HIDE DEF f, U, z
<1>5. /\ x \in Nat /\ MinuteOf(x) = U /\ x % Seconds = z
      /\ x \in Instants <=> U < Size * Hours * Minutes
  BY <1>3, <1>4, OfMinute
<1> HIDE DEF x
<1>6. ASSUME f # Invalid
      PROVE  f \in Instants /\ t < f /\ Hits(e, 2, f) /\ f % Seconds \in {t % Seconds, 0}
  <2>1. f = x /\ f \in Instants
    BY <1>2, <1>6 DEF InOr
  <2>2. Hits(e, 2, f)
    BY <1>3, <1>5, <2>1, HitsIs
  <2>3. t < f
    BY <1>1, <1>3, <1>5, <2>1, Above, Constants DEF MinuteOf
  <2> QED
    BY <1>4, <1>5, <2>1, <2>2, <2>3
<1>7. ASSUME NEW u \in Instants, Matches(e, u), MinuteOf(t) <= MinuteOf(u),
             AllSeconds(e) => "sec" \in R
      PROVE  f # Invalid /\ Seen(e, f, u)
  <2>1. /\ u \in Nat /\ MinuteOf(u) \in Nat /\ MinuteOf(u) < Size * Hours * Minutes
        /\ MinuteOf(u) % Minutes \in e.min
    BY <1>7, HitsIs, Parts
  <2>2. U <= MinuteOf(u)
    BY <1>1, <1>3, <1>7, <2>1
  <2>3. U < Size * Hours * Minutes
    <3> DEFINE K == Size * Hours * Minutes
    <3>1. K \in Nat /\ MinuteOf(u) < K
      BY <2>1, Sizes
    <3> HIDE DEF K
    <3>2. U < K
      BY <1>3, <2>1, <2>2, <3>1
    <3> QED
      BY <3>2 DEF K
  <2>4. f = x /\ f # Invalid
    BY <1>2, <1>5, <2>3 DEF InOr, Invalid
  <2>5. AllSeconds(e) => f <= u
    BY <1>4, <1>5, <1>7, <2>1, <2>2, <2>4, Start, Constants DEF MinuteOf
  <2> QED
    BY <1>5, <2>2, <2>4, <2>5 DEF Seen
<1>8. Moved(e, t, 2, R, f)
  BY <1>6, <1>7 DEF Moved, Ready, Seen
<1> QED
  BY <1>8 DEF f

LEMMA MoveHour ==
  ASSUME SteadyClock, NEW e \in FieldSets, Sound(e), NEW t \in Instants, ~Hits(e, 3, t),
         NEW R \in SUBSET {"sec", "min"}
  PROVE  Moved(e, t, 3, R, Find(e, t, 3, R))
<1> DEFINE f == Find(e, t, 3, R)
           p == HourOf(t)
           U == Upper(e.hour, p, Hours)
           y == Rest(R, "min", MinuteOf(t) % Minutes, 0)
           z == Rest(R, "sec", t % Seconds, 0)
           x == (U * Minutes + y) * Seconds + z
<1>1. /\ p % Hours \notin e.hour /\ p \in Nat /\ t \in Nat /\ t % Seconds \in 0..(Seconds - 1)
      /\ MinuteOf(t) \in Nat /\ MinuteOf(t) % Minutes \in 0..(Minutes - 1)
  BY HitsIs, Parts
<1>2. f = InOr(x)
  <2>1. f = FindNext(e.hour, t, "hour", R)
    BY OrderIs DEF Find
  <2> QED
    BY <1>1, <2>1, SoundIs, FindHour
<1>3. /\ U \in Nat /\ U > p /\ U % Hours \in e.hour
      /\ \A u \in Nat : u >= p /\ u % Hours \in e.hour => u >= U
  BY <1>1, SoundIs, UpperIs, Constants
<1>4. z \in 0..(Seconds - 1) /\ z \in {t % Seconds, 0} /\ ("sec" \in R => z = 0)
  BY <1>1, Constants DEF Rest
<1>5. y \in 0..(Minutes - 1) /\ ("min" \in R => y = 0)
  <2>1. 0 \in 0..(Minutes - 1)
    BY Constants
  <2> QED
    BY <1>1, <2>1, Zenon DEF Rest
<1> HIDE DEF f, U, y, z
<1>6. /\ x \in Nat /\ HourOf(x) = U /\ x % Seconds = z /\ MinuteOf(x) % Minutes = y
      /\ MinuteOf(x) = U * Minutes + y
      /\ x \in Instants <=> U < Size * Hours
  BY <1>3, <1>4, <1>5, OfHour
<1>7. U * Minutes + y \in Nat
  BY <1>3, <1>5, Join, Constants
<1> HIDE DEF x
<1>8. ASSUME f # Invalid
      PROVE  f \in Instants /\ t < f /\ Hits(e, 3, f) /\ f % Seconds \in {t % Seconds, 0}
  <2>1. f = x /\ f \in Instants
    BY <1>2, <1>8 DEF InOr
  <2>2. Hits(e, 3, f)
    BY <1>3, <1>6, <2>1, HitsIs
  <2>3. MinuteOf(x) \in Nat /\ HourOf(t) < HourOf(x)
    BY <1>3, <1>6, <1>7
  <2>4. MinuteOf(t) < MinuteOf(x)
    BY <1>1, <2>3, Above, Constants DEF HourOf
  <2>5. t < f
    BY <1>1, <1>6, <2>1, <2>4, Above, Constants DEF MinuteOf
  <2> QED
    BY <1>4, <1>6, <2>1, <2>2, <2>5
<1>9. ASSUME NEW u \in Instants, Matches(e, u), MinuteOf(t) <= MinuteOf(u), "min" \in R,
             AllSeconds(e) => "sec" \in R
      PROVE  f # Invalid /\ Seen(e, f, u)
  <2>1. /\ u \in Nat /\ MinuteOf(u) \in Nat /\ HourOf(u) \in Nat /\ HourOf(u) < Size * Hours
        /\ HourOf(u) % Hours \in e.hour
    BY <1>9, HitsIs, Parts
  <2>2. HourOf(t) <= HourOf(u)
    BY <1>1, <1>9, <2>1, DivMonotone, Constants DEF HourOf
  <2>3. U <= HourOf(u)
    BY <1>1, <1>3, <2>1, <2>2
  <2>4. U < Size * Hours
    <3> DEFINE K == Size * Hours
    <3>1. K \in Nat /\ HourOf(u) < K
      BY <2>1, Sizes
    <3> HIDE DEF K
    <3>2. U < K
      BY <1>3, <2>1, <2>3, <3>1
    <3> QED
      BY <3>2 DEF K
  <2>5. f = x /\ f # Invalid
    BY <1>2, <1>6, <2>4 DEF InOr, Invalid
  <2>6. MinuteOf(x) \in Nat /\ HourOf(x) <= HourOf(u) /\ MinuteOf(x) % Minutes = 0
    BY <1>5, <1>6, <1>7, <1>9, <2>3
  <2>7. MinuteOf(x) <= MinuteOf(u)
    BY <2>1, <2>6, Start, Constants DEF HourOf
  <2>8. AllSeconds(e) => f <= u
    BY <1>4, <1>6, <1>9, <2>1, <2>5, <2>7, Start, Constants DEF MinuteOf
  <2> QED
    BY <2>5, <2>7, <2>8 DEF Seen
<1>10. Moved(e, t, 3, R, f)
  <2>1. Ready(e, t, 3, R) => "min" \in R /\ (AllSeconds(e) => "sec" \in R)
    BY OrderIs DEF Ready
  <2> QED
    BY <1>8, <1>9, <2>1 DEF Moved, Seen
<1> QED
  BY <1>10 DEF f

\* The first minute of a day is not after an instant of the day or of a later one.
LEMMA SeenFromDay ==
  ASSUME NEW e, NEW f \in Instants, NEW u \in Instants, DayOf(f) <= DayOf(u),
         HourOf(f) % Hours = 0, MinuteOf(f) % Minutes = 0, AllSeconds(e) => f % Seconds = 0
  PROVE  Seen(e, f, u)
<1>1. /\ f \in Nat /\ MinuteOf(f) \in Nat /\ HourOf(f) \in Nat
      /\ u \in Nat /\ MinuteOf(u) \in Nat /\ HourOf(u) \in Nat
  BY Parts
<1>2. HourOf(f) <= HourOf(u)
  BY <1>1, Start, Constants DEF DayOf
<1>3. MinuteOf(f) <= MinuteOf(u)
  BY <1>1, <1>2, Start, Constants DEF HourOf
<1>4. AllSeconds(e) => f <= u
  BY <1>1, <1>3, Start, Constants DEF MinuteOf
<1> QED
  BY <1>3, <1>4 DEF Seen

\* An instant of a later day is later.
LEMMA LaterDay ==
  ASSUME NEW t \in Instants, NEW f \in Instants, DayOf(t) < DayOf(f)
  PROVE  t < f
<1>1. /\ f \in Nat /\ MinuteOf(f) \in Nat /\ HourOf(f) \in Nat
      /\ t \in Nat /\ MinuteOf(t) \in Nat /\ HourOf(t) \in Nat
  BY Parts
<1>2. HourOf(t) < HourOf(f)
  BY <1>1, Above, Constants DEF DayOf
<1>3. MinuteOf(t) < MinuteOf(f)
  BY <1>1, <1>2, Above, Constants DEF HourOf
<1> QED
  BY <1>1, <1>3, Above, Constants DEF MinuteOf

\* The days of two instants whose minutes are in order.
LEMMA DaysInOrder ==
  ASSUME NEW t \in Instants, NEW u \in Instants, MinuteOf(t) <= MinuteOf(u)
  PROVE  DayOf(t) <= DayOf(u)
<1>1. MinuteOf(t) \in Nat /\ HourOf(t) \in Nat /\ MinuteOf(u) \in Nat /\ HourOf(u) \in Nat
  BY Parts
<1>2. HourOf(t) <= HourOf(u)
  BY <1>1, DivMonotone, Constants DEF HourOf
<1> QED
  BY <1>1, <1>2, DivMonotone, Constants DEF DayOf

LEMMA MoveDay ==
  ASSUME SteadyClock, NEW e \in FieldSets, Sound(e), NEW t \in Instants, ~Hits(e, 4, t),
         NEW R \in SUBSET {"sec", "min", "hour"}
  PROVE  Moved(e, t, 4, R, Find(e, t, 4, R))
<1> DEFINE f == Find(e, t, 4, R)
           d == DayOf(t)
           h == Rest(R, "hour", HourOf(t) % Hours, 0)
           m == Rest(R, "min", MinuteOf(t) % Minutes, 0)
           s == Rest(R, "sec", t % Seconds, 0)
<1>1. /\ ~DayMatches(e, t) /\ f = FindNextDay(e, t, R).at
  BY DEF Hits, Find
<1>2. PICK n \in Nat \ {0} :
        /\ FindNextDay(e, t, R) = [seen |-> LaterSeen(t, R, n), at |-> LaterAt(t, R, n)]
        /\ d + n \in Days => DayHits(e, d + n)
        /\ \A k \in 0..(n - 1) : d + k \in Days /\ ~DayHits(e, d + k)
        /\ d + n \in Days => DayOfMonth(d + n) # DayOfMonth(d)
  BY <1>1, SoundIs, FindDay
<1>3. /\ d \in Nat /\ HourOf(t) % Hours \in 0..(Hours - 1) /\ 0 \in 0..(Hours - 1)
      /\ MinuteOf(t) % Minutes \in 0..(Minutes - 1) /\ 0 \in 0..(Minutes - 1)
      /\ t % Seconds \in 0..(Seconds - 1) /\ 0 \in 0..(Seconds - 1)
  BY Parts, Constants
<1>4. h \in 0..(Hours - 1) /\ m \in 0..(Minutes - 1) /\ s \in 0..(Seconds - 1)
  BY <1>3, Zenon DEF Rest
<1>5. /\ s \in {t % Seconds, 0} /\ "sec" \in R => s = 0
  BY DEF Rest
<1>6. ("sec" \in R => s = 0) /\ ("min" \in R => m = 0) /\ ("hour" \in R => h = 0)
      /\ s \in {t % Seconds, 0}
  BY DEF Rest
<1> DEFINE x == Ins(d + n, h, m, s)
<1>7. f = InOr(x)
  BY <1>1, <1>2 DEF LaterAt
<1> HIDE DEF f, h, m, s, d
<1>8. /\ x \in Instants <=> d + n \in Days
      /\ DayOf(x) = d + n /\ HourOf(x) % Hours = h /\ MinuteOf(x) % Minutes = m
      /\ x % Seconds = s
  <2>1. d + n \in Nat
    BY <1>3
  <2> QED
    BY <1>4, <2>1, OfDay
<1> HIDE DEF x
<1>9. ASSUME f # Invalid
      PROVE  /\ f \in Instants /\ t < f /\ Hits(e, 4, f)
             /\ LocalTime(f).mday # LocalTime(t).mday /\ f % Seconds \in {t % Seconds, 0}
  <2>1. f = x /\ f \in Instants /\ d + n \in Days
    BY <1>7, <1>8, <1>9 DEF InOr
  <2>2. Hits(e, 4, f)
    BY <1>2, <1>8, <2>1, HitsIs
  <2>3. DayOf(t) < DayOf(f)
    BY <1>3, <1>8, <2>1 DEF d
  <2>4. t < f
    BY <2>1, <2>3, LaterDay
  <2>5. LocalTime(f).mday # LocalTime(t).mday
    BY <1>2, <1>8, <2>1, Local DEF d
  <2> QED
    BY <1>6, <1>8, <2>1, <2>2, <2>4, <2>5
<1>10. ASSUME NEW u \in Instants, Matches(e, u), MinuteOf(t) <= MinuteOf(u),
              "min" \in R, "hour" \in R, AllSeconds(e) => "sec" \in R
       PROVE  f # Invalid /\ Seen(e, f, u)
  <2>1. d <= DayOf(u) /\ DayOf(u) \in Nat /\ DayOf(u) \in Days /\ DayHits(e, DayOf(u))
    BY <1>10, DaysInOrder, Parts, HitsIs DEF d
  <2>2. d + n <= DayOf(u)
    <3> DEFINE k == DayOf(u) - d
    <3>1. d + k = DayOf(u) /\ k \in Nat
      BY <1>3, <2>1
    <3>2. k \notin 0..(n - 1)
      BY <1>2, <2>1, <3>1
    <3> HIDE DEF k
    <3> QED
      BY <1>3, <3>1, <3>2
  <2>3. d + n \in Days
    BY <1>3, <2>1, <2>2, Sizes
  <2>4. f = x /\ f \in Instants
    BY <1>7, <1>8, <2>3 DEF InOr
  <2>5. f # Invalid
    BY <2>4, Local
  <2> QED
    BY <1>6, <1>8, <1>10, <2>2, <2>4, <2>5, SeenFromDay
<1>11. Moved(e, t, 4, R, f)
  <2>1. Ready(e, t, 4, R) =>
          "min" \in R /\ "hour" \in R /\ (AllSeconds(e) => "sec" \in R)
    BY OrderIs DEF Ready
  <2> QED
    BY <1>9, <1>10, <2>1 DEF Moved, Seen
<1> QED
  BY <1>11 DEF f

LEMMA MoveMon ==
  ASSUME SteadyClock, NEW e \in FieldSets, Sound(e), NEW t \in Instants, ~Hits(e, 5, t),
         NEW R \in SUBSET {"sec", "min", "hour", "mday"}
  PROVE  Moved(e, t, 5, R, Find(e, t, 5, R))
<1> DEFINE f == Find(e, t, 5, R)
           N == Upper(e.mon, MonthAt(t), Months)
           c == LocalTime(t).mday
<1>1. /\ LocalTime(t).mon \notin e.mon /\ MonthAt(t) % Months \notin e.mon
      /\ f = FindNext(e.mon, t, "mon", R)
  BY OrderIs, HitsIs DEF Hits, Find
<1>2. /\ f # Invalid =>
           /\ f \in Instants /\ MonthAt(f) \in N..(EndMonth - 1)
           /\ \A j \in N..(MonthAt(f) - 1) : DaysIn(j) < c
           /\ "mday" \in R => DayOf(f) = FirstDays[MonthAt(f)]
           /\ HourOf(f) % Hours = Rest(R, "hour", HourOf(t) % Hours, 0)
           /\ MinuteOf(f) % Minutes = Rest(R, "min", MinuteOf(t) % Minutes, 0)
           /\ f % Seconds = Rest(R, "sec", t % Seconds, 0)
      /\ f = Invalid => \A j \in N..(EndMonth - 1) : DaysIn(j) < c
  <2> HIDE DEF f
  <2>1. e.mon \in SUBSET (0..(Months - 1)) /\ e.mon # {}
    BY SoundIs
  <2> QED
    BY <1>1, <2>1, FindMon
<1>3. MonthAt(t) \in 0..(EndMonth - 1) /\ c \in 1..LongestMonth
  BY Local
<1>4. /\ N \in Nat /\ N > MonthAt(t)
      /\ \A n \in Nat : n >= MonthAt(t) /\ n % Months \in e.mon => n >= N
  <2>1. MonthAt(t) \in Nat /\ Months \in Nat \ {0}
    BY <1>3, Constants
  <2>2. e.mon \in SUBSET (0..(Months - 1)) /\ e.mon # {}
    BY SoundIs
  <2> QED
    BY <1>1, <2>1, <2>2, UpperIs
<1> HIDE DEF f, N, c
<1>5. ASSUME NEW a \in Instants, NEW b \in Instants, DayOf(a) <= DayOf(b)
      PROVE  MonthAt(a) <= MonthAt(b)
  BY <1>5, Parts, MonthsGrow DEF MonthAt
<1>6. ASSUME f # Invalid
      PROVE  f \in Instants /\ t < f /\ f % Seconds \in {t % Seconds, 0}
  <2>1. f \in Instants /\ MonthAt(f) \in Nat /\ MonthAt(t) < MonthAt(f)
    BY <1>2, <1>3, <1>4, <1>6
  <2>2. DayOf(t) \in Nat /\ DayOf(f) \in Nat
    BY <2>1, Parts
  <2>3. DayOf(t) < DayOf(f)
    BY <1>3, <1>5, <2>1, <2>2
  <2>4. t < f
    BY <2>1, <2>3, LaterDay
  <2> QED
    BY <1>2, <1>6, <2>1, <2>4 DEF Rest
<1>7. ASSUME NEW u \in Instants, Matches(e, u), MinuteOf(t) <= MinuteOf(u), MonthSafe(e),
             "min" \in R, "hour" \in R, "mday" \in R, AllSeconds(e) => "sec" \in R,
             Hits(e, 4, t)
      PROVE  f # Invalid /\ Seen(e, f, u)
  <2> DEFINE n == MonthAt(u)
  <2>1. /\ n \in 0..(EndMonth - 1) /\ n % Months \in e.mon
        /\ LocalTime(u).mday <= DaysIn(n) /\ LocalTime(u).mday \in 1..LongestMonth
        /\ LocalTime(u).mday \in e.mday
    BY <1>7, HitsIs, Local DEF DayHits
  <2>2. MonthAt(t) <= n
    BY <1>5, <1>7, DaysInOrder
  <2>3. c \in e.mday
    BY <1>7, HitsIs, Local DEF DayHits, c
  <2> HIDE DEF n
  <2>4. N <= n
    BY <1>3, <1>4, <2>1, <2>2
  <2>5. ~(DaysIn(n) < c)
    <3>1. e.mon # 0..(Months - 1)
      <4>1. MonthAt(t) \in Nat /\ Months \in Nat \ {0}
        BY <1>3, Constants
      <4>2. MonthAt(t) % Months \in 0..(Months - 1)
        BY <4>1, Split
      <4> QED
        BY <1>1, <4>2
    <3>2. \/ \A b \in e.mday : b <= DaysIn(n)
          \/ \A b \in e.mday : b > DaysIn(n)
      BY <1>7, <2>1, <3>1 DEF MonthSafe
    <3>3. DaysIn(n) \in Nat
      <4>1. DaysIn(n) \in WeekDays..LongestMonth
        BY <2>1, MonthLengths
      <4> HIDE DEF n
      <4> QED
        BY <4>1, Constants
    <3> QED
      BY <1>3, <2>1, <2>3, <3>2, <3>3
  <2>6. n \in N..(EndMonth - 1)
    BY <1>4, <2>1, <2>4
  <2>7. f # Invalid
    BY <1>2, <2>5, <2>6
  <2>8. f \in Instants /\ MonthAt(f) \in N..(EndMonth - 1) /\ DayOf(f) = FirstDays[MonthAt(f)]
    BY <1>2, <1>7, <2>7
  <2>9. MonthAt(f) <= n
    <3>1. n \notin N..(MonthAt(f) - 1)
      BY <1>2, <2>5, <2>7
    <3> QED
      BY <1>4, <2>1, <2>4, <2>8, <3>1
  <2>10. DayOf(f) <= DayOf(u)
    <3>1. FirstDays[n] <= DayOf(u) /\ DayOf(u) \in Nat
      BY Parts, MonthOfDay DEF n, MonthAt
    <3>2. MonthAt(f) \in 0..EndMonth /\ n \in 0..EndMonth
      BY <1>4, <2>1, <2>8, Constants
    <3>3. FirstDays[MonthAt(f)] <= FirstDays[n]
      BY <2>9, <3>2, FirstDaysRise
    <3>4. FirstDays[n] \in Nat /\ FirstDays[MonthAt(f)] \in Nat
      BY <3>2, Constants
    <3> QED
      BY <2>8, <3>1, <3>3, <3>4
  <2>11. /\ HourOf(f) % Hours = 0 /\ MinuteOf(f) % Minutes = 0
         /\ AllSeconds(e) => f % Seconds = 0
    BY <1>2, <1>7, <2>7 DEF Rest
  <2> QED
    BY <2>7, <2>8, <2>10, <2>11, SeenFromDay
<1>8. Moved(e, t, 5, R, f)
  <2>1. Ready(e, t, 5, R) =>
          /\ "min" \in R /\ "hour" \in R /\ "mday" \in R /\ (AllSeconds(e) => "sec" \in R)
          /\ Hits(e, 4, t)
    BY OrderIs DEF Ready
  <2> QED
    BY <1>6, <1>7, <2>1 DEF Moved, Seen
<1> QED
  BY <1>8 DEF f

\* The fields before field k.
Before(k) == {Order[j] : j \in 1..(k - 1)}

LEMMA BeforeIs ==
  /\ Before(1) = {} /\ Before(2) = {"sec"} /\ Before(3) = {"sec", "min"}
  /\ Before(4) = {"sec", "min", "hour"} /\ Before(5) = {"sec", "min", "hour", "mday"}
  /\ \A k \in 1..5 : Before(k + 1) = Before(k) \cup {Order[k]}
<1>1. 1..(1 - 1) = {} /\ 1..(2 - 1) = {1} /\ 1..(3 - 1) = {1, 2} /\ 1..(4 - 1) = {1, 2, 3}
      /\ 1..(5 - 1) = {1, 2, 3, 4}
  OBVIOUS
<1>2. \A k \in 1..5 : 1..((k + 1) - 1) = 1..(k - 1) \cup {k}
  OBVIOUS
<1>3. \A k \in 1..5 : Before(k + 1) = Before(k) \cup {Order[k]}
  BY <1>2 DEF Before
<1>4. Before(1) = {}
  BY <1>1 DEF Before
<1>5. Before(2) = {"sec"}
  BY <1>1, OrderIs DEF Before
<1>6. Before(3) = {"sec", "min"}
  BY <1>1, OrderIs DEF Before
<1>7. Before(4) = {"sec", "min", "hour"}
  BY <1>1, OrderIs DEF Before
<1>8. Before(5) = {"sec", "min", "hour", "mday"}
  BY <1>1, OrderIs DEF Before
<1> QED
  BY <1>3, <1>4, <1>5, <1>6, <1>7, <1>8

\* A field that is met stays, and one that is not moves the calendar.
LEMMA Moves ==
  ASSUME SteadyClock, NEW e \in FieldSets, Sound(e), NEW t \in Instants, NEW k \in 1..5,
         NEW R \in SUBSET Before(k)
  PROVE  /\ Hits(e, k, t) => Find(e, t, k, R) = t
         /\ ~Hits(e, k, t) => Moved(e, t, k, R, Find(e, t, k, R))
<1>1. ASSUME Hits(e, k, t) PROVE Find(e, t, k, R) = t
  <2>1. CASE k # 4
    BY <1>1, <2>1 DEF Hits, Find, FindNext
  <2>2. CASE k = 4
    <3>1. LaterSeen(t, R, 0) = t /\ LaterAt(t, R, 0) = t /\ DayMatches(e, t)
      BY <1>1, <2>2 DEF LaterSeen, LaterAt, Hits
    <3>2. 0 \in 0..SearchDays /\ 0..(0 - 1) = {} /\ R \in SUBSET {"sec", "min", "hour"}
      BY <2>2, Constants, BeforeIs
    <3>3. FindNextDay(e, t, R) = [seen |-> t, at |-> t]
      BY <3>1, <3>2, LoopIs
    <3> QED
      BY <2>2, <3>3 DEF Find
  <2> QED
    BY <2>1, <2>2
<1>2. ASSUME ~Hits(e, k, t) PROVE Moved(e, t, k, R, Find(e, t, k, R))
  <2>1. CASE k = 1
    <3>1. R = {}
      BY <2>1, BeforeIs
    <3> QED
      BY <1>2, <2>1, <3>1, MoveSec
  <2>2. CASE k = 2
    BY <1>2, <2>2, BeforeIs, MoveMin
  <2>3. CASE k = 3
    BY <1>2, <2>3, BeforeIs, MoveHour
  <2>4. CASE k = 4
    BY <1>2, <2>4, BeforeIs, MoveDay
  <2>5. CASE k = 5
    BY <1>2, <2>5, BeforeIs, MoveMon
  <2> QED
    BY <2>1, <2>2, <2>3, <2>4, <2>5
<1> QED
  BY <1>1, <1>2

-----------------------------------------------------------------------------
(* Parsing.                                                                 *)

\* The values of an element that is in its range are in the range.
LEMMA HitsInRange ==
  ASSUME NEW field \in SUBSET Elements, NEW min \in Nat, NEW max \in Nat,
         \A e \in field : InRange(e, min, max)
  PROVE  NumberHits(field, min, max) \subseteq min..(max - 1)
<1>1. ASSUME NEW e \in field, NEW i \in ElementHits(e, min, max) PROVE i \in min..(max - 1)
  <2> DEFINE first == RangeOf(e, min, max)[1]
             last == IF e.step # 0 /\ e.kind # "range" THEN max - 1
                     ELSE RangeOf(e, min, max)[2]
  <2>1. InRange(e, min, max)
    OBVIOUS
  <2>2. first \in min..(max - 1) /\ RangeOf(e, min, max)[2] \in min..(max - 1)
    BY <2>1 DEF InRange
  <2>3. i \in first..last
    BY DEF ElementHits
  <2> HIDE DEF first
  <2>4. last \in min..(max - 1)
    BY <2>2
  <2> HIDE DEF last
  <2> QED
    BY <2>2, <2>3, <2>4
<1> QED
  BY <1>1 DEF NumberHits

LEMMA ParsedType ==
  ASSUME NEW txt \in Texts
  PROVE  Parsed(txt) = Nothing \/ Parsed(txt) \in FieldSets
<1>1. CASE ~InRanges(txt)
  BY <1>1 DEF Parsed
<1>2. CASE InRanges(txt)
  <2>1. /\ txt.sec \in SUBSET Elements /\ txt.min \in SUBSET Elements
        /\ txt.hour \in SUBSET Elements /\ txt.mday \in SUBSET Elements
        /\ txt.mon \in SUBSET Elements /\ txt.wday \in SUBSET Elements
    BY TextAssumption DEF Fields
  <2>2. NumberHits(txt.sec, 0, Seconds) \subseteq 0..(Seconds - 1)
    BY <1>2, <2>1, HitsInRange, Constants DEF InRanges
  <2>3. NumberHits(txt.min, 0, Minutes) \subseteq 0..(Minutes - 1)
    BY <1>2, <2>1, HitsInRange, Constants DEF InRanges
  <2>4. NumberHits(txt.hour, 0, Hours) \subseteq 0..(Hours - 1)
    BY <1>2, <2>1, HitsInRange, Constants DEF InRanges
  <2>5. WeekDayHits(txt.wday) \subseteq 0..(WeekDays - 1)
    <3>1. NumberHits(txt.wday, 0, WeekDays + 1) \subseteq 0..((WeekDays + 1) - 1)
      BY <1>2, <2>1, HitsInRange, Constants DEF InRanges
    <3>2. ASSUME NEW d \in 0..((WeekDays + 1) - 1) PROVE d % WeekDays \in 0..(WeekDays - 1)
      <4>1. d \in Nat /\ WeekDays \in Nat \ {0}
        BY Constants
      <4> QED
        BY <4>1, Split
    <3> QED
      BY <3>1, <3>2, Zenon DEF WeekDayHits
  <2>6. MonthDayHits(txt.mday) \subseteq 1..LongestMonth
    <3>1. NumberHits(txt.mday, 0, LongestMonth + 1) \subseteq 0..((LongestMonth + 1) - 1)
      BY <1>2, <2>1, HitsInRange, Constants DEF InRanges
    <3>2. 0..((LongestMonth + 1) - 1) \ {0} \subseteq 1..LongestMonth
      BY Constants
    <3> QED
      BY <3>1, <3>2, Zenon DEF MonthDayHits
  <2>7. MonthHits(txt.mon) \subseteq 0..(Months - 1)
    <3>1. NumberHits(txt.mon, 1, Months + 1) \subseteq 1..((Months + 1) - 1)
      BY <1>2, <2>1, HitsInRange, Constants DEF InRanges
    <3>2. \A m \in 1..((Months + 1) - 1) : m - 1 \in 0..(Months - 1)
      BY Constants
    <3> QED
      BY <3>1, <3>2, Zenon DEF MonthHits
  <2> QED
    BY <1>2, <2>2, <2>3, <2>4, <2>5, <2>6, <2>7 DEF Parsed, FieldSets
<1> QED
  BY <1>1, <1>2

-----------------------------------------------------------------------------
(* The invariant of the search.                                             *)

CallSet == [k : 1..6, resets : SUBSET {"sec", "min", "hour", "mday", "mon"}]

\* A call that waits for another changed a field that is not the seconds; the fields a
\* call resets come before its own.
Nested ==
  /\ calls \in Seq(CallSet) /\ calls # <<>>
  /\ \A i \in 1..Len(calls) :
       /\ calls[i].resets \subseteq Before(calls[i].k)
       /\ i < Len(calls) => calls[i].k \in 2..5

\* The search has not moved back, and the fields before the one it is at are met.
Forward ==
  /\ at \in Instants /\ From \in Instants /\ From <= at
  /\ \A j \in 1..(Call.k - 1) : Hits(expr, j, at)

\* The fields before the one it is at are reset when that one changes, unless it has
\* arrived: the lower fields of the calendar are then the lowest ones.
Lowest ==
  /\ at = From \/ at % Seconds \in expr.sec \/ at % Seconds = 0
  /\ Matches(expr, at) \/ Ready(expr, at, Call.k, Call.resets)

\* It has passed no instant of the expression but for seconds.
NonePassed ==
  MonthSafe(expr) => \A u \in Instants : From <= u /\ Matches(expr, u) => Seen(expr, at, u)

\* What cronexpr_next has returned.
Answered ==
  /\ answer # Invalid => answer \in Instants /\ date < answer /\ Matches(expr, answer)
  /\ MonthSafe(expr) =>
       \A u \in Instants : date < u /\ Matches(expr, u) =>
         IF answer # Invalid THEN Seen(expr, answer, u)
         ELSE LocalTime(u).year > LocalTime(date).year + SearchYears

SearchInv ==
  /\ text \in Texts /\ called \in {"none", "parse", "search", "next"}
  /\ called = "none" => date \in Instants /\ expr = Nothing
  /\ called # "search" => again = FALSE
  /\ Sound(expr) =>
       /\ expr \in FieldSets /\ date \in Instants /\ again \in BOOLEAN
       /\ called = "search" => Nested /\ Forward /\ Lowest /\ NonePassed
       /\ called = "next" => Answered

LEMMA InitInv == Init => SearchInv
BY StartAssumption DEF Init, SearchInv, Sound

LEMMA ParseInv == SearchInv /\ Parse => SearchInv'
<1> SUFFICES ASSUME SearchInv, Parse PROVE SearchInv'
  OBVIOUS
<1>1. /\ called = "none" /\ expr' = Parsed(text) /\ called' = "parse"
      /\ text' = text /\ date' = date /\ again' = again
  BY DEF Parse, searchVars
<1>2. text \in Texts /\ date \in Instants /\ again = FALSE
  BY <1>1 DEF SearchInv
<1>3. expr' = Nothing \/ expr' \in FieldSets
  BY <1>1, <1>2, ParsedType
<1> QED
  BY <1>1, <1>2, <1>3 DEF SearchInv, Sound

\* The last call of a stack of one.
LEMMA OneCall == Last(<<Begin>>) = Begin /\ Len(<<Begin>>) = 1 /\ <<Begin>> # <<>>
BY DEF Last

LEMMA BeginNested ==
  ASSUME calls' = <<Begin>>
  PROVE  Nested' /\ Call' = [k |-> 1, resets |-> {}]
<1>1. Call' = Begin
  BY OneCall DEF Call
<1>2. Begin \in CallSet
  BY DEF Begin, CallSet
<1>3. calls' \in Seq(CallSet) /\ calls' # <<>> /\ Len(calls') = 1 /\ calls'[1] = Begin
  BY <1>2
<1>4. ASSUME NEW i \in 1..Len(calls')
      PROVE  /\ calls'[i].resets \subseteq Before(calls'[i].k)
             /\ i < Len(calls') => calls'[i].k \in 2..5
  BY <1>3 DEF Begin
<1> QED
  BY <1>1, <1>3, <1>4 DEF Nested, Begin

LEMMA MinutesInOrder ==
  ASSUME NEW e, NEW t \in Instants, NEW u \in Instants, t <= u
  PROVE  Seen(e, t, u)
BY Parts, DivMonotone, Constants DEF Seen, MinuteOf

\* A search begins.
LEMMA BeginInv ==
  ASSUME calls' = <<Begin>>, at' \in Instants, From' = at', expr' \in FieldSets
  PROVE  Nested' /\ Forward' /\ Lowest' /\ NonePassed'
<1>1. Nested' /\ Call' = [k |-> 1, resets |-> {}]
  BY BeginNested
<1>2. Call'.k = 1 /\ Call'.resets = {} /\ at' \in Nat
  BY <1>1, Parts
<1>3. Forward'
  BY <1>2 DEF Forward
<1>4. Ready(expr', at', Call'.k, Call'.resets)
  BY <1>2 DEF Ready
<1>5. Lowest'
  BY <1>4 DEF Lowest
<1>6. NonePassed'
  BY MinutesInOrder DEF NonePassed
<1> QED
  BY <1>1, <1>3, <1>5, <1>6

LEMMA AskInv == SearchInv /\ Ask => SearchInv'
<1> SUFFICES ASSUME SearchInv, Ask PROVE SearchInv'
  OBVIOUS
<1>1. /\ called \in {"parse", "next"} /\ text' = text /\ expr' = expr
      /\ \/ called = "parse" /\ date' = date
         \/ called = "next" /\ answer \in 0..LastStart /\ date' = answer
  BY DEF Ask
<1>2. text' \in Texts /\ again = FALSE
  BY <1>1 DEF SearchInv
<1>3. CASE expr = Nothing
  <2>1. called' = "next" /\ again' = FALSE
    BY <1>3 DEF Ask, Give
  <2> QED
    BY <1>1, <1>2, <1>3, <2>1 DEF SearchInv, Sound
<1>4. CASE expr # Nothing
  <2>1. called' = "search" /\ at' = date' /\ calls' = <<Begin>> /\ again' = again
    BY <1>4 DEF Ask
  <2>2. ASSUME Sound(expr)
        PROVE  /\ expr' \in FieldSets /\ date' \in Instants
               /\ Nested' /\ Forward' /\ Lowest' /\ NonePassed'
    <3>1. expr \in FieldSets /\ date \in Instants /\ (called = "next" => Answered)
      BY <2>2 DEF SearchInv
    <3>2. date' \in Instants
      <4>1. CASE called = "parse" /\ date' = date
        BY <3>1, <4>1
      <4>2. CASE called = "next" /\ answer \in 0..LastStart /\ date' = answer
        <5>1. answer # Invalid
          BY <4>2 DEF Invalid
        <5> QED
          BY <3>1, <4>2, <5>1 DEF Answered
      <4> QED
        BY <1>1, <4>1, <4>2
    <3>3. From' = at'
      BY <1>2, <2>1 DEF From
    <3> QED
      BY <1>1, <2>1, <3>1, <3>2, <3>3, BeginInv
  <2>3. again' = FALSE
    BY <1>2, <2>1
  <2> QED
    BY <1>1, <1>2, <2>1, <2>2, <2>3 DEF SearchInv
<1> QED
  BY <1>3, <1>4

-----------------------------------------------------------------------------
(* The stack of calls.                                                      *)

FieldNames == {"sec", "min", "hour", "mday", "mon"}

LEMMA CallIs ==
  ASSUME Nested
  PROVE  /\ Len(calls) \in Nat \ {0} /\ Call = calls[Len(calls)]
         /\ Call \in CallSet /\ Call.k \in 1..6
         /\ Call.resets \in SUBSET Before(Call.k) /\ Call.resets \in SUBSET FieldNames
<1>1. calls \in Seq(CallSet) /\ calls # <<>>
  BY DEF Nested
<1>2. Len(calls) \in Nat \ {0}
  BY <1>1
<1>3. Call = calls[Len(calls)]
  BY DEF Call, Last
<1>4. Call \in CallSet
  BY <1>1, <1>2, <1>3
<1>5. Len(calls) \in 1..Len(calls)
  BY <1>2
<1>6. Call.resets \subseteq Before(Call.k)
  BY <1>3, <1>5 DEF Nested
<1> QED
  BY <1>2, <1>3, <1>4, <1>6 DEF CallSet, FieldNames

LEMMA SetElement ==
  ASSUME NEW T, NEW q \in Seq(T), NEW n \in 1..Len(q), NEW c \in T
  PROVE  LET r == [q EXCEPT ![n] = c]
         IN  /\ r \in Seq(T) /\ Len(r) = Len(q) /\ r[n] = c
             /\ \A i \in 1..Len(q) : i # n => r[i] = q[i]
OBVIOUS

LEMMA NextNested ==
  ASSUME Nested, Call.k \in 1..5,
         NEW S \in SUBSET Before(Call.k + 1), S \in SUBSET FieldNames,
         calls' = [calls EXCEPT ![Len(calls)] = [k |-> Call.k + 1, resets |-> S]]
  PROVE  Nested' /\ Call'.k = Call.k + 1 /\ Call'.resets = S
<1> DEFINE c == [k |-> Call.k + 1, resets |-> S]
           n == Len(calls)
<1>1. calls \in Seq(CallSet) /\ n \in Nat \ {0} /\ n \in 1..n
  BY CallIs DEF Nested
<1>2. c \in CallSet /\ c.k = Call.k + 1 /\ c.resets = S
  BY DEF CallSet, FieldNames
<1> HIDE DEF c
<1>3. /\ calls' \in Seq(CallSet) /\ Len(calls') = n /\ calls'[n] = c
      /\ \A i \in 1..n : i # n => calls'[i] = calls[i]
  BY <1>1, <1>2, SetElement DEF c
<1> HIDE DEF n
<1>4. Call' = c
  BY <1>3 DEF Call, Last
<1>5. calls' # <<>>
  BY <1>1, <1>3
<1>7. n = Len(calls)
  BY DEF n
<1>6. ASSUME NEW i \in 1..Len(calls')
      PROVE  /\ calls'[i].resets \subseteq Before(calls'[i].k)
             /\ i < Len(calls') => calls'[i].k \in 2..5
  <2>1. CASE i = n
    <3>1. calls'[i] = c /\ ~(i < Len(calls'))
      BY <1>1, <1>3, <2>1
    <3> QED
      BY <1>2, <3>1
  <2>2. CASE i # n
    BY <1>1, <1>3, <1>7, <2>2 DEF Nested
  <2> QED
    BY <2>1, <2>2
<1> QED
  BY <1>2, <1>3, <1>4, <1>5, <1>6 DEF Nested

LEMMA PushNested ==
  ASSUME Nested, Call.k \in 2..5, calls' = Append(calls, Begin)
  PROVE  Nested' /\ Call'.k = 1 /\ Call'.resets = {}
<1> DEFINE n == Len(calls)
<1>1. calls \in Seq(CallSet) /\ n \in Nat \ {0} /\ Call = calls[n]
  BY CallIs DEF Nested
<1>2. Begin \in CallSet /\ Begin.k = 1 /\ Begin.resets = {}
  BY DEF Begin, CallSet
<1>3. /\ calls' \in Seq(CallSet) /\ Len(calls') = n + 1 /\ calls'[n + 1] = Begin
      /\ \A i \in 1..n : calls'[i] = calls[i]
  BY <1>1, <1>2
<1> HIDE DEF n
<1>4. Call' = Begin
  BY <1>3 DEF Call, Last
<1>5. calls' # <<>>
  BY <1>1, <1>3
<1>6. ASSUME NEW i \in 1..Len(calls')
      PROVE  /\ calls'[i].resets \subseteq Before(calls'[i].k)
             /\ i < Len(calls') => calls'[i].k \in 2..5
  <2>1. CASE i = n + 1
    BY <1>1, <1>2, <1>3, <2>1
  <2>2. CASE i # n + 1
    <3>1. i \in 1..n
      BY <1>1, <1>3, <2>2
    <3>2. /\ calls[i].resets \subseteq Before(calls[i].k)
          /\ i < n => calls[i].k \in 2..5
      BY <3>1 DEF Nested, n
    <3> QED
      BY <1>1, <1>3, <3>1, <3>2
  <2> QED
    BY <2>1, <2>2
<1> QED
  BY <1>2, <1>3, <1>4, <1>5, <1>6 DEF Nested

LEMMA PopNested ==
  ASSUME Nested, Len(calls) > 1,
         calls' = [Front(calls) EXCEPT ![Len(calls) - 1].k = @ + 1]
  PROVE  Nested' /\ Call'.k \in 3..6 /\ Len(calls') = Len(calls) - 1
<1> DEFINE n == Len(calls) - 1
           r == Front(calls)
           b == calls[n]
           c == [b EXCEPT !.k = @ + 1]
<1>1. calls \in Seq(CallSet) /\ n \in Nat \ {0} /\ n \in 1..Len(calls) /\ n < Len(calls)
  BY CallIs DEF Nested
<1>2. r \in Seq(CallSet) /\ Len(r) = n /\ \A i \in 1..n : r[i] = calls[i]
  BY <1>1 DEF Front
<1>3. b \in CallSet /\ b.resets \subseteq Before(b.k) /\ b.k \in 2..5
  BY <1>1 DEF Nested
<1>4. c \in CallSet /\ c.k = b.k + 1 /\ c.resets = b.resets
  BY <1>3 DEF CallSet
<1>5. calls' = [r EXCEPT ![n] = c]
  <2>1. r[n] = b
    <3> HIDE DEF n, r
    <3>1. n \in 1..n
      BY <1>1
    <3> QED
      BY <1>2, <3>1, Zenon DEF b
  <2>2. calls' = [r EXCEPT ![n].k = @ + 1]
    OBVIOUS
  <2> HIDE DEF n, r, b
  <2> QED
    BY <2>1, <2>2
<1>11. n \in 1..Len(r)
  BY <1>1, <1>2
<1> HIDE DEF n, r, b, c
<1>6. /\ calls' \in Seq(CallSet) /\ Len(calls') = n /\ calls'[n] = c
      /\ \A i \in 1..n : i # n => calls'[i] = calls[i]
  <2>1. LET q == [r EXCEPT ![n] = c]
        IN  /\ q \in Seq(CallSet) /\ Len(q) = Len(r) /\ q[n] = c
            /\ \A i \in 1..Len(r) : i # n => q[i] = r[i]
    BY <1>2, <1>4, <1>11, SetElement
  <2> QED
    BY <1>2, <1>5, <2>1, Zenon
<1>7. Call' = c
  BY <1>6 DEF Call, Last
<1>8. calls' # <<>>
  BY <1>1, <1>6
<1>9. c.resets \subseteq Before(c.k)
  BY <1>3, <1>4, BeforeIs
<1>10. ASSUME NEW i \in 1..Len(calls')
       PROVE  /\ calls'[i].resets \subseteq Before(calls'[i].k)
              /\ i < Len(calls') => calls'[i].k \in 2..5
  <2>1. CASE i = n
    <3>1. calls'[i] = c /\ ~(i < Len(calls'))
      BY <1>1, <1>6, <2>1
    <3> QED
      BY <1>9, <3>1
  <2>2. CASE i # n
    <3>1. i \in 1..Len(calls) /\ i < Len(calls) /\ i \in 1..n
      BY <1>1, <1>6
    <3> QED
      BY <1>6, <2>2, <3>1 DEF Nested
  <2> QED
    BY <2>1, <2>2
<1>12. Len(calls') = Len(calls) - 1
  BY <1>6 DEF n
<1> QED
  BY <1>3, <1>4, <1>6, <1>7, <1>8, <1>10, <1>12 DEF Nested

-----------------------------------------------------------------------------
(* The steps of the search.                                                 *)

\* What the invariant says inside cronexpr_next.
Inside ==
  /\ called = "search" /\ Sound(expr) /\ expr \in FieldSets /\ date \in Instants
  /\ again \in BOOLEAN /\ Nested /\ Forward /\ Lowest /\ NonePassed

\* The field has kept its value if it was met.
LEMMA KeptIs ==
  ASSUME SteadyClock, Inside, Call.k \in 1..5
  PROVE  /\ Found.at = Find(expr, at, Call.k, Call.resets)
         /\ Hits(expr, Call.k, at) => Found.at = at
         /\ ~Hits(expr, Call.k, at) => Moved(expr, at, Call.k, Call.resets, Found.at)
         /\ Found.at # Invalid => (Kept(Found) <=> Hits(expr, Call.k, at))
<1> DEFINE k == Call.k
           R == Call.resets
           f == Found
<1>1. expr \in FieldSets /\ Sound(expr) /\ at \in Instants /\ R \in SUBSET Before(k)
  BY CallIs DEF Inside, Forward
<1>2. Field = Order[k] /\ (Field = "mday" <=> k = 4)
  <2>1. Field = Order[k]
    BY DEF Field
  <2>2. k = 1 \/ k = 2 \/ k = 3 \/ k = 4 \/ k = 5
    OBVIOUS
  <2> HIDE DEF k
  <2> QED
    BY <2>1, <2>2, OrderIs
<1>3. f.at = Find(expr, at, k, R)
  BY <1>2 DEF Found, Find
<1>4. /\ Hits(expr, k, at) => f.at = at
      /\ ~Hits(expr, k, at) => Moved(expr, at, k, R, f.at)
  BY <1>1, <1>3, Moves
<1>5. k = 4 => f = FindNextDay(expr, at, R) /\ R \in SUBSET {"sec", "min", "hour"}
  BY <1>1, <1>2, BeforeIs DEF Found
<1> HIDE DEF f, k, R
<1>6. ASSUME f.at # Invalid PROVE Kept(f) <=> Hits(expr, k, at)
  <2>1. CASE k = 4
    <3>1. Kept(f) <=> LocalTime(f.seen).mday = LocalTime(at).mday
      BY <1>2, <2>1 DEF Kept
    <3>2. Hits(expr, k, at) <=> DayMatches(expr, at)
      BY <2>1 DEF Hits
    <3>3. CASE DayMatches(expr, at)
      <4>1. LaterSeen(at, R, 0) = at /\ LaterAt(at, R, 0) = at
        BY DEF LaterSeen, LaterAt
      <4>2. 0 \in 0..SearchDays /\ 0..(0 - 1) = {}
        BY Constants
      <4>3. f = [seen |-> at, at |-> at]
        BY <1>1, <1>5, <2>1, <3>3, <4>1, <4>2, LoopIs
      <4> QED
        BY <3>1, <3>2, <3>3, <4>3
    <3>4. CASE ~DayMatches(expr, at)
      <4>1. LocalTime(f.seen).mday = LocalTime(f.at).mday
        <5>1. /\ expr.mday # {} /\ expr.wday # {}
              /\ DayOfMonthFree(expr) \/ DayOfWeekFree(expr)
          BY <1>1, SoundIs
        <5> QED
          BY <1>1, <1>5, <1>6, <2>1, <3>4, <5>1, SeenIs
      <4>2. LocalTime(f.at).mday # LocalTime(at).mday
        BY <1>4, <1>6, <2>1, <3>2, <3>4 DEF Moved
      <4> QED
        BY <3>1, <3>2, <3>4, <4>1, <4>2
    <3> QED
      BY <3>3, <3>4
  <2>2. CASE k # 4
    <3>1. expr[Field] # {}
      <4>1. Field \in DOMAIN expr
        <5>1. DOMAIN expr = {"sec", "min", "hour", "mday", "mon", "wday"}
          BY <1>1 DEF FieldSets
        <5>2. k = 1 \/ k = 2 \/ k = 3 \/ k = 5
          BY <2>2 DEF k
        <5> QED
          BY <1>2, <5>1, <5>2, OrderIs
      <4> QED
        BY <1>1, <4>1 DEF Sound
    <3> QED
      BY <1>2, <2>2, <3>1 DEF Kept, Hits
  <2> QED
    BY <2>1, <2>2
<1> QED
  BY <1>3, <1>4, <1>6 DEF f, k, R

\* Moving on passes no instant of the expression but for seconds.
LEMMA MovesOver ==
  ASSUME SteadyClock, Inside, Call.k \in 1..5, ~Hits(expr, Call.k, at), MonthSafe(expr),
         NEW u \in Instants, From <= u, Matches(expr, u)
  PROVE  Found.at # Invalid /\ Seen(expr, Found.at, u)
<1>1. expr \in FieldSets /\ at \in Instants /\ From \in Instants
  BY DEF Inside, Forward
<1>2. Ready(expr, at, Call.k, Call.resets)
  BY <1>1, HitsIs DEF Inside, Lowest
<1>3. Seen(expr, at, u)
  BY DEF Inside, NonePassed
<1>4. ASSUME Call.k = 1 PROVE at <= u
  <2>1. at = From \/ at % Seconds = 0
    BY <1>1, <1>4, HitsIs DEF Inside, Lowest
  <2>2. CASE at = From
    BY <2>2
  <2>3. CASE at % Seconds = 0
    BY <1>1, <1>3, <2>3, Parts, Start, Constants DEF Seen, MinuteOf
  <2> QED
    BY <2>1, <2>2, <2>3
<1>5. Moved(expr, at, Call.k, Call.resets, Found.at)
  BY KeptIs
<1> QED
  BY <1>2, <1>3, <1>4, <1>5 DEF Moved

\* The years of two instants that are in order to the minute.
LEMMA YearsInOrder ==
  ASSUME SteadyClock, NEW t \in Instants, NEW u \in Instants, MinuteOf(t) <= MinuteOf(u)
  PROVE  LocalTime(t).year <= LocalTime(u).year
<1>1. DayOf(t) \in Days /\ DayOf(u) \in Days /\ DayOf(t) <= DayOf(u)
  BY DaysInOrder, Parts
<1>2. MonthAt(t) <= MonthAt(u)
  BY <1>1, MonthsGrow DEF MonthAt
<1>3. /\ MonthAt(t) \in Nat /\ MonthAt(u) \in Nat
      /\ LocalTime(t).year = MonthAt(t) \div Months /\ LocalTime(u).year = MonthAt(u) \div Months
  BY Local, Constants
<1> QED
  BY <1>2, <1>3, DivMonotone, Constants

\* The date a search begins at: the one asked about or the next second.
LEMMA FromIs ==
  ASSUME Inside
  PROVE  /\ date \in Nat /\ From \in Nat /\ From \in Instants /\ date <= From
         /\ From = IF again THEN date + 1 ELSE date
         /\ \A u \in Instants : date < u => From <= u
<1>1. date \in Instants /\ From \in Instants /\ again \in BOOLEAN
  BY DEF Inside, Forward
<1>2. date \in Nat /\ From \in Nat /\ \A u \in Instants : u \in Nat
  BY <1>1, Parts
<1>3. From = IF again THEN date + 1 ELSE date
  BY DEF From
<1> QED
  BY <1>1, <1>2, <1>3

\* A search that is given up.
LEMMA FailedIs ==
  ASSUME SteadyClock, Inside, Call.k \in 1..5, Failed(Found), MonthSafe(expr),
         NEW u \in Instants, date < u, Matches(expr, u)
  PROVE  LocalTime(u).year > LocalTime(date).year + SearchYears
<1>1. /\ at \in Instants /\ expr \in FieldSets /\ From \in Instants /\ date \in Instants
      /\ From <= u /\ date <= From
  BY FromIs DEF Inside, Forward
<1>2. ~Hits(expr, Call.k, at)
  <2>1. CASE Found.at = Invalid
    BY <1>1, <2>1, KeptIs, Local
  <2>2. CASE Found.at # Invalid
    BY <2>2, KeptIs DEF Failed
  <2> QED
    BY <2>1, <2>2
<1>3. Found.at # Invalid /\ Seen(expr, Found.at, u)
  BY <1>1, <1>2, MovesOver
<1>4. Found.at \in Instants
  BY <1>2, <1>3, KeptIs DEF Moved
<1>5. LocalTime(Found.at).year \notin LocalTime(From).year..(LocalTime(From).year + SearchYears)
  BY <1>3 DEF Failed, Dot
<1>6. LocalTime(Found.at).year <= LocalTime(u).year
  BY <1>3, <1>4, YearsInOrder DEF Seen
<1>7. LocalTime(date).year <= LocalTime(From).year
  BY <1>1, MinutesInOrder, YearsInOrder DEF Seen
<1>9. LocalTime(From).year <= LocalTime(Found.at).year
  <2>1. /\ From <= at /\ at < Found.at
    BY <1>2, <1>3, KeptIs DEF Moved, Inside, Forward
  <2>2. From \in Nat /\ at \in Nat /\ Found.at \in Nat
    BY <1>1, <1>4, Parts
  <2> HIDE DEF Found
  <2>3. From <= Found.at
    BY <2>1, <2>2
  <2> QED
    BY <1>1, <1>4, <2>3, MinutesInOrder, YearsInOrder DEF Seen
<1>8. /\ LocalTime(Found.at).year \in Int /\ LocalTime(u).year \in Int
      /\ LocalTime(date).year \in Int /\ LocalTime(From).year \in Int /\ SearchYears \in Int
  <2>1. \A y \in 0..LastYear : y \in Int
    OBVIOUS
  <2>2. LocalTime(Found.at).year \in 0..LastYear /\ LocalTime(u).year \in 0..LastYear
    BY <1>4, Local
  <2>3. LocalTime(date).year \in 0..LastYear /\ LocalTime(From).year \in 0..LastYear
    BY <1>1, Local
  <2>4. SearchYears \in Int
    BY Constants
  <2> QED
    BY <2>1, <2>2, <2>3, <2>4
<1> HIDE DEF Found
<1> QED
  BY <1>5, <1>6, <1>7, <1>8, <1>9

\* What cronexpr_next returns is the first of the instants it has not passed.
LEMMA ArrivedIs ==
  ASSUME SteadyClock, Inside, Call.k = 6
  PROVE  /\ Matches(expr, at) /\ at \in Instants
         /\ MonthSafe(expr) =>
              \A u \in Instants : date < u /\ Matches(expr, u) => Seen(expr, at, u)
<1>1. expr \in FieldSets /\ at \in Instants /\ \A j \in 1..(Call.k - 1) : Hits(expr, j, at)
  BY DEF Inside, Forward
<1>2. \A j \in 1..5 : Hits(expr, j, at)
  BY <1>1
<1>3. Matches(expr, at)
  BY <1>1, <1>2, HitsIs
<1>4. ASSUME MonthSafe(expr), NEW u \in Instants, date < u, Matches(expr, u)
      PROVE  Seen(expr, at, u)
  BY <1>4, FromIs DEF Inside, NonePassed
<1> QED
  BY <1>1, <1>3, <1>4

\* A field that was met, and the seconds after they changed: the next field.
LEMMA GoOnInv ==
  ASSUME Inside, Call.k \in 1..5, NEW S \in SUBSET Before(Call.k + 1), S \in SUBSET FieldNames,
         calls' = [calls EXCEPT ![Len(calls)] = [k |-> Call.k + 1, resets |-> S]],
         at' \in Instants, From' = From, expr' = expr, From <= at',
         \A j \in 1..Call.k : Hits(expr, j, at'),
         at' = From \/ at' % Seconds \in expr.sec \/ at' % Seconds = 0,
         Matches(expr, at') \/ Ready(expr, at', Call.k + 1, S),
         MonthSafe(expr) => \A u \in Instants : From <= u /\ Matches(expr, u) => Seen(expr, at', u)
  PROVE  Nested' /\ Forward' /\ Lowest' /\ NonePassed'
<1>1. Nested' /\ Call'.k = Call.k + 1 /\ Call'.resets = S
  BY NextNested DEF Inside
<1>2. From \in Instants
  BY DEF Inside, Forward
<1>3. 1..(Call.k + 1 - 1) = 1..Call.k
  OBVIOUS
<1>4. Forward'
  BY <1>1, <1>2, <1>3 DEF Forward
<1>5. Lowest'
  BY <1>1 DEF Lowest
<1>6. NonePassed'
  BY DEF NonePassed
<1> QED
  BY <1>1, <1>4, <1>5, <1>6

\* One field of the search.
LEMMA FieldInv ==
  ASSUME SteadyClock, Inside, Search, ~Failed(Found), From' = From, expr' = expr
  PROVE  Nested' /\ Forward' /\ Lowest' /\ NonePassed'
<1> DEFINE k == Call.k
           R == Call.resets
           f == Found.at
<1>1. /\ expr \in FieldSets /\ at \in Instants /\ From \in Instants /\ From <= at
      /\ R \in SUBSET Before(k) /\ R \in SUBSET FieldNames
      /\ \A j \in 1..(k - 1) : Hits(expr, j, at)
      /\ at \in Nat /\ From \in Nat
  BY CallIs, Parts DEF Inside, Forward
<1>2. k \in 1..5
  BY CallIs, OrderIs DEF Inside, Search
<1>3. at' = f /\ f # Invalid
  BY DEF Search, Failed
<1>4. Field = Order[k]
  BY DEF Field
<1>5. CASE Hits(expr, k, at)
  <2>1. f = at /\ Kept(Found)
    BY <1>2, <1>3, <1>5, KeptIs
  <2> DEFINE S == R \cup {Order[k]}
  <2>2. calls' = [calls EXCEPT ![Len(calls)] = [k |-> Call.k + 1, resets |-> S]]
    <3>1. GoOn(Call.resets \cup {Field})
      BY <2>1 DEF Search
    <3> QED
      BY <1>4, <3>1 DEF GoOn
  <2>3. S \in SUBSET Before(k + 1)
    BY <1>1, <1>2, BeforeIs
  <2>4. S \in SUBSET FieldNames
    <3>1. k = 1 \/ k = 2 \/ k = 3 \/ k = 4 \/ k = 5
      BY <1>2
    <3>2. Order[k] \in FieldNames
      BY <3>1, OrderIs DEF FieldNames
    <3> QED
      BY <1>1, <3>2
  <2>5. \A j \in 1..k : Hits(expr, j, at)
    <3>1. \A j \in 1..k : j \in 1..(k - 1) \/ j = k
      BY <1>2
    <3> QED
      BY <1>1, <1>5, <3>1
  <2>6. Matches(expr, at) \/ Ready(expr, at, k + 1, S)
    <3>1. CASE Matches(expr, at)
      BY <3>1
    <3>2. CASE Ready(expr, at, k, R)
      <4>1. \A j \in 1..((k + 1) - 1) : Hits(expr, j, at)
        BY <1>2, <2>5
      <4>2. \A j \in 2..((k + 1) - 1) : Order[j] \in S
        <5>1. \A j \in 2..((k + 1) - 1) : j \in 2..(k - 1) \/ j = k
          BY <1>2
        <5> QED
          BY <3>2, <5>1 DEF Ready
      <4>3. AllSeconds(expr) => "sec" \in S
        <5>1. k = 1 \/ k >= 2
          BY <1>2
        <5> QED
          BY <3>2, <5>1, OrderIs DEF Ready
      <4> HIDE DEF S
      <4> QED
        BY <4>1, <4>2, <4>3 DEF Ready
    <3> QED
      BY <3>1, <3>2 DEF Inside, Lowest
  <2>7. at = From \/ at % Seconds \in expr.sec \/ at % Seconds = 0
    BY DEF Inside, Lowest
  <2>8. MonthSafe(expr) => \A u \in Instants : From <= u /\ Matches(expr, u) => Seen(expr, at, u)
    BY DEF Inside, NonePassed
  <2> HIDE DEF S, f
  <2> QED
    BY <1>1, <1>2, <1>3, <2>1, <2>2, <2>3, <2>4, <2>5, <2>6, <2>7, <2>8, GoOnInv
<1>6. CASE ~Hits(expr, k, at)
  <2>1. ~Kept(Found) /\ Moved(expr, at, k, R, f)
    BY <1>2, <1>3, <1>6, KeptIs
  <2>2. f \in Instants /\ at < f /\ f \in Nat /\ From <= f
    <3>1. f \in Instants /\ at < f
      BY <1>3, <2>1 DEF Moved
    <3> HIDE DEF f
    <3>2. f \in Nat
      BY <3>1, Parts
    <3> QED
      BY <1>1, <3>1, <3>2
  <2>3. MonthSafe(expr) => \A u \in Instants : From <= u /\ Matches(expr, u) => Seen(expr, f, u)
    BY <1>2, <1>6, MovesOver
  <2>4. CASE k = 1
    <3>1. R = {}
      BY <1>1, <2>4, BeforeIs
    <3>2. calls' = [calls EXCEPT ![Len(calls)] = [k |-> Call.k + 1, resets |-> R]]
      <4>1. Field = "sec"
        BY <1>4, <2>4, OrderIs
      <4> QED
        BY <2>1, <4>1 DEF Search, GoOn
    <3>3. Hits(expr, 1, f)
      BY <1>3, <2>1, <2>4 DEF Moved
    <3>4. f % Seconds \in expr.sec
      BY <1>1, <2>2, <3>3, HitsIs
    <3>5. ~AllSeconds(expr)
      <4>1. at % Seconds \notin expr.sec
        BY <1>1, <1>6, <2>4, HitsIs
      <4> QED
        BY <1>1, <4>1, Parts DEF AllSeconds
    <3>6. \A j \in 1..k : Hits(expr, j, f)
      <4>1. \A j \in 1..k : j = 1
        BY <2>4
      <4> QED
        BY <3>3, <4>1
    <3>7. Ready(expr, f, k + 1, R)
      <4>1. 1..((k + 1) - 1) = 1..k /\ 2..((k + 1) - 1) = {}
        BY <2>4
      <4> QED
        BY <3>5, <3>6, <4>1 DEF Ready
    <3> HIDE DEF f
    <3>8. R \in SUBSET Before(k + 1) /\ R \in SUBSET FieldNames
      BY <3>1
    <3> QED
      BY <1>1, <1>2, <1>3, <2>2, <2>3, <3>2, <3>4, <3>6, <3>7, <3>8, GoOnInv
  <2>5. CASE k # 1
    <3>1. k \in 2..5
      BY <1>2, <2>5
    <3>2. calls' = Append(calls, Begin)
      <4>1. k = 2 \/ k = 3 \/ k = 4 \/ k = 5
        BY <3>1
      <4>2. Field # "sec"
        BY <1>4, <4>1, OrderIs
      <4> QED
        BY <2>1, <4>2 DEF Search
    <3>3. Nested' /\ Call'.k = 1 /\ Call'.resets = {}
      BY <3>1, <3>2, PushNested DEF Inside
    <3>4. Forward'
      <4>1. 1..(Call'.k - 1) = {}
        BY <3>3
      <4> QED
        BY <1>1, <1>3, <2>2, <4>1 DEF Forward
    <3>5. Lowest'
      <4>1. f % Seconds \in {at % Seconds, 0}
        BY <1>2, <1>3, <2>1, <2>5 DEF Moved
      <4>2. at % Seconds \in expr.sec
        <5>1. 1 \in 1..(k - 1)
          BY <3>1
        <5> QED
          BY <1>1, <5>1, HitsIs
      <4>3. Ready(expr', at', Call'.k, Call'.resets)
        BY <3>3 DEF Ready
      <4> QED
        BY <1>3, <4>1, <4>2, <4>3 DEF Lowest
    <3>6. NonePassed'
      BY <1>3, <2>3 DEF NonePassed
    <3> QED
      BY <3>3, <3>4, <3>5, <3>6
  <2> QED
    BY <2>4, <2>5
<1> QED
  BY <1>5, <1>6

LEMMA SearchStepInv ==
  ASSUME SteadyClock
  PROVE  SearchInv /\ Search => SearchInv'
<1> SUFFICES ASSUME SearchInv, Search PROVE SearchInv'
  OBVIOUS
<1>1. called = "search" /\ text' = text /\ expr' = expr /\ date' = date /\ text \in Texts
  BY DEF Search, SearchInv
<1>2. CASE Failed(Found) /\ Give(Invalid)
  <2>1. called' = "next" /\ answer' = Invalid /\ again' = FALSE
    BY <1>2 DEF Give
  <2>2. ASSUME Sound(expr) PROVE expr \in FieldSets /\ date \in Instants /\ Answered'
    <3>1. Inside
      BY <1>1, <2>2 DEF SearchInv, Inside
    <3>2. Call.k \in 1..5
      BY <3>1, CallIs, OrderIs DEF Inside, Search
    <3>3. ASSUME MonthSafe(expr), NEW u \in Instants, date < u, Matches(expr, u)
          PROVE  LocalTime(u).year > LocalTime(date).year + SearchYears
      BY <1>2, <3>1, <3>2, <3>3, FailedIs
    <3>4. Answered'
      BY <1>1, <2>1, <3>3 DEF Answered
    <3> QED
      BY <3>1, <3>4 DEF Inside
  <2> QED
    BY <1>1, <2>1, <2>2 DEF SearchInv
<1>3. CASE ~Failed(Found) /\ UNCHANGED <<called, answer, again>>
  <2>1. called' = "search" /\ again' = again
    BY <1>1, <1>3
  <2>2. ASSUME Sound(expr)
        PROVE  /\ expr \in FieldSets /\ date \in Instants /\ again \in BOOLEAN
               /\ Nested' /\ Forward' /\ Lowest' /\ NonePassed'
    <3>1. Inside
      BY <1>1, <2>2 DEF SearchInv, Inside
    <3>2. From' = From
      BY <1>1, <2>1 DEF From
    <3> QED
      BY <1>1, <1>3, <3>1, <3>2, FieldInv DEF Inside
  <2> QED
    BY <1>1, <2>1, <2>2 DEF SearchInv
<1> QED
  BY <1>2, <1>3 DEF Search

LEMMA ReturnInv ==
  ASSUME SteadyClock
  PROVE  SearchInv /\ Return => SearchInv'
<1> SUFFICES ASSUME SearchInv, Return PROVE SearchInv'
  OBVIOUS
<1>1. /\ called = "search" /\ text' = text /\ expr' = expr /\ date' = date /\ text \in Texts
      /\ called' = called /\ again' = again /\ at' = at
  BY DEF Return, SearchInv
<1>2. ASSUME Sound(expr)
      PROVE  /\ expr \in FieldSets /\ date \in Instants /\ again \in BOOLEAN
             /\ Nested' /\ Forward' /\ Lowest' /\ NonePassed'
  <2>1. Inside
    BY <1>1, <1>2 DEF SearchInv, Inside
  <2>2. Call.k = 6
    BY <2>1, CallIs, OrderIs DEF Inside, Return
  <2>3. Matches(expr, at) /\ at \in Instants /\ expr \in FieldSets
    BY <2>1, <2>2, ArrivedIs DEF Inside
  <2>4. Nested' /\ Call'.k \in 3..6
    BY <2>1, PopNested DEF Inside, Return
  <2>5. From' = From
    BY <1>1 DEF From
  <2>6. Forward'
    <3>1. \A j \in 1..(Call'.k - 1) : j \in 1..5
      BY <2>4
    <3>2. \A j \in 1..(Call'.k - 1) : Hits(expr, j, at)
      BY <2>3, <3>1, HitsIs
    <3>3. From \in Instants /\ From <= at
      BY <2>1 DEF Inside, Forward
    <3> QED
      BY <1>1, <2>3, <2>5, <3>2, <3>3 DEF Forward
  <2>7. Lowest'
    BY <1>1, <2>1, <2>3, <2>5 DEF Lowest, Inside
  <2>8. NonePassed'
    BY <1>1, <2>1, <2>5 DEF NonePassed, Inside
  <2> QED
    BY <2>1, <2>4, <2>6, <2>7, <2>8 DEF Inside
<1> QED
  BY <1>1, <1>2 DEF SearchInv

LEMMA FinishInv ==
  ASSUME SteadyClock
  PROVE  SearchInv /\ Finish => SearchInv'
<1> SUFFICES ASSUME SearchInv, Finish PROVE SearchInv'
  OBVIOUS
<1>1. /\ called = "search" /\ text' = text /\ expr' = expr /\ date' = date /\ text \in Texts
  BY DEF Finish, SearchInv
<1>2. ASSUME Sound(expr) PROVE Inside
  BY <1>1, <1>2 DEF SearchInv, Inside
<1>3. ASSUME Sound(expr)
      PROVE  /\ Matches(expr, at) /\ at \in Instants
             /\ MonthSafe(expr) =>
                  \A u \in Instants : date < u /\ Matches(expr, u) => Seen(expr, at, u)
  <2>1. Call.k = 6
    BY <1>2, <1>3, CallIs, OrderIs DEF Inside, Finish
  <2> QED
    BY <1>2, <1>3, <2>1, ArrivedIs
<1>4. CASE at # date \/ again
  <2>1. called' = "next" /\ answer' = at /\ again' = FALSE
    BY <1>4 DEF Finish, Give
  <2>2. ASSUME Sound(expr) PROVE expr \in FieldSets /\ date \in Instants /\ Answered'
    <3>1. date < at
      <4>1. date \in Nat /\ From \in Nat /\ From = IF again THEN date + 1 ELSE date
        BY <1>2, <2>2, FromIs
      <4>2. at \in Nat /\ From <= at
        BY <1>2, <2>2, Parts DEF Inside, Forward
      <4> QED
        BY <1>4, <4>1, <4>2
    <3>2. answer' # Invalid /\ answer' \in Instants /\ date < answer' /\ Matches(expr, answer')
      BY <1>3, <2>1, <2>2, <3>1, Local
    <3>3. ASSUME MonthSafe(expr), NEW u \in Instants, date < u, Matches(expr, u)
          PROVE  Seen(expr, answer', u)
      BY <1>3, <2>1, <2>2, <3>3
    <3>4. Answered'
      BY <1>1, <3>2, <3>3 DEF Answered
    <3> QED
      BY <1>2, <2>2, <3>4 DEF Inside
  <2> QED
    BY <1>1, <2>1, <2>2 DEF SearchInv
<1>5. CASE at = date /\ ~again /\ AddTo(at, "sec") = Invalid
  <2>1. called' = "next" /\ answer' = Invalid /\ again' = FALSE
    BY <1>5 DEF Finish, Give
  <2>2. ASSUME Sound(expr) PROVE expr \in FieldSets /\ date \in Instants /\ Answered'
    <3>1. date \in Instants /\ date \in Nat
      BY <1>2, <2>2, Parts DEF Inside
    <3>2. date + 1 \notin Instants
      <4>1. AddTo(date, "sec") = InOr(date + 1)
        BY <3>1, AddTime
      <4> QED
        BY <1>5, <3>1, <4>1 DEF InOr, Invalid
    <3>3. ASSUME NEW u \in Instants, date < u PROVE FALSE
      BY <3>1, <3>2, <3>3, Sizes
    <3>4. Answered'
      BY <1>1, <2>1, <3>3 DEF Answered
    <3> QED
      BY <1>2, <2>2, <3>4 DEF Inside
  <2> QED
    BY <1>1, <2>1, <2>2 DEF SearchInv
<1>6. CASE at = date /\ ~again /\ AddTo(at, "sec") # Invalid
  <2>1. /\ called' = "search" /\ again' = TRUE /\ at' = AddTo(at, "sec") /\ calls' = <<Begin>>
    BY <1>1, <1>6 DEF Finish
  <2>2. ASSUME Sound(expr)
        PROVE  /\ expr \in FieldSets /\ date \in Instants
               /\ Nested' /\ Forward' /\ Lowest' /\ NonePassed'
    <3>1. expr \in FieldSets /\ date \in Instants
      BY <1>2, <2>2 DEF Inside
    <3>2. at' = date + 1 /\ at' \in Instants
      BY <1>6, <2>1, <3>1, AddTime DEF InOr
    <3>3. From' = at'
      BY <1>1, <2>1, <3>2 DEF From
    <3> QED
      BY <1>1, <2>1, <3>1, <3>2, <3>3, BeginInv
  <2> QED
    BY <1>1, <2>1, <2>2 DEF SearchInv
<1> QED
  BY <1>4, <1>5, <1>6

-----------------------------------------------------------------------------
(* The theorems.                                                            *)

LEMMA Invariance ==
  ASSUME SteadyClock
  PROVE  Spec => []SearchInv
<1>1. SearchInv /\ [Next]_vars => SearchInv'
  <2> SUFFICES ASSUME SearchInv, [Next]_vars PROVE SearchInv'
    OBVIOUS
  <2>1. CASE UNCHANGED vars
    BY <2>1 DEF vars, searchVars, SearchInv, Nested, Forward, Lowest, NonePassed, Answered,
                From, Call
  <2> QED
    BY <2>1, ParseInv, AskInv, SearchStepInv, ReturnInv, FinishInv DEF Next
<1> QED
  BY <1>1, InitInv, PTL DEF Spec

\* The instants between a date and the one that was returned for it.
LEMMA BetweenIs ==
  ASSUME NEW d \in Instants, NEW a \in Instants, NEW t \in (d + 1)..(a - 1)
  PROVE  t \in Instants /\ d < t /\ t < a
<1>1. d \in Nat /\ a \in Nat
  BY Parts
<1>2. t \in Nat /\ d < t /\ t < a
  BY <1>1
<1> QED
  BY <1>1, <1>2, Sizes

\* What cronexpr_next returns is an instant of the expression and later than the date
\* it was asked about, for every calendar, expression and date.
THEOREM AnswersMatch ==
  ASSUME SteadyClock
  PROVE  Spec => []LaterAndMatches
<1>1. SearchInv => LaterAndMatches
  <2> SUFFICES ASSUME SearchInv, Asked, Sound(expr), answer # Invalid
               PROVE  answer > date /\ Matches(expr, answer)
    BY DEF LaterAndMatches
  <2>1. date \in Instants /\ Answered
    BY DEF SearchInv, Asked
  <2>2. answer \in Instants /\ date < answer /\ Matches(expr, answer)
    BY <2>1 DEF Answered
  <2>3. date \in Nat /\ answer \in Nat
    BY <2>1, <2>2, Parts
  <2> QED
    BY <2>2, <2>3
<1> QED
  BY <1>1, Invariance, PTL

\* No instant of the expression lies between the date and the minute of the answer: the
\* carries and the searches do_next begins again pass none.
THEOREM AnswersAreFirst ==
  ASSUME SteadyClock
  PROVE  Spec => []FirstMinute
<1>1. SearchInv => FirstMinute
  <2> SUFFICES ASSUME SearchInv, Asked, Sound(expr), MonthSafe(expr), answer # Invalid,
                      NEW t \in (date + 1)..(answer - 1), Matches(expr, t)
               PROVE  t \div Seconds = answer \div Seconds
    BY DEF FirstMinute
  <2>1. date \in Instants /\ Answered
    BY DEF SearchInv, Asked
  <2>2. answer \in Instants
    BY <2>1 DEF Answered
  <2>3. t \in Instants /\ date < t /\ t < answer
    BY <2>1, <2>2, BetweenIs
  <2>4. Seen(expr, answer, t)
    BY <2>1, <2>3 DEF Answered
  <2>5. t \in Nat /\ answer \in Nat /\ MinuteOf(t) \in Nat /\ MinuteOf(answer) \in Nat
    BY <2>2, <2>3, Parts
  <2>6. Seen(expr, t, answer)
    <3>1. t <= answer
      BY <2>3, <2>5
    <3> QED
      BY <2>2, <2>3, <3>1, MinutesInOrder
  <2>7. MinuteOf(t) = MinuteOf(answer)
    BY <2>4, <2>5, <2>6 DEF Seen
  <2> QED
    BY <2>7, Zenon DEF MinuteOf
<1> QED
  BY <1>1, Invariance, PTL

\* With one second, or all of them, the answer is the first instant of the expression
\* after the date.
THEOREM AnswersAreFirstSeconds ==
  ASSUME SteadyClock
  PROVE  Spec => []FirstInstant
<1>1. SearchInv => FirstInstant
  <2> SUFFICES ASSUME SearchInv, Asked, Sound(expr), MonthSafe(expr), answer # Invalid,
                      Cardinality(expr.sec) \in {1, Seconds},
                      NEW t \in (date + 1)..(answer - 1), Matches(expr, t)
               PROVE  FALSE
    BY DEF FirstInstant
  <2>1. date \in Instants /\ Answered /\ expr \in FieldSets
    BY DEF SearchInv, Asked
  <2>2. answer \in Instants /\ Matches(expr, answer)
    BY <2>1 DEF Answered
  <2>3. t \in Instants /\ date < t /\ t < answer
    BY <2>1, <2>2, BetweenIs
  <2>4. Seen(expr, answer, t)
    BY <2>1, <2>3 DEF Answered
  <2>5. /\ t \in Nat /\ answer \in Nat /\ MinuteOf(t) \in Nat /\ MinuteOf(answer) \in Nat
        /\ t = MinuteOf(t) * Seconds + (t % Seconds)
        /\ answer = MinuteOf(answer) * Seconds + (answer % Seconds)
    BY <2>2, <2>3, Parts
  <2>6. t % Seconds \in expr.sec /\ answer % Seconds \in expr.sec
    <3>1. Hits(expr, 1, t) /\ Hits(expr, 1, answer)
      BY <2>1, <2>2, <2>3, HitsIs
    <3> QED
      BY <2>1, <2>2, <2>3, <3>1, HitsIs
  <2>7. CASE Cardinality(expr.sec) = 1
    <3>1. IsFiniteSet(expr.sec)
      <4>1. IsFiniteSet(0..(Seconds - 1))
        BY FS_Interval, Constants
      <4>2. expr.sec \subseteq 0..(Seconds - 1)
        BY <2>1 DEF FieldSets
      <4> QED
        BY <4>1, <4>2, FS_Subset
    <3>2. \E x : expr.sec = {x}
      BY <2>7, <3>1, FS_Singleton
    <3>3. t % Seconds = answer % Seconds
      BY <2>6, <3>2
    <3>4. MinuteOf(t) <= MinuteOf(answer) /\ MinuteOf(answer) <= MinuteOf(t)
      <4>1. t <= answer
        BY <2>3, <2>5
      <4> QED
        BY <2>2, <2>3, <2>4, <4>1, MinutesInOrder DEF Seen
    <3>5. MinuteOf(t) = MinuteOf(answer)
      BY <2>5, <3>4
    <3>6. t = answer
      BY <2>5, <3>3, <3>5, Zenon
    <3> QED
      BY <2>3, <2>5, <3>6
  <2>8. CASE Cardinality(expr.sec) = Seconds
    <3>1. IsFiniteSet(0..(Seconds - 1)) /\ Cardinality(0..(Seconds - 1)) = Seconds
      <4>1. /\ 0 \in Int /\ Seconds - 1 \in Int /\ ~(0 > Seconds - 1)
            /\ (Seconds - 1) - 0 + 1 = Seconds
        BY Constants
      <4> QED
        BY <4>1, FS_Interval
    <3>2. expr.sec \subseteq 0..(Seconds - 1)
      BY <2>1 DEF FieldSets
    <3>3. AllSeconds(expr)
      BY <2>8, <3>1, <3>2, FS_Subset DEF AllSeconds
    <3>4. answer <= t
      BY <2>4, <3>3 DEF Seen
    <3> QED
      BY <2>3, <2>5, <3>4
  <2> QED
    BY <2>7, <2>8
<1> QED
  BY <1>1, Invariance, PTL

\* A search that is given up has no instant to find within the years it looks ahead.
THEOREM SearchesGivenUp ==
  ASSUME SteadyClock
  PROVE  Spec => []GivesUpLate
<1>1. SearchInv => GivesUpLate
  <2> SUFFICES ASSUME SearchInv, Asked, Sound(expr), MonthSafe(expr), answer = Invalid,
                      NEW t \in Instants, t > date, Matches(expr, t)
               PROVE  LocalTime(t).year > LocalTime(date).year + SearchYears
    BY DEF GivesUpLate
  <2>1. date \in Instants /\ Answered
    BY DEF SearchInv, Asked
  <2>2. date < t
    BY <2>1, Parts
  <2> QED
    BY <2>1, <2>2 DEF Answered
<1> QED
  BY <1>1, Invariance, PTL

\* do_next calls itself only after it has moved the calendar forward.
THEOREM SearchMovesOn ==
  ASSUME SteadyClock
  PROVE  Spec => CallsMoveForward
<1>1. ASSUME SearchInv, [Next]_vars, called = "search", Sound(expr), Len(calls') > Len(calls)
      PROVE  at' > at
  <2>1. Inside
    BY <1>1 DEF SearchInv, Inside
  <2>2. /\ calls \in Seq(CallSet) /\ Len(calls) \in Nat \ {0} /\ Call.k \in 1..6
        /\ at \in Instants
    BY <2>1, CallIs DEF Inside, Nested, Forward
  <2>3. calls' # calls
    BY <1>1, <2>2
  <2>4. ~Parse /\ ~Ask
    BY <1>1 DEF Parse, Ask
  <2>5. ~Return
    <3>1. SUFFICES ASSUME Return PROVE FALSE
      OBVIOUS
    <3>2. Len(calls') = Len(calls) - 1
      BY <2>1, <3>1, PopNested DEF Inside, Return
    <3> QED
      BY <1>1, <2>2, <3>2
  <2>6. ~Finish
    <3>1. SUFFICES ASSUME Finish PROVE FALSE
      OBVIOUS
    <3>2. calls' = <<>> \/ calls' = <<Begin>>
      BY <3>1 DEF Finish, Give
    <3>3. Len(calls') = 0 \/ Len(calls') = 1
      <4>1. CASE calls' = <<>>
        BY <4>1
      <4>2. CASE calls' = <<Begin>>
        BY <4>2, OneCall, Zenon
      <4> QED
        BY <3>2, <4>1, <4>2
    <3>4. ASSUME NEW m \in Nat \ {0}, NEW n, n > m, n = 0 \/ n = 1 PROVE FALSE
      BY <3>4
    <3> QED
      BY <1>1, <2>2, <3>3, <3>4, Zenon
  <2>7. Search
    BY <1>1, <2>3, <2>4, <2>5, <2>6 DEF Next, vars, searchVars
  <2>8. Call.k \in 1..5
    BY <2>2, <2>7, OrderIs DEF Search
  <2>9. ~Failed(Found)
    <3>1. ~Give(Invalid)
      <4>1. calls' # <<>>
        BY <1>1, <2>2
      <4> QED
        BY <4>1 DEF Give
    <3> QED
      BY <2>7, <3>1 DEF Search
  <2>10. at' = Found.at /\ Found.at # Invalid
    BY <2>7, <2>9 DEF Search, Failed
  <2>11. ~Kept(Found)
    <3>1. ASSUME NEW R \in SUBSET FieldNames, GoOn(R) PROVE FALSE
      <4>1. calls' = [calls EXCEPT ![Len(calls)] = [k |-> Call.k + 1, resets |-> R]]
        BY <3>1 DEF GoOn
      <4>2. [k |-> Call.k + 1, resets |-> R] \in CallSet
        BY <2>8 DEF CallSet, FieldNames
      <4>3. Len(calls) \in 1..Len(calls)
        BY <2>2
      <4>4. Len(calls') = Len(calls)
        BY <2>2, <4>1, <4>2, <4>3, SetElement
      <4> QED
        BY <1>1, <2>2, <4>4
    <3>2. Call.resets \in SUBSET FieldNames /\ Field \in FieldNames
      <4>1. Call.k = 1 \/ Call.k = 2 \/ Call.k = 3 \/ Call.k = 4 \/ Call.k = 5
        BY <2>8
      <4> QED
        BY <2>1, <4>1, CallIs, OrderIs DEF Inside, Field, FieldNames
    <3>3. Kept(Found) => GoOn(Call.resets \cup {Field})
      BY <2>7, <2>9 DEF Search
    <3>4. Call.resets \cup {Field} \in SUBSET FieldNames
      BY <3>2
    <3> QED
      BY <3>1, <3>3, <3>4
  <2>12. Moved(expr, at, Call.k, Call.resets, Found.at)
    BY <2>1, <2>8, <2>10, <2>11, KeptIs
  <2>13. Found.at \in Instants /\ at < Found.at
    BY <2>10, <2>12 DEF Moved
  <2> QED
    BY <2>2, <2>10, <2>13, Parts
<1>2. SearchInv /\ [Next]_vars =>
        [called = "search" /\ Calm /\ Sound(expr) /\ Len(calls') > Len(calls)
           => at' > at]_vars
  BY <1>1
<1> QED
  BY <1>2, Invariance, PTL DEF Spec, CallsMoveForward
=============================================================================
