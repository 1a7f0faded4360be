------------------------------ MODULE CronExpr ------------------------------
(***************************************************************************)
(* cron/cronexpr.c: an expression is parsed into one set of values per     *)
(* field, and cronexpr_next searches the calendar for the next instant     *)
(* whose fields are all in their sets.                                     *)
(*                                                                         *)
(* The search is a state machine: an action is the search of one field in  *)
(* do_next, a call of do_next by itself, or a return from one.  The        *)
(* calendar is a parameter, so that TLC can search a small one with months *)
(* of different lengths and leap years.  The code is compiled for local    *)
(* time: mktime and localtime are library functions, and the instants of   *)
(* summer time are a parameter too.  struct tm is always one that mktime   *)
(* has put in order, with its tm_isdst, so the search keeps it as the      *)
(* instant it stands for.                                                  *)
(***************************************************************************)
EXTENDS Integers, Sequences, FiniteSets, SequencesExt

CONSTANTS
  Seconds, Minutes, Hours,   \* CRON_MAX_SECONDS, CRON_MAX_MINUTES, CRON_MAX_HOURS
  WeekDays,      \* the days of a week; the value after the last is Sunday too
  Months,        \* CRON_MAX_MONTHS
  LongestMonth,  \* the last value of a day of the month
  LastYear,      \* the calendar has the years from 0 to this one
  FirstDays,     \* the first day of each month of the calendar, and of the one after it
  Summer,        \* the instants at which summer time is in force
  SummerShift,   \* the seconds the clocks are then ahead
  SearchDays,    \* max in find_next_day: the days of the longest year
  SearchYears,   \* the years do_next looks ahead
  Texts,         \* the expressions there may be
  Starts,        \* the dates cronexpr_next is first asked about
  LastStart      \* bound: the last date it is asked about

Invalid == -1           \* CRON_INVALID_INSTANT
Nothing == [sec |-> {}] \* the NULL cronexpr_parse returns; no parsed expression

-----------------------------------------------------------------------------
(* The calendar (libc).  Months and days are counted from the first of      *)
(* year 0, and instants from its midnight.                                  *)

EndMonth == Months * (LastYear + 1)
Days     == 0..(FirstDays[EndMonth] - 1)
Instants == 0..(FirstDays[EndMonth] * Hours * Minutes * Seconds - 1)

DaysIn(month) == FirstDays[month + 1] - FirstDays[month]

MonthOfDays ==
  [day \in Days |->
     CHOOSE n \in 0..(EndMonth - 1) : FirstDays[n] <= day /\ day < FirstDays[n + 1]]

DayOfMonth(day) == day - FirstDays[MonthOfDays[day]] + 1

\* localtime_r
LocalTime(t) ==
  LET clock  == IF t \in Summer THEN t + SummerShift ELSE t
      minute == clock \div Seconds
      hour   == minute \div Minutes
      day    == hour \div Hours
  IN  [sec  |-> clock % Seconds,
       min  |-> minute % Minutes,
       hour |-> hour % Hours,
       mday |-> DayOfMonth(day),
       wday |-> day % WeekDays,
       mon  |-> MonthOfDays[day] % Months,
       year |-> MonthOfDays[day] \div Months,
       isdst |-> t \in Summer]

\* mktime: fields may be past their ranges, and tm_wday is not read.  The fields are
\* those of a summer clock if tm_isdst says so, whether or not it is summer then.  A
\* date outside the calendar is invalid.
Mktime(tm) ==
  LET month == tm.year * Months + tm.mon
      clock == (((FirstDays[month] + tm.mday - 1) * Hours + tm.hour) * Minutes + tm.min)
                 * Seconds + tm.sec
      t == IF tm.isdst THEN clock - SummerShift ELSE clock
  IN  IF month < EndMonth /\ t \in Instants THEN t ELSE Invalid

-----------------------------------------------------------------------------
(* Parsing.  A field's text is a set of elements, separated by commas.  An  *)
(* element is a star, a value or a range, with a step or without (0).       *)

Star          == [kind |-> "star",  lo |-> 0, hi |-> 0, step |-> 0]
Value(v)      == [kind |-> "value", lo |-> v, hi |-> v, step |-> 0]
Between(a, b) == [kind |-> "range", lo |-> a, hi |-> b, step |-> 0]
Every(e, d)   == [e EXCEPT !.step = d]

\* get_range
RangeOf(e, min, max) == IF e.kind = "star" THEN <<min, max - 1>> ELSE <<e.lo, e.hi>>

InRange(e, min, max) ==
  \A i \in 1..2 : RangeOf(e, min, max)[i] \in min..(max - 1)

\* One element of set_number_hits.  A step without a range runs to the maximum;
\* a range that ends before it begins is empty.
ElementHits(e, min, max) ==
  LET first == RangeOf(e, min, max)[1]
      last  == IF e.step # 0 /\ e.kind # "range" THEN max - 1
               ELSE RangeOf(e, min, max)[2]
  IN  {i \in first..last : e.step = 0 \/ (i - first) % e.step = 0}

NumberHits(field, min, max) == UNION {ElementHits(e, min, max) : e \in field}

\* set_days for days_of_week: Sunday is 0 or WeekDays.
WeekDayHits(field) ==
  {d % WeekDays : d \in NumberHits(field, 0, WeekDays + 1)}

\* set_days_of_month: the days run from 0, and 0 is dropped.
MonthDayHits(field) == NumberHits(field, 0, LongestMonth + 1) \ {0}

\* set_months: months run from 1 in the text and from 0 in the calendar.
MonthHits(field) == {m - 1 : m \in NumberHits(field, 1, Months + 1)}

InRanges(txt) ==
  /\ \A e \in txt.sec  : InRange(e, 0, Seconds)
  /\ \A e \in txt.min  : InRange(e, 0, Minutes)
  /\ \A e \in txt.hour : InRange(e, 0, Hours)
  /\ \A e \in txt.wday : InRange(e, 0, WeekDays + 1)
  /\ \A e \in txt.mday : InRange(e, 0, LongestMonth + 1)
  /\ \A e \in txt.mon  : InRange(e, 1, Months + 1)

\* cronexpr_parse
Parsed(txt) ==
  IF ~InRanges(txt) THEN Nothing
  ELSE [sec  |-> NumberHits(txt.sec, 0, Seconds),
        min  |-> NumberHits(txt.min, 0, Minutes),
        hour |-> NumberHits(txt.hour, 0, Hours),
        wday |-> WeekDayHits(txt.wday),
        mday |-> MonthDayHits(txt.mday),
        mon  |-> MonthHits(txt.mon)]

-----------------------------------------------------------------------------
Fields   == {"sec", "min", "hour", "mday", "mon", "wday"}
Elements == [kind : {"star", "value", "range"}, lo : Int, hi : Int, step : Nat]

\* A month is no shorter than a week; the first and the last month of a year are the
\* longest ones; a month is a day longer than in the year after at most; every day of
\* the month comes again within SearchDays.
ASSUME CalendarAssumption ==
  /\ {Seconds, Minutes, Hours, WeekDays, Months, LongestMonth} \subseteq Nat \ {0}
  /\ LastYear \in Nat /\ SearchYears \in Nat
  /\ SearchDays \in Nat /\ SearchDays >= WeekDays
  /\ FirstDays \in [0..EndMonth -> Nat] /\ FirstDays[0] = 0
  /\ \A n \in 0..(EndMonth - 1) :
       /\ DaysIn(n) \in WeekDays..LongestMonth
       /\ n % Months \in {0, Months - 1} => DaysIn(n) = LongestMonth
       /\ n + Months < EndMonth => DaysIn(n) <= DaysIn(n + Months) + 1
  /\ \A day \in Days, d \in 1..LongestMonth :
       \E later \in day..(day + SearchDays) : later \in Days => DayOfMonth(later) = d

\* The summers and the clocks in them are within the calendar.
ASSUME SummerAssumption ==
  /\ SummerShift \in Nat
  /\ \A t \in Summer : t \in Instants /\ t + SummerShift \in Instants

ASSUME TextAssumption == \A txt \in Texts : \A f \in Fields : txt[f] \subseteq Elements

ASSUME StartAssumption == Starts \subseteq Instants

VARIABLES
  text,    \* the expression's text, by fields
  expr,    \* the cronexpr it was parsed into
  called,  \* the call that returned last, or "search" inside cronexpr_next
  date,    \* the date cronexpr_next was last asked about
  answer,  \* what it returned
  again,   \* it searches for the second time: the date itself matched
  at,      \* the calendar of the search
  calls    \* the calls of do_next that have not returned, the innermost last:
           \* the number of the field and the fields that kept their value, resets

searchVars == <<again, at, calls>>
vars == <<text, expr, called, date, answer, searchVars>>

-----------------------------------------------------------------------------
(* Changing the calendar.                                                   *)

\* The field after the one searched is not raised.
AddTo_Bug(t, field) == t

\* set_field; a day past the end of the month set is carried into the next one.
SetField(t, field, val) ==
  IF t = Invalid THEN Invalid ELSE Mktime([LocalTime(t) EXCEPT ![field] = val])

\* add_to_field with 1; a day of the week is added as a day of the month.
AddTo(t, field) ==
  IF t = Invalid THEN Invalid ELSE Mktime([LocalTime(t) EXCEPT ![field] = @ + 1])

\* Nothing is reset.
ResetAll_Bug(t, fields) == t

\* One field of reset_all.
Reset(t, field, fields) ==
  IF field \in fields THEN SetField(t, field, IF field = "mday" THEN 1 ELSE 0) ELSE t

\* reset_all: one mktime for each field, in the order they were pushed.
ResetAll(t, fields) ==
  LET sec  == Reset(t, "sec", fields)
      min  == Reset(sec, "min", fields)
      hour == Reset(min, "hour", fields)
      mday == Reset(hour, "mday", fields)
  IN  Reset(mday, "mon", fields)

\* The field after this one, which find_next carries into.
Carry == [sec |-> "min", min |-> "hour", hour |-> "mday", mon |-> "year"]

\* find_next with next_set_bit: the calendar after the search.
FindNext(bits, t, field, resets) ==
  LET value  == LocalTime(t)[field]
      ahead  == {i \in bits : i >= value}
      rolled == ResetAll(AddTo(t, Carry[field]), {field})
  IN  IF value \in bits THEN t
      ELSE IF ahead # {} THEN ResetAll(SetField(t, field, Min(ahead)), resets)
      ELSE ResetAll(SetField(rolled, field, IF bits # {} THEN Min(bits) ELSE 0), resets)

\* A day that both fields allow.
DayMatches(e, t) == LocalTime(t).mday \in e.mday /\ LocalTime(t).wday \in e.wday

\* find_next_day.  A turn of its loop adds a day, reads it, and resets the lower fields
\* of the calendar; what it read is not read again after that.  The loop stops at a day
\* that both fields allow or that is not in the calendar, or gives up.
FindNextDay(e, t, resets) ==
  LET turn[n \in 0..SearchDays] ==
        IF n = 0 THEN [seen |-> t, at |-> t]
        ELSE LET last == turn[n - 1]
                 day  == AddTo(last.at, "mday")
             IN  IF last.seen = Invalid \/ DayMatches(e, last.seen) THEN last
                 ELSE [seen |-> day, at |-> ResetAll(day, resets)]
  IN  turn[SearchDays]

-----------------------------------------------------------------------------
(* do_next.                                                                 *)

\* The fields in the order of the search.
Order == <<"sec", "min", "hour", "mday", "mon">>

Begin == [k |-> 1, resets |-> {}]
Call  == Last(calls)
Field == Order[Call.k]

\* What the search of the field returns and leaves in the calendar.
Found ==
  IF Field = "mday" THEN FindNextDay(expr, at, Call.resets)
  ELSE LET next == FindNext(expr[Field], at, Field, Call.resets)
       IN  [seen |-> next, at |-> next]

\* The calendar is read again instead of what the search returned.
Kept_Bug(found) == LocalTime(found.seen)[Field] = LocalTime(at)[Field]

\* The field's value is the one the search returned.  For the day that is the day
\* of the month only; a search in an empty set returns 0.
Kept(found) ==
  LET value == LocalTime(at)[Field]
  IN  IF Field = "mday" THEN LocalTime(found.seen).mday = value
      ELSE value \in expr[Field] \/ (expr[Field] = {} /\ value = 0)

\* The date the search began at; its year is dot.
From == IF again THEN date + 1 ELSE date
Dot  == LocalTime(From).year

\* The search ends with the year.
Failed_Bug(found) ==
  found.at # Invalid =>
    Field = "mon" /\ ~Kept(found) /\ LocalTime(found.at).year # Dot

\* The search is given up.  The difference of the years is not signed.
Failed(found) ==
  found.at # Invalid =>
    Field = "mon" /\ ~Kept(found) /\ LocalTime(found.at).year \notin Dot..(Dot + SearchYears)

\* The innermost call goes on with the next field.
GoOn(resets) ==
  calls' = [calls EXCEPT ![Len(calls)] = [k |-> Call.k + 1, resets |-> resets]]

\* cronexpr_next returns.
Give(t) ==
  /\ called' = "next"
  /\ answer' = t
  /\ again' = FALSE /\ calls' = <<>> /\ UNCHANGED at

\* A field that kept its value is one of those a later one resets.  After a field that
\* changed do_next calls itself, except after the seconds.
Search ==
  LET found == Found
  IN  /\ called = "search" /\ Call.k <= Len(Order)
      /\ \/ Failed(found) /\ Give(Invalid)
         \/ /\ ~Failed(found)
            /\ at' = found.at
            /\ \/ Kept(found) /\ GoOn(Call.resets \cup {Field})
               \/ ~Kept(found) /\ Field = "sec" /\ GoOn(Call.resets)
               \/ ~Kept(found) /\ Field # "sec" /\ calls' = Append(calls, Begin)
            /\ UNCHANGED <<called, answer, again>>
      /\ UNCHANGED <<text, expr, date>>

\* The call inside do_next returns, and the field after the one that changed is next.
Return ==
  /\ called = "search" /\ Call.k > Len(Order) /\ Len(calls) > 1
  /\ calls' = [Front(calls) EXCEPT ![Len(calls) - 1].k = @ + 1]
  /\ UNCHANGED <<text, expr, called, date, answer, again, at>>

-----------------------------------------------------------------------------
Init ==
  /\ text \in Texts
  /\ expr = Nothing
  /\ called = "none"
  /\ date \in Starts
  /\ answer = Invalid
  /\ again = FALSE /\ at = date /\ calls = <<>>

Parse ==
  /\ called = "none"
  /\ expr' = Parsed(text)
  /\ called' = "parse"
  /\ UNCHANGED <<text, date, answer, searchVars>>

\* cronexpr_next is called: with a date, and then with the one it returned, the way
\* the trigger times of a job are computed.
Ask ==
  /\ \/ called = "parse" /\ date' = date
     \/ called = "next" /\ answer \in 0..LastStart /\ date' = answer
  /\ IF expr = Nothing
       THEN Give(Invalid)
       ELSE /\ called' = "search"
            /\ at' = date' /\ calls' = <<Begin>>
            /\ UNCHANGED <<answer, again>>
  /\ UNCHANGED <<text, expr>>

\* A date that matches is its own next one.
Finish_Bug ==
  /\ called = "search" /\ Call.k > Len(Order) /\ Len(calls) = 1
  /\ Give(at)
  /\ UNCHANGED <<text, expr, date>>

\* do_next returns to cronexpr_next.  When it has arrived at the date itself it is
\* called again for the second after.
Finish ==
  /\ called = "search" /\ Call.k > Len(Order) /\ Len(calls) = 1
  /\ IF at # date \/ again THEN Give(at)
     ELSE IF AddTo(at, "sec") = Invalid THEN Give(Invalid)
     ELSE /\ again' = TRUE /\ at' = AddTo(at, "sec") /\ calls' = <<Begin>>
          /\ UNCHANGED <<called, answer>>
  /\ UNCHANGED <<text, expr, date>>

Next == Parse \/ Ask \/ Search \/ Return \/ Finish

Spec == Init /\ [][Next]_vars

-----------------------------------------------------------------------------
(* Properties.                                                             *)

\* The instants an expression stands for.
Matches(e, t) ==
  LET tm == LocalTime(t) IN \A f \in DOMAIN e : tm[f] \in e[f]

\* There is no summer time any more from the date on, as in a zone that has given it
\* up: the domain of the order of the answers.
Calm == \A t \in Summer : t < date

\* There is no summer time at all.
SteadyClock == Summer = {}

\* Every field has a value, and one of the two day fields is free: the domain of
\* most of what follows.  An empty field, as of the text 5-2, is searched as 0.
DayOfMonthFree(e) == e.mday = 1..LongestMonth
DayOfWeekFree(e)  == e.wday = 0..(WeekDays - 1)

Sound(e) ==
  /\ e # Nothing
  /\ \A f \in DOMAIN e : e[f] # {}
  /\ DayOfMonthFree(e) \/ DayOfWeekFree(e)

\* Setting the month keeps the day, and a day that the month lacks is carried into the
\* next one: a month is skipped that has another of the days.
MonthSafe(e) ==
  \/ e.mon = 0..(Months - 1)
  \/ \A n \in 0..(EndMonth - 1) :
       n % Months \in e.mon =>
         \/ \A d \in e.mday : d <= DaysIn(n)
         \/ \A d \in e.mday : d > DaysIn(n)

Asked == called = "next"

\* What cronexpr_next returns is an instant of the expression, also where the clocks
\* change: an hour that is left out or comes twice, and a field that a reset puts back
\* over a change, are searched again until every field has one of its values.
AnswerMatches ==
  Asked /\ Sound(expr) /\ answer # Invalid => Matches(expr, answer)

\* What cronexpr_next returns is an instant of the expression and later than the
\* date it was asked about: no job runs at a time its expression does not name,
\* and none is due again at the second it ran.
LaterAndMatches ==
  Asked /\ Calm /\ Sound(expr) /\ answer # Invalid =>
    answer > date /\ Matches(expr, answer)

\* It returns the minute of the first such instant: no instant between the date and the
\* answer matches in an earlier minute, over every carry from a field into the next, the
\* ends of months and leap years, and for fields that were found again after a higher
\* one had changed.
FirstMinute ==
  Asked /\ Calm /\ Sound(expr) /\ MonthSafe(expr) /\ answer # Invalid =>
    \A t \in (date + 1)..(answer - 1) :
      Matches(expr, t) => t \div Seconds = answer \div Seconds

\* It returns the first such instant when the seconds are one value or all.
FirstInstant ==
  /\ Asked /\ Calm /\ Sound(expr) /\ MonthSafe(expr) /\ answer # Invalid
  /\ Cardinality(expr.sec) \in {1, Seconds}
  => \A t \in (date + 1)..(answer - 1) : ~Matches(expr, t)

\* A search that ends without an answer has no instant to find within the years it
\* looks ahead.
GivesUpLate ==
  Asked /\ Calm /\ Sound(expr) /\ MonthSafe(expr) /\ answer = Invalid =>
    \A t \in Instants :
      t > date /\ Matches(expr, t) => LocalTime(t).year > LocalTime(date).year + SearchYears

\* do_next calls itself only after it has moved the calendar forward: the carry into the
\* next field outweighs what is reset below it, so that it cannot call itself for ever.
CallsMoveForward ==
  [][called = "search" /\ Calm /\ Sound(expr) /\ Len(calls') > Len(calls) => at' > at]_vars

\* What is documented for every expression, where there is no summer time.  cronexpr.h:
\* "calculate the next 'fire' date after the specified date".
NextIsFirst ==
  Asked /\ Sound(expr) /\ answer # Invalid =>
    \A t \in (date + 1)..(answer - 1) : ~Matches(expr, t)

\* As much of the same sentence as it takes for a job not to be due at once again, in any
\* zone: the answer is after the date.  The header goes on "To use local dates (current
\* system timezone) instead of GMT compile with '-DCRON_USE_LOCAL_TIME'".
NextIsLater ==
  Asked /\ Sound(expr) /\ answer # Invalid => answer > date
=============================================================================
