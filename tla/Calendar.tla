--------------------------------- MODULE Calendar ---------------------------------
(***************************************************************************)
(* Dates as the plans and the pages count them: recurrences, the           *)
(* occurrences in a window, the named ranges of the budget page and the    *)
(* weeks of the ledger (planned_transaction_service.py: _add_months,       *)
(* _advance, next_occurrence, get_occurrences, upcoming_window;            *)
(* budget_service.py: date_range_for_key; core/weeks.py).                  *)
(*                                                                         *)
(* A date is <<year, month, day>>, with the month lengths of the Gregorian *)
(* calendar between 1901 and 2099.                                         *)
(***************************************************************************)
EXTENDS Integers, FiniteSets, Sequences, FiniteSetsExt, SequencesExt

CONSTANTS
    FirstYear, LastYear,    \* bound: the years the calendar knows
    Starts,                 \* start dates a plan may have
    Todays                  \* the days it may be

ASSUME CalendarAssumption == FirstYear \in 1901 .. 2099 /\ LastYear \in FirstYear .. 2099

VARIABLES
    rule,       \* a plan's recurrence: [start, freq, interval, end]
    today

calendarVars == <<rule, today>>

Frequencies == {"once", "daily", "weekly", "biweekly", "monthly", "quarterly", "yearly"}
Never == <<0, 0, 0>>    \* end_date is None

MonthLen(y, m) ==
    CASE m = 2 -> IF y % 4 = 0 THEN 29 ELSE 28
      [] m \in {4, 6, 9, 11} -> 30
      [] OTHER -> 31

\* Days are numbered through, so that dates compare and shift as numbers.
Months12 == [i \in 1 .. ((LastYear - FirstYear + 1) * 12) |->
                <<FirstYear + (i - 1) \div 12, ((i - 1) % 12) + 1>>]
MonthStart ==
    FoldLeft(LAMBDA s, ym : Append(s, Last(s) + MonthLen(ym[1], ym[2])), <<0>>, Months12)
DayNo(d) == MonthStart[(d[1] - FirstYear) * 12 + d[2]] + d[3]
DateOf(n) ==
    LET i == CHOOSE j \in DOMAIN Months12 : MonthStart[j] < n /\ n <= MonthStart[j + 1]
    IN  <<Months12[i][1], Months12[i][2], n - MonthStart[i]>>
Before(d, e) == DayNo(d) < DayNo(e)
Shift(d, days) == DateOf(DayNo(d) + days)
Known(d) == d[1] \in FirstYear .. LastYear /\ d[2] \in 1 .. 12 /\ d[3] \in 1 .. MonthLen(d[1], d[2])

-----------------------------------------------------------------------------
(* Recurrence *)

\* _add_months: the day is cut to the length of the month reached
AddMonths(d, n) ==
    LET total == d[2] + n - 1
        y == d[1] + total \div 12
        m == (total % 12) + 1
    IN  <<y, m, Min({d[3], MonthLen(y, m)})>>

\* _advance
Advance(d, freq, n) ==
    CASE freq = "daily" -> Shift(d, n)
      [] freq = "weekly" -> Shift(d, 7 * n)
      [] freq = "biweekly" -> Shift(d, 14 * n)
      [] freq = "monthly" -> AddMonths(d, n)
      [] freq = "quarterly" -> AddMonths(d, 3 * n)
      [] freq = "yearly" -> IF Known(<<d[1] + n, d[2], d[3]>>) THEN <<d[1] + n, d[2], d[3]>>
                            ELSE <<d[1] + n, d[2], 28>>
      [] OTHER -> d

Ended(r, d) == r.end # Never /\ Before(r.end, d)

\* The walks of next_occurrence and get_occurrences, from d on
RECURSIVE FirstAfter(_, _, _)
FirstAfter(r, d, after) ==
    IF Before(after, d) THEN d ELSE FirstAfter(r, Advance(d, r.freq, r.interval), after)

RECURSIVE UpTo(_, _, _)
UpTo(r, d, to) ==
    IF Before(to, d) \/ Ended(r, d) THEN {}
    ELSE {d} \cup UpTo(r, Advance(d, r.freq, r.interval), to)

\* next_occurrence
NextOccurrence(r, after) ==
    IF r.freq = "once"
    THEN IF Before(after, r.start) /\ ~ Ended(r, r.start) THEN r.start ELSE Never
    ELSE LET d == FirstAfter(r, r.start, after) IN IF Ended(r, d) THEN Never ELSE d

\* Mutant of Occurrences: a date on the first day of the window is passed over.
Occurrences_After(r, from, to) ==
    IF (r.end # Never /\ Before(r.end, from)) \/ r.freq = "once" THEN {}
    ELSE {d \in UpTo(r, r.start, to) : Before(from, d)}

\* get_occurrences for one plan: the window is closed at both ends; a plan that
\* happens once is not compared with its own end inside the window
Occurrences(r, from, to) ==
    IF r.end # Never /\ Before(r.end, from) THEN {}
    ELSE IF r.freq = "once"
    THEN {d \in {r.start} : ~ Before(d, from) /\ ~ Before(to, d)}
    ELSE {d \in UpTo(r, r.start, to) : ~ Before(d, from)}

\* upcoming_window with a filter on the dates; <<>> when it is empty
UpcomingWindow(days, now, from, to) ==
    LET start == IF from # Never /\ Before(now, from) THEN from ELSE now
        end == IF to # Never /\ Before(to, Shift(now, days)) THEN to ELSE Shift(now, days)
    IN  IF days <= 0 \/ Before(end, start) THEN <<>> ELSE <<start, end>>

-----------------------------------------------------------------------------
(* Named ranges and weeks *)

FirstOf(d) == <<d[1], d[2], 1>>
LastOf(d) == <<d[1], d[2], MonthLen(d[1], d[2])>>
QuarterStart(d) == <<d[1], ((d[2] - 1) \div 3) * 3 + 1, 1>>

\* date_range_for_key, but for last_5_years
RangeFor(key, d) ==
    CASE key = "this_month" -> <<FirstOf(d), LastOf(d)>>
      [] key = "last_month" -> <<FirstOf(Shift(FirstOf(d), -1)), Shift(FirstOf(d), -1)>>
      [] key = "this_quarter" -> <<QuarterStart(d), LastOf(AddMonths(QuarterStart(d), 2))>>
      [] key = "last_quarter" ->
           IF QuarterStart(d)[2] = 1 THEN <<<<d[1] - 1, 10, 1>>, <<d[1] - 1, 12, 31>>>>
           ELSE LET m == QuarterStart(d)[2] - 1
                IN  <<<<d[1], m - 2, 1>>, <<d[1], m, MonthLen(d[1], m)>>>>
      [] key = "this_year" -> <<<<d[1], 1, 1>>, <<d[1], 12, 31>>>>
      [] key = "last_year" -> <<<<d[1] - 1, 1, 1>>, <<d[1] - 1, 12, 31>>>>
      [] key = "last_30_days" -> <<Shift(d, -30), d>>
      [] OTHER -> <<FirstOf(d), LastOf(d)>>

\* The first day of last_5_years: the same day of the month five years back
FiveYearsBack(d) == <<d[1] - 5, d[2], d[3]>>

\* week_bucket; day FirstYear-01-01 has weekday Monday0
Monday0 == 6    \* 1 January 2023, the first day of the calendar, is a Sunday
Weekday(d) == (DayNo(d) - 1 + Monday0) % 7

WeekBucket(d, mode) ==
    IF mode = "month_day_1"
    THEN LET start == <<d[1], d[2], ((d[3] - 1) \div 7) * 7 + 1>>
             six == Shift(start, 6)
         IN  <<start, IF Before(LastOf(d), six) THEN LastOf(d) ELSE six>>
    ELSE LET start == Shift(d, - Weekday(d)) IN <<start, Shift(start, 6)>>

-----------------------------------------------------------------------------
Rule ==
    [start : Starts, freq : Frequencies, interval : {1, 2}, end : Starts \cup {Never}]

\* The days of the instance; Never while the calendar is not looked at
Dated == today \in Todays
CalendarTypeOK == rule \in Rule /\ (Dated \/ today = Never)

CalendarInit == rule \in Rule /\ today \in Todays

\* The plan is edited: it may end, or recur at another pace.
Edit(r) == rule' = r /\ UNCHANGED today
CalendarNext ==
    \E f \in Frequencies, n \in {1, 2} : Edit([rule EXCEPT !.freq = f, !.interval = n])
CalendarSpec == CalendarInit /\ [][CalendarNext]_calendarVars

-----------------------------------------------------------------------------
(* Properties *)

\* A window cut in two at any day has the occurrences of its parts, each in one
\* of them: posting day by day, month by month or after a pause offers the same
\* occurrences (get_occurrences).
WindowsSplit ==
    Dated =>
    LET from == Shift(today, -45)
        to == Shift(today, 45)
    IN  rule.end = Never =>
          /\ Occurrences(rule, from, today) \cap Occurrences(rule, Shift(today, 1), to) = {}
          /\ Occurrences(rule, from, to) =
               Occurrences(rule, from, today) \cup Occurrences(rule, Shift(today, 1), to)

\* The next occurrence shown for a plan is the first one its window offers,
\* whatever month lengths and leap days the walk crosses; dates only go forward.
NextIsFirstOffered ==
    Dated =>
    LET n == NextOccurrence(rule, today)
        ahead == Occurrences(rule, Shift(today, 1), Shift(today, 60))
    IN  /\ \A d \in ahead : Known(d) /\ (rule.freq # "once" => Before(d, Advance(d, rule.freq, rule.interval)))
        /\ rule.freq # "once" /\ ahead # {} =>
              n \in ahead /\ \A d \in ahead : ~ Before(d, n)
        /\ n # Never /\ ~ Before(Shift(today, 60), n) => n \in ahead

\* The named ranges meet: the last month, quarter and year end the day before
\* the present one begins, and every range holds the days it should.
RangesAbut ==
    Dated =>
    \A last \in {"month", "quarter", "year"} :
        LET this == RangeFor(CASE last = "month" -> "this_month" [] last = "quarter" -> "this_quarter"
                               [] OTHER -> "this_year", today)
            before == RangeFor(CASE last = "month" -> "last_month" [] last = "quarter" -> "last_quarter"
                                 [] OTHER -> "last_year", today)
        IN  /\ Known(this[1]) /\ Known(this[2])
            /\ ~ Before(today, this[1]) /\ ~ Before(this[2], today)
            /\ Shift(before[2], 1) = this[1]
            /\ Before(before[1], before[2])

\* Every day falls in one week, whichever day weeks start on, and the weeks of a
\* month do not leave it (week_bucket).
WeeksPartition ==
    Dated =>
    \A mode \in {"iso_monday", "month_day_1"}, n \in 0 .. 8 :
        LET d == Shift(today, n)
            w == WeekBucket(today, mode)
        IN  /\ ~ Before(today, w[1]) /\ ~ Before(w[2], today)
            /\ (~ Before(d, w[1]) /\ ~ Before(w[2], d)) = (WeekBucket(d, mode) = w)
            /\ mode = "month_day_1" => w[2][2] = today[2]

\* "last_5_years" is a range on every day there is (date_range_for_key): not on
\* 29 February, whose fifth year back has none.
FiveYearsThere ==
    LET d == FiveYearsBack(today) IN d[3] <= MonthLen(d[1], d[2])

=============================================================================
