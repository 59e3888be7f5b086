----------------------------- MODULE CivilTime -----------------------------
(***************************************************************************)
(* The calendar of Go's time package as the date parser uses it: time.Date *)
(* and AddDate normalise what is out of range.  A moment is a number of    *)
(* minutes since the zero time (1 January of year 1) in a zone of fixed    *)
(* offset; seconds and changes of the offset are left out.                 *)
(***************************************************************************)
EXTENDS Integers

PerDay == 1440
ZeroTime == 0

LeapYear(y) == y % 4 = 0 /\ (y % 100 # 0 \/ y % 400 = 0)
DaysIn(y, m) == CASE m = 2 -> (IF LeapYear(y) THEN 29 ELSE 28)
                  [] m \in {4, 6, 9, 11} -> 30
                  [] OTHER -> 31

BeforeYear(y) == 365 * (y - 1) + (y - 1) \div 4 - (y - 1) \div 100 + (y - 1) \div 400
BeforeMonth(y, m) ==
    (367 * m - 362) \div 12 - (IF m <= 2 THEN 0 ELSE IF LeapYear(y) THEN 1 ELSE 2)

(* time.Date: a month past December is one of a later year, a day past the   *)
(* end of the month one of a later month.                                    *)
DayNumber(y, m, d) ==
    LET year == y + (m - 1) \div 12
        month == ((m - 1) % 12) + 1
    IN  BeforeYear(year) + BeforeMonth(year, month) + d - 1

DayOf(t) == t \div PerDay
ClockOf(t) == t % PerDay
At(day, minutes) == day * PerDay + minutes

Year(day) ==
    LET guess == (400 * day) \div 146097 + 1   \* 400 years are 146097 days
    IN  CHOOSE y \in (guess - 1)..(guess + 1) : BeforeYear(y) <= day /\ day < BeforeYear(y + 1)
Month(day) == LET y == Year(day)
              IN  CHOOSE m \in 1..12 : DayNumber(y, m, 1) <= day /\ day < DayNumber(y, m + 1, 1)
DayInMonth(day) == day - DayNumber(Year(day), Month(day), 1) + 1

Sunday == 0
Monday == 1
Friday == 5
Weekday(day) == (day + 1) % 7   \* day 0 was a Monday

AddDays(t, n) == t + n * PerDay
AddMonths(t, n) ==
    LET day == DayOf(t)
    IN  At(DayNumber(Year(day), Month(day) + n, DayInMonth(day)), ClockOf(t))
=============================================================================
