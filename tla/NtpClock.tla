------------------------------ MODULE NtpClock ------------------------------
(* The calendar of NTP_Task.c: lwip_calc_date_time, from the hours since 1970  *)
(* to a date.  Minutes and seconds are split off before and play no part.  The *)
(* loops over years and months are read as what they look for.                 *)
EXTENDS Integers

g_days == <<31, 28, 31, 30, 31, 30, 31, 31, 30, 31, 30, 31>>

\* (year & 3) == 0
Leap(year) == year % 4 = 0

HoursPerYear(year) == 365 * 24 + (IF Leap(year) THEN 24 ELSE 0)

\* Hours of the years before the k-th of a four-year period.
HoursBefore(first) ==
  LET h[k \in 0 .. 4] == IF k = 0 THEN 0 ELSE h[k - 1] + HoursPerYear(first + k - 1) IN h

\* Days of the months before month m of a year of 365 days, months from 0.
DaysBefore ==
  LET d[m \in 0 .. 12] == IF m = 0 THEN 0 ELSE d[m - 1] + g_days[m] IN d

\* Mutant of MonthAndDay: the 29th of February has no branch of its own.
MutMonthAndDay(year, n) ==
  LET day == IF Leap(year) /\ n > 60 THEN n - 1 ELSE n
      m == CHOOSE m \in 0 .. 11 : DaysBefore[m] < day /\ day <= DaysBefore[m + 1]
  IN  [month |-> m, day |-> day - DaysBefore[m]]

\* Day n of a year, from 1, as month and day.
MonthAndDay(year, n) ==
  IF Leap(year) /\ n = 60 THEN [month |-> 1, day |-> 29]
  ELSE LET day == IF Leap(year) /\ n > 60 THEN n - 1 ELSE n
           m == CHOOSE m \in 0 .. 11 : DaysBefore[m] < day /\ day <= DaysBefore[m + 1]
       IN  [month |-> m, day |-> day - DaysBefore[m]]

\* lwip_calc_date_time
CalcDateTime(hours) ==
  LET first == 1970 + 4 * (hours \div (1461 * 24))
      rest == hours % (1461 * 24)
      k == CHOOSE k \in 0 .. 3 : HoursBefore(first)[k] <= rest /\ rest < HoursBefore(first)[k + 1]
      date == MonthAndDay(first + k, (rest - HoursBefore(first)[k]) \div 24 + 1)
  IN  [year |-> first + k, month |-> date.month, day |-> date.day, hour |-> hours % 24]
=============================================================================
