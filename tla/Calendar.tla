------------------------------ MODULE Calendar ------------------------------
(***************************************************************************)
(* The part of Go's time package that the schedules use: the Gregorian     *)
(* calendar, and a location with one period of daylight saving time.       *)
(*                                                                         *)
(* A time is the number of minutes since 1 January of year 1, UTC.  The    *)
(* day has HoursPerDay hours of MinutesPerHour minutes, so that a run can  *)
(* use a short day; months and years are the real ones.                    *)
(***************************************************************************)
EXTENDS Integers

CONSTANTS
  HoursPerDay, MinutesPerHour,
  Zone   \* [std, dst: offsets in minutes; from, until: the times dst holds]

ASSUME CalendarAssumption ==
  /\ HoursPerDay \in Nat \ {0} /\ MinutesPerHour \in Nat \ {0}
  /\ Zone \in [std : Int, dst : Int, from : Nat, until : Nat]

MinutesPerDay == HoursPerDay * MinutesPerHour

Leap(y) == y % 4 = 0 /\ (y % 100 # 0 \/ y % 400 = 0)

(* Days before the first of January of y, of year 1 on.                    *)
YearStart[y \in Nat] ==
  365 * (y - 1) + (y - 1) \div 4 - (y - 1) \div 100 + (y - 1) \div 400

DaysBefore == <<0, 31, 59, 90, 120, 151, 181, 212, 243, 273, 304, 334>>
MonthStart[y \in Nat, mo \in 1..12] ==
  YearStart[y] + DaysBefore[mo] + (IF mo > 2 /\ Leap(y) THEN 1 ELSE 0)

(* A month past December is one of the next year, a day past the end of    *)
(* the month is one of the next month.                                     *)
DayNumber[y \in Nat, mo \in Nat, d \in Nat] ==
  MonthStart[y + (mo - 1) \div 12, ((mo - 1) % 12) + 1] + d - 1

YearOf[n \in Nat] ==
  CHOOSE y \in n \div 366 .. n \div 365 + 1 : YearStart[y] <= n /\ n < YearStart[y + 1]
MonthOf[y \in Nat, n \in Nat] ==
  CHOOSE mo \in 1..12 : MonthStart[y, mo] <= n /\ n < DayNumber[y, mo + 1, 1]

(* Location.lookup: the period of a time, and its offset.                  *)
Period(t) == IF t < Zone.from THEN "before" ELSE IF t < Zone.until THEN "dst" ELSE "after"
Offset(t) == IF Period(t) = "dst" THEN Zone.dst ELSE Zone.std

(* time.Date looks the local time up as if it were UTC, and once more if   *)
(* the time that gives lies in another period.                             *)
FromLocal[local \in Nat] ==
  LET utc == local - Offset(local) IN
  IF Period(utc) = Period(local) THEN utc ELSE local - Offset(utc)
Date(y, mo, d, h, mi) ==
  FromLocal[DayNumber[y, mo, d] * MinutesPerDay + h * MinutesPerHour + mi]

(* Time.Date, Time.Clock and Time.Weekday, of a local time.                *)
Fields[local \in Nat] ==
  LET n == local \div MinutesPerDay
      y == YearOf[n]
      mo == MonthOf[y, n] IN
  [year |-> y, month |-> mo, day |-> n - MonthStart[y, mo] + 1,
   hour |-> (local % MinutesPerDay) \div MinutesPerHour,
   minute |-> local % MinutesPerHour,
   weekday |-> (n + 1) % 7]
Civil(t) == Fields[t + Offset(t)]
=============================================================================
