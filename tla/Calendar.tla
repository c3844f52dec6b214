-------------------------------- MODULE Calendar --------------------------------
(***************************************************************************)
(* feed/src/bin/recorder.rs, iso8601_utc_now: the civil date of a number   *)
(* of days since 1970-01-01, without a table of the months.  Years are     *)
(* counted from March, so a leap day is the last day of one.               *)
(***************************************************************************)
EXTENDS Integers

\* As the day of the era with the centuries not taken out.
YearOfEraJulian(doe) == (doe - doe \div 1460) \div 365

\* The year of the 400-year era the day is in, 0 to 399.
YearOfEra(doe) == (doe - doe \div 1460 + doe \div 36524 - doe \div 146096) \div 365

CivilFromDays(days) ==
  LET z == days + 719468
      era == z \div 146097
      doe == z - era * 146097
      yoe == YearOfEra(doe)
      doy == doe - (365 * yoe + yoe \div 4 - yoe \div 100)
      mp == (5 * doy + 2) \div 153
      m == IF mp < 10 THEN mp + 3 ELSE mp - 9
  IN [y |-> yoe + era * 400 + (IF m <= 2 THEN 1 ELSE 0),
      m |-> m,
      d |-> doy - (153 * mp + 2) \div 5 + 1]

\* The time of day of a number of seconds since the epoch.
Clock(secs) ==
  LET rem == secs % 86400
  IN [h |-> rem \div 3600, mi |-> (rem % 3600) \div 60, s |-> rem % 60]

-------------------------------------------------------------------------------
(* Correctness *)

Leap(y) == y % 4 = 0 /\ (y % 100 # 0 \/ y % 400 = 0)

DaysIn(y, m) ==
  CASE m = 2 -> IF Leap(y) THEN 29 ELSE 28
    [] m \in {4, 6, 9, 11} -> 30
    [] OTHER -> 31

\* The day after a date of the Gregorian calendar.
NextDay(date) ==
  IF date.d < DaysIn(date.y, date.m) THEN [y |-> date.y, m |-> date.m, d |-> date.d + 1]
  ELSE IF date.m < 12 THEN [y |-> date.y, m |-> date.m + 1, d |-> 1]
  ELSE [y |-> date.y + 1, m |-> 1, d |-> 1]

\* The conversion starts at the epoch and counts days as the calendar does.
CountsDays(days) ==
  /\ CivilFromDays(0) = [y |-> 1970, m |-> 1, d |-> 1]
  /\ \A z \in days : CivilFromDays(z + 1) = NextDay(CivilFromDays(z))
===============================================================================
