------------------------------ MODULE Calendar ------------------------------
(***************************************************************************)
(* The date arithmetic of vectorize.go: days since 1970-01-01 of a civil   *)
(* date, the weekday, and the minutes between two timestamps.  A timestamp *)
(* is a record of its numbers.  The C-like integer division of Go and the  *)
(* case distinctions around negative numbers amount to the division and    *)
(* the remainder of TLA+, which round towards minus infinity.              *)
(***************************************************************************)
EXTENDS Integers

\* The year starts in March, so that the leap day is its last.
MonthFromMarch(m) == IF m > 2 THEN m - 3 ELSE m + 9

\* A mutant: January and February belong to the year they are written with.
ShiftedYearAlways(y, m) == y

ShiftedYear(y, m) == IF m <= 2 THEN y - 1 ELSE y

DayOfYear(m, d) == (153 * MonthFromMarch(m) + 2) \div 5 + d - 1

DaysFromCivil(y, m, d) ==
  LET s   == ShiftedYear(y, m)
      era == s \div 400
      yoe == s - era * 400
      doe == yoe * 365 + yoe \div 4 - yoe \div 100 + DayOfYear(m, d)
  IN  era * 146097 + doe - 719468

\* 0 is Monday; day 0 was a Thursday.
WeekdayMondayZero(t) == (DaysFromCivil(t.y, t.m, t.d) + 3) % 7

IsoToEpochSeconds(t) ==
  DaysFromCivil(t.y, t.m, t.d) * 86400 + t.hh * 3600 + t.mm * 60 + t.ss

MinutesBetween(a, b) ==
  LET d == IsoToEpochSeconds(a) - IsoToEpochSeconds(b)
  IN  (IF d < 0 THEN -d ELSE d) \div 60

-----------------------------------------------------------------------------
(* The Gregorian calendar itself, against which the arithmetic is held. *)

Leap(y) == y % 4 = 0 /\ (y % 100 # 0 \/ y % 400 = 0)

DaysIn(y, m) ==
  IF m = 2 THEN IF Leap(y) THEN 29 ELSE 28
  ELSE IF m \in {4, 6, 9, 11} THEN 30 ELSE 31

IsDate(y, m, d) == y \in Int /\ m \in 1..12 /\ d \in 1..DaysIn(y, m)

\* The day after a date.
NextYear(y, m, d)  == IF m = 12 /\ d = 31 THEN y + 1 ELSE y
NextMonth(y, m, d) == IF d < DaysIn(y, m) THEN m ELSE IF m = 12 THEN 1 ELSE m + 1
NextDay(y, m, d)   == IF d < DaysIn(y, m) THEN d + 1 ELSE 1
=============================================================================
