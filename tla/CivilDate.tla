------------------------------ MODULE CivilDate ------------------------------
(***************************************************************************)
(* parse_rfc3339_secs (app_auth.rs): from the fields of GitHub's           *)
(* expires_at to Unix seconds, by Hinnant's days_from_civil. An error here *)
(* would move every stated expiry, and with it the margin TokenCache keeps.*)
(*                                                                         *)
(* A stamp is the numbers between its separators. One that has too few     *)
(* of them, or something else than numbers, is refused before.             *)
(***************************************************************************)
EXTENDS Integers

Refused == -1

DAYS_PER_ERA == 146097    \* 400 years
DAYS_TO_1970 == 719468    \* from the March of year 0

\* Rust's division of integers, towards zero; b > 0.
Quotient(a, b) == IF a >= 0 THEN a \div b ELSE -((-a) \div b)

\* The year that starts in March, and the month and the day in it.
MarchYear(year, month) == IF month <= 2 THEN year - 1 ELSE year
day_of_year(month, day) ==
  Quotient(153 * (IF month > 2 THEN month - 3 ELSE month + 9) + 2, 5) + day - 1

\* Days since 1970-01-01.
days_from_civil(year, month, day) ==
  LET y   == MarchYear(year, month)
      era == Quotient(IF y >= 0 THEN y ELSE y - 399, 400)
      yoe == y - era * 400
      doe == yoe * 365 + Quotient(yoe, 4) - Quotient(yoe, 100) + day_of_year(month, day)
  IN  era * DAYS_PER_ERA + doe - DAYS_TO_1970

\* A month that has no such day is not noticed, nor an hour there is not; a
\* time before 1970 does not fit u64.
parse_rfc3339_secs(t) ==
  LET secs == days_from_civil(t.year, t.month, t.day) * 86400
                + t.hour * 3600 + t.min * 60 + t.sec
  IN  IF t.month \notin 1..12 \/ t.day \notin 1..31 \/ secs < 0 THEN Refused ELSE secs

-----------------------------------------------------------------------------
(* The Gregorian calendar, as a reference. *)

IsLeap(year) == year % 4 = 0 /\ (year % 100 # 0 \/ year % 400 = 0)

LastDay(year, month) ==
  CASE month = 2              -> IF IsLeap(year) THEN 29 ELSE 28
    [] month \in {4, 6, 9, 11} -> 30
    [] OTHER                  -> 31

IsDate(year, month, day) == year \in Nat /\ month \in 1..12 /\ day \in 1..LastDay(year, month)

\* The day after.
Tomorrow(year, month, day) ==
  IF day < LastDay(year, month) THEN <<year, month, day + 1>>
  ELSE IF month < 12 THEN <<year, month + 1, 1>>
  ELSE <<year + 1, 1, 1>>

\* Dates <<year, month, day>> in the order of the calendar.
Earlier(a, b) ==
  \/ a[1] < b[1]
  \/ a[1] = b[1] /\ a[2] < b[2]
  \/ a[1] = b[1] /\ a[2] = b[2] /\ a[3] < b[3]

\* The dates from 1970 on, and those of them before d.
Dates == {d \in Nat \X Nat \X Nat : d[1] >= 1970 /\ IsDate(d[1], d[2], d[3])}
DaysBefore(d) == {e \in Dates : Earlier(e, d)}

=============================================================================
