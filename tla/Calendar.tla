------------------------------ MODULE Calendar ------------------------------
(***************************************************************************)
(* The calendar arithmetic of the megadrop program (calendar.rs): months   *)
(* are yyyymm integers, derived from the days since 1970-01-01.            *)
(***************************************************************************)
EXTENDS Integers

YyyyMm(year, month) == year * 100 + month

\* Mutant: months are added as plain integers.
AddMonthsPlain(ym, n) == ym + n

AddMonths(ym, n) ==
    LET months == (ym % 100) - 1 + n
    IN  YyyyMm((ym \div 100) + (months \div 12), (months % 12) + 1)

\* The plausibility check of init_megadrop and update_megadrop.
PlausibleMonth(ym) ==
    /\ 1970 <= ym \div 100 /\ ym \div 100 <= 9999
    /\ (ym % 100) \in 1..12

\* Mutant: the century years are all leap years.
YearOfEraJulian(doe) == (doe - doe \div 1460) \div 365

\* Year of the 400-year era, from the day of the era; years begin in March.
YearOfEra(doe) ==
    (doe - doe \div 1460 + doe \div 36524 - doe \div 146096) \div 365

\* civil_from_days: <<year, month, day>> of a day counted from 1970-01-01.
CivilFromDays(days) ==
    LET z     == days + 719468
        era   == z \div 146097
        doe   == z - era * 146097
        yoe   == YearOfEra(doe)
        doy   == doe - (365 * yoe + yoe \div 4 - yoe \div 100)
        mp    == (5 * doy + 2) \div 153
        day   == doy - (153 * mp + 2) \div 5 + 1
        month == IF mp < 10 THEN mp + 3 ELSE mp - 9
    IN  <<yoe + era * 400 + (IF month <= 2 THEN 1 ELSE 0), month, day>>

\* month_from_unix_timestamp, for a timestamp within the given day.
MonthOfDay(days) == YyyyMm(CivilFromDays(days)[1], CivilFromDays(days)[2])
=============================================================================
