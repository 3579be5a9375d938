---------------------------- MODULE CalendarWalk ----------------------------
(***************************************************************************)
(* The calendar by its own rules: from 1970-01-01 the days are counted one *)
(* by one, by the lengths of the months and the Gregorian leap years.      *)
(* Beside the walk stand what the megadrop program computes from the       *)
(* number of the day alone, and what its page does.                        *)
(***************************************************************************)
EXTENDS Calendar, PageCalendar

CONSTANTS
    LastDay,       \* bound: days walked from 1970-01-01
    MaxAdded       \* bound: months added, NUM_TRANCHES - 1

\* The walk ends in the year 9998, and no more than a year is added to it: the
\* program refuses a month after the year 9999.
ASSUME WalkAssumption ==
    /\ LastDay \in Nat /\ LastDay <= 2932531
    /\ MaxAdded \in 0..12

VARIABLES
    day,       \* days since 1970-01-01
    date       \* <<year, month, day>> by the walk

walkVars == <<day, date>>

LeapYear(y) == y % 4 = 0 /\ (y % 100 = 0 => y % 400 = 0)

MonthLength(y, m) ==
    IF m = 2 THEN IF LeapYear(y) THEN 29 ELSE 28
    ELSE IF m \in {4, 6, 9, 11} THEN 30 ELSE 31

WalkInit ==
    /\ day = 0
    /\ date = <<1970, 1, 1>>

SameMonth ==
    /\ date[3] < MonthLength(date[1], date[2])
    /\ date' = [date EXCEPT ![3] = @ + 1]

TurnMonth ==
    /\ date[3] = MonthLength(date[1], date[2])
    /\ date[2] < 12
    /\ date' = <<date[1], date[2] + 1, 1>>

TurnYear ==
    /\ date[2] = 12 /\ date[3] = 31
    /\ date' = <<date[1] + 1, 1, 1>>

WalkDay ==
    /\ day < LastDay
    /\ day' = day + 1
    /\ SameMonth \/ TurnMonth \/ TurnYear

WalkSpec == WalkInit /\ [][WalkDay]_walkVars

-----------------------------------------------------------------------------
(* Properties *)

\* civil_from_days agrees with the walk on every day, over a whole cycle of
\* leap years, so that a tranche unlocks on the first of its month and on no
\* other day; adding months (add_months) counts calendar months and gives a
\* plausible month; and the page's own calendar says the same as the chain's.
CalendarMatchesWalk ==
    /\ CivilFromDays(day) = date
    /\ PageMonth(day) = MonthOfDay(day)
    /\ \A n \in 0..MaxAdded :
          LET ym == AddMonths(MonthOfDay(day), n)
          IN  /\ PlausibleMonth(ym)
              /\ (ym \div 100) * 12 + (ym % 100) = date[1] * 12 + date[2] + n
              /\ UnlockMonth(PageMonth(day), n + 1) = ym
=============================================================================
