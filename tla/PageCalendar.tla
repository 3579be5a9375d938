---------------------------- MODULE PageCalendar ----------------------------
(***************************************************************************)
(* The megadrop page's own calendar (frontend/lib/megadrop.ts), with which *)
(* it decides which tranches it offers: a second translation of what       *)
(* calendar.rs does on chain, in floating-point floors.                    *)
(***************************************************************************)
EXTENDS Integers

\* monthFromUnixTimestamp, for a timestamp within the given day.
PageMonth(days) ==
    LET z     == days + 719468
        era   == z \div 146097
        doe   == z - era * 146097
        yoe   == (doe - doe \div 1460 + doe \div 36524 - doe \div 146096) \div 365
        doy   == doe - (365 * yoe + yoe \div 4 - yoe \div 100)
        mp    == (5 * doy + 2) \div 153
        month == IF mp < 10 THEN mp + 3 ELSE mp - 9
        year  == yoe + era * 400 + (IF month <= 2 THEN 1 ELSE 0)
    IN  year * 100 + month

\* addMonths
PageAddMonths(ym, n) ==
    LET months == (ym % 100) - 1 + n
    IN  ((ym \div 100) + months \div 12) * 100 + (months % 12) + 1

\* Mutant: a tranche unlocks a month early.
UnlockMonthEarly(genesis, i) == PageAddMonths(genesis, IF i = 1 THEN 0 ELSE i - 2)

\* trancheUnlockMonth
UnlockMonth(genesis, i) == PageAddMonths(genesis, i - 1)

\* isTrancheUnlocked
ShownUnlocked(genesis, month, i) == month >= UnlockMonth(genesis, i)
=============================================================================
