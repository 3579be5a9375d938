------------------------------ MODULE MCLaunch ------------------------------
(* The small curve of MCBondingCurve, two panels with a wallet each, and a *)
(* cron job that fetches two signatures.  Three orders from two panels and *)
(* a drain of the treasury; or three from one panel whose wallet changes;  *)
(* or two, of which the job loses one.                                     *)
EXTENDS Launch

CONSTANTS u1, u2, t1, t2, treasuryAccount

McOpened == [t \in {t1, t2} |-> IF t = t1 THEN u1 ELSE u2]

Budget(used, some, skips, changes, drains) ==
    [used |-> used, orders |-> some, skips |-> skips, changes |-> changes,
     drains |-> drains]

McBudgets == {Budget({t1, t2}, 3, 0, 0, 1), Budget({t1}, 3, 0, 1, 0),
              Budget({t1, t2}, 2, 1, 0, 0)}
=============================================================================
