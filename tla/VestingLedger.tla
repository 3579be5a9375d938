--------------------------- MODULE VestingLedger ---------------------------
(***************************************************************************)
(* What the megadrop program promises: each holder takes each tranche at   *)
(* most once, in any grouping, and every tranche of a holder pays the same *)
(* amount (docs/MEGADROP.md, "Vesting").                                   *)
(***************************************************************************)
EXTENDS Integers, FiniteSets

CONSTANTS
    Holders,      \* accounts with an allocation
    Tranches,     \* the tranches of an allocation
    Rates,        \* lamports a tranche may pay
    NoRate        \* the rate of a holder who took nothing yet

VARIABLES
    taken,        \* taken[h]: the tranches h has taken
    rate,         \* rate[h]: lamports per tranche, fixed by the first take
    received      \* received[h]: lamports h was paid

vestVars == <<taken, rate, received>>

VestInit ==
    /\ taken = [h \in Holders |-> {}]
    /\ rate = [h \in Holders |-> NoRate]
    /\ received = [h \in Holders |-> 0]

Take(h, ts, r) ==
    /\ ts # {}
    /\ ts \cap taken[h] = {}
    /\ rate[h] \in {NoRate, r}
    /\ taken' = [taken EXCEPT ![h] = @ \cup ts]
    /\ rate' = [rate EXCEPT ![h] = r]
    /\ received' = [received EXCEPT ![h] = @ + Cardinality(ts) * r]

VestNext ==
    \E h \in Holders, ts \in SUBSET Tranches, r \in Rates : Take(h, ts, r)

VestSpec == VestInit /\ [][VestNext]_vestVars
=============================================================================
