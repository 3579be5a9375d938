-------------------------- MODULE AlgorithmProofs --------------------------
(***************************************************************************)
(* The pure algorithms and the faucet.  The calendar is the Gregorian one, *)
(* on every day that the clock can show; an allocation is whole, a leaf is *)
(* found with its proof and nothing else leads to the root, for any list   *)
(* of holders and any policy; the quota of the faucet holds for any        *)
(* configuration, any set of agents and any course of the clock; and a     *)
(* text comes back from its packets, for any widths of their fields.       *)
(***************************************************************************)
EXTENDS CalendarWalk, HolderList, MessageText, AgentFaucet, SharedLemmas, TLAPS

-----------------------------------------------------------------------------
(* The faucet.                                                             *)

\* A configuration that initialize has let through.
Sound == {c \in FaucetConfig : c.epoch_slots > 0}

\* Faucet epochs are numbers and never run backwards.
LEMMA EpochsGrow ==
    ASSUME NEW c \in Sound, NEW s \in Nat
    PROVE  /\ EpochAt(c, s) \in Nat
           /\ EpochAt(c, s) <= EpochAt(c, s + 1)
           /\ EpochAt(c, s + 1) \in Nat
  <1>1. c.start_slot \in Nat /\ c.epoch_slots \in Nat \ {0}
    BY DEF Sound, FaucetConfig
  <1>2. /\ Since(c.start_slot, s) \in Nat
        /\ Since(c.start_slot, s + 1) \in Nat
        /\ Since(c.start_slot, s) <= Since(c.start_slot, s + 1)
    BY <1>1 DEF Since
  <1>3. QED
    BY <1>1, <1>2, QuotientBounds, QuotientsGrow DEF EpochAt

-----------------------------------------------------------------------------

FaucetTypeOK ==
    /\ slot \in Nat
    /\ config \in Sound \cup {NoConfig}
    /\ record \in [Agents -> AgentRecord \cup {NoRecord}]
    /\ given \in [Agents -> Nat]

\* What a record says of the agent: nothing before there is a configuration,
\* nothing of an epoch to come, and what was given in the present one.
RecordOK(a) ==
    /\ config = NoConfig => record[a] = NoRecord
    /\ record[a] = NoRecord => given[a] = 0
    /\ record[a] # NoRecord =>
          /\ record[a].last_claim_epoch <= EpochAt(config, slot)
          /\ record[a].claimed_in_epoch <= config.quota_per_epoch
          /\ given[a] = IF record[a].last_claim_epoch = EpochAt(config, slot)
                        THEN record[a].claimed_in_epoch ELSE 0

FaucetInv == FaucetTypeOK /\ \A a \in Agents : RecordOK(a)

\* No agent is registered at first.
LEMMA InitFaucet == FaucetInit => FaucetInv
  BY DEF FaucetInit, FaucetInv, FaucetTypeOK, RecordOK

\* Setting up pays nobody.
LEMMA InitializeKeeps ==
    ASSUME FaucetInv, NEW args \in FaucetArgs, Initialize(args)
    PROVE  FaucetInv'
  <1>1. args \in Sound
    BY FaucetAssumption DEF Initialize, Sound
  <1>2. FaucetTypeOK'
    BY <1>1 DEF FaucetInv, FaucetTypeOK, Initialize
  <1>3. ASSUME NEW a \in Agents PROVE RecordOK(a)'
    BY DEF FaucetInv, RecordOK, Initialize
  <1>4. QED
    BY <1>2, <1>3 DEF FaucetInv

\* A new agent has claimed nothing.
LEMMA RegisterAgentKeeps ==
    ASSUME FaucetInv, NEW b \in Agents, RegisterAgent(b)
    PROVE  FaucetInv'
  <1> DEFINE fresh == [last_claim_epoch |-> 0, claimed_in_epoch |-> 0, active |-> TRUE]
  <1>1. /\ fresh \in AgentRecord
        /\ fresh.last_claim_epoch = 0
        /\ fresh.claimed_in_epoch = 0
    BY DEF AgentRecord
  <1> HIDE DEF fresh
  <1>2. fresh # NoRecord
    BY <1>1, FaucetAssumption
  <1>3. /\ record' = [record EXCEPT ![b] = fresh]
        /\ given' = [given EXCEPT ![b] = 0]
        /\ config # NoConfig
        /\ config' = config /\ slot' = slot
    BY DEF RegisterAgent, fresh
  <1>4. /\ config \in Sound /\ slot \in Nat
        /\ record \in [Agents -> AgentRecord \cup {NoRecord}]
        /\ given \in [Agents -> Nat]
    BY <1>3 DEF FaucetInv, FaucetTypeOK
  <1>5. FaucetTypeOK'
    BY <1>1, <1>3, <1>4 DEF FaucetTypeOK
  <1>6. EpochAt(config, slot) \in Nat /\ config.quota_per_epoch \in Nat
    BY <1>4, EpochsGrow DEF Sound, FaucetConfig
  <1>7. ASSUME NEW a \in Agents PROVE RecordOK(a)'
    <2>1. CASE a = b
      <3>1. record'[a] = fresh /\ given'[a] = 0
        BY <1>3, <1>4, <2>1
      <3>2. QED
        BY <1>1, <1>2, <1>3, <1>6, <3>1 DEF RecordOK
    <2>2. CASE a # b
      <3>1. record'[a] = record[a] /\ given'[a] = given[a]
        BY <1>3, <1>4, <2>2
      <3>2. RecordOK(a)
        BY DEF FaucetInv
      <3>3. QED
        BY <1>3, <3>1, <3>2 DEF RecordOK
    <2>3. QED
      BY <2>1, <2>2
  <1>8. QED
    BY <1>5, <1>7 DEF FaucetInv

\* Closing the record keeps what was paid.
LEMMA UnregisterAgentKeeps ==
    ASSUME FaucetInv, NEW b \in Agents, UnregisterAgent(b)
    PROVE  FaucetInv'
  <1> DEFINE r == record[b]
             retired == [r EXCEPT !.active = FALSE]
  <1>1. /\ record' = [record EXCEPT ![b] = retired]
        /\ given' = given /\ config' = config /\ slot' = slot
        /\ record[b] # NoRecord
    BY DEF UnregisterAgent
  <1>2. /\ record \in [Agents -> AgentRecord \cup {NoRecord}]
        /\ record[b] \in AgentRecord
    BY <1>1 DEF FaucetInv, FaucetTypeOK
  <1>3. /\ retired \in AgentRecord
        /\ retired # NoRecord
        /\ retired.last_claim_epoch = record[b].last_claim_epoch
        /\ retired.claimed_in_epoch = record[b].claimed_in_epoch
    BY <1>2, FaucetAssumption DEF AgentRecord
  <1> HIDE DEF retired
  <1>4. FaucetTypeOK'
    BY <1>1, <1>2, <1>3 DEF FaucetInv, FaucetTypeOK
  <1>5. ASSUME NEW a \in Agents PROVE RecordOK(a)'
    <2>1. RecordOK(a)
      BY DEF FaucetInv
    <2>2. CASE a = b
      <3>1. record'[a] = retired
        BY <1>1, <1>2, <2>2
      <3>2. QED
        BY <1>1, <1>3, <2>1, <2>2, <3>1 DEF RecordOK
    <2>3. CASE a # b
      <3>1. record'[a] = record[a]
        BY <1>1, <1>2, <2>3
      <3>2. QED
        BY <1>1, <2>1, <3>1 DEF RecordOK
    <2>4. QED
      BY <2>2, <2>3
  <1>6. QED
    BY <1>4, <1>5 DEF FaucetInv

\* Rolled over to the present epoch, a record counts what was given in it.
LEMMA RolledOverCounts ==
    ASSUME FaucetInv, NEW a \in Agents, config # NoConfig, record[a] # NoRecord
    PROVE  LET epoch == EpochAt(config, slot)
               r     == RolledOver(record[a], epoch)
           IN  /\ r \in AgentRecord
               /\ r.last_claim_epoch = epoch
               /\ r.claimed_in_epoch = given[a]
  <1>1. EpochAt(config, slot) \in Nat
    BY EpochsGrow DEF FaucetInv, FaucetTypeOK
  <1>2. record[a] \in AgentRecord
    BY DEF FaucetInv, FaucetTypeOK
  <1>3. RecordOK(a)
    BY DEF FaucetInv
  <1>4. QED
    BY <1>1, <1>2, <1>3 DEF RecordOK, RolledOver, AgentRecord

\* A claim waits for its window.
LEMMA ClaimKeeps ==
    ASSUME FaucetInv, NEW b \in Agents, NEW amount \in ClaimAmounts, Claim(b, amount)
    PROVE  FaucetInv'
  <1> DEFINE epoch == EpochAt(config, slot)
             r     == RolledOver(record[b], epoch)
             paid  == [r EXCEPT !.claimed_in_epoch = r.claimed_in_epoch + amount]
  <1>1. /\ config # NoConfig /\ record[b] # NoRecord
        /\ r.claimed_in_epoch + amount <= config.quota_per_epoch
        /\ record' = [record EXCEPT ![b] = paid]
        /\ given' = [given EXCEPT ![b] = @ + amount]
        /\ slot' = slot /\ config' = config
    BY DEF Claim
  <1>2. /\ r \in AgentRecord
        /\ r.last_claim_epoch = epoch
        /\ r.claimed_in_epoch = given[b]
    BY <1>1, RolledOverCounts
  <1>3. amount \in Nat
    BY FaucetAssumption
  <1>4. /\ record \in [Agents -> AgentRecord \cup {NoRecord}]
        /\ given \in [Agents -> Nat]
        /\ config \in Sound /\ slot \in Nat
    BY <1>1 DEF FaucetInv, FaucetTypeOK
  <1>5. epoch \in Nat
    BY <1>4, EpochsGrow
  <1> HIDE DEF r, epoch
  <1>6. /\ paid \in AgentRecord
        /\ paid # NoRecord
        /\ paid.last_claim_epoch = epoch
        /\ paid.claimed_in_epoch = given[b] + amount
        /\ paid.claimed_in_epoch <= config.quota_per_epoch
    BY <1>1, <1>2, <1>3, FaucetAssumption DEF AgentRecord
  <1> HIDE DEF paid
  <1>7. FaucetTypeOK'
    BY <1>1, <1>3, <1>4, <1>6 DEF FaucetInv, FaucetTypeOK
  <1>8. ASSUME NEW a \in Agents PROVE RecordOK(a)'
    <2>1. CASE a = b
      <3>1. record'[a] = paid /\ given'[a] = given[b] + amount
        BY <1>1, <1>4, <2>1
      <3>2. QED
        BY <1>1, <1>5, <1>6, <3>1 DEF RecordOK, epoch
    <2>2. CASE a # b
      <3>1. record'[a] = record[a] /\ given'[a] = given[a]
        BY <1>1, <1>4, <2>2
      <3>2. RecordOK(a)
        BY DEF FaucetInv
      <3>3. QED
        BY <1>1, <3>1, <3>2 DEF RecordOK
    <2>3. QED
      BY <2>1, <2>2
  <1>9. QED
    BY <1>7, <1>8 DEF FaucetInv

\* Why no epoch starts with a record that is already its own: epochs grow, and
\* no record is ahead of the clock.
LEMMA NextSlotKeeps ==
    ASSUME FaucetInv, NextSlot
    PROVE  FaucetInv'
  <1>1. /\ slot' = slot + 1 /\ config' = config /\ record' = record
        /\ slot \in Nat
        /\ given \in [Agents -> Nat]
    BY DEF NextSlot, FaucetInv, FaucetTypeOK
  <1> DEFINE epoch == EpochAt(config, slot)
             next  == EpochAt(config, slot + 1)
  <1>2. given' = IF config # NoConfig /\ epoch # next THEN [a \in Agents |-> 0] ELSE given
    BY DEF NextSlot
  <1>3. FaucetTypeOK'
    BY <1>1, <1>2 DEF FaucetInv, FaucetTypeOK
  <1>4. config # NoConfig => epoch \in Nat /\ next \in Nat /\ epoch <= next
    BY <1>1, EpochsGrow DEF FaucetInv, FaucetTypeOK
  <1>5. EpochAt(config, slot)' = next
    BY <1>1
  <1> HIDE DEF epoch, next
  <1>6. ASSUME NEW a \in Agents PROVE RecordOK(a)'
    <2>1. /\ config = NoConfig => record[a] = NoRecord
          /\ record[a] = NoRecord => given[a] = 0
          /\ record[a] # NoRecord =>
                /\ record[a].last_claim_epoch <= epoch
                /\ record[a].claimed_in_epoch <= config.quota_per_epoch
                /\ given[a] = IF record[a].last_claim_epoch = epoch
                              THEN record[a].claimed_in_epoch ELSE 0
      BY DEF FaucetInv, RecordOK, epoch
    <2>2. record[a] # NoRecord => record[a].last_claim_epoch \in Nat
      BY DEF FaucetInv, FaucetTypeOK, AgentRecord
    <2>3. given'[a] = IF config # NoConfig /\ epoch # next THEN 0 ELSE given[a]
      BY <1>2
    <2>4. QED
      BY <1>1, <1>4, <1>5, <2>1, <2>2, <2>3 DEF RecordOK
  <1>7. QED
    BY <1>3, <1>6 DEF FaucetInv

\* One step for each instruction.
LEMMA StepKeeps == FaucetInv /\ [FaucetNext]_faucetVars => FaucetInv'
  <1> SUFFICES ASSUME FaucetInv, [FaucetNext]_faucetVars PROVE FaucetInv'
    OBVIOUS
  <1>1. CASE SetMintAuthority \/ UNCHANGED faucetVars
    BY <1>1 DEF SetMintAuthority, faucetVars, FaucetInv, FaucetTypeOK, RecordOK
  <1>2. CASE FaucetNext
    BY <1>1, <1>2, InitializeKeeps, RegisterAgentKeeps, UnregisterAgentKeeps,
       ClaimKeeps, NextSlotKeeps DEF FaucetNext
  <1>3. QED
    BY <1>1, <1>2

\* The quota from the invariant.
LEMMA QuotaFollows == FaucetInv => QuotaHolds
  <1> SUFFICES ASSUME FaucetInv, NEW a \in Agents
               PROVE  /\ given[a] = 0
                         \/ (config # NoConfig /\ given[a] <= config.quota_per_epoch)
                      /\ record[a] # NoRecord =>
                            given[a] = IF record[a].last_claim_epoch = EpochAt(config, slot)
                                       THEN record[a].claimed_in_epoch ELSE 0
    BY DEF QuotaHolds
  <1>1. RecordOK(a)
    BY DEF FaucetInv
  <1>2. QED
    BY <1>1 DEF RecordOK

\* "Each registered agent can claim a fixed per-epoch quota" (lib.rs:4), and no
\* more, whatever the configuration and whenever it claims.
THEOREM QuotaIsKept == FaucetSpec => []QuotaHolds
  BY InitFaucet, StepKeeps, QuotaFollows, PTL DEF FaucetSpec

-----------------------------------------------------------------------------
(* The calendar.                                                           *)

Months == 1..12
MonthDays == 1..31

\* The years of the calculation begin in March: January and February are the
\* last months of the year before.
MarchYear(y, m) == IF m <= 2 THEN y - 1 ELSE y
MarchMonth(m) == IF m <= 2 THEN m + 9 ELSE m - 3

\* Days of the months of such a year that come before month p.
DaysBefore(p) == (153 * p + 2) \div 5

\* Days from March 1st of the year 0 to the first day of the clock.
Epoch == 719468

\* Days from March 1st of the year 0 to a date, by counting years and leap days.
DaysTo(y, m, d) ==
    LET c == MarchYear(y, m)
    IN  365 * c + c \div 4 - c \div 100 + c \div 400 + DaysBefore(MarchMonth(m)) + d - 1

\* The walk stands on a day of the calendar, and has counted the days to it.
WalkInv ==
    \E y \in Nat, m \in Months, d \in MonthDays :
        /\ y >= 1970 /\ d <= MonthLength(y, m)
        /\ date = <<y, m, d>>
        /\ day \in Nat /\ day <= LastDay
        /\ day + Epoch = DaysTo(y, m, d)

LEMMA EpochNat == Epoch \in Nat
  BY SMT DEF Epoch

\* The last day that the walk may reach.
Horizon == 2932531

LEMMA WalkBound == LastDay \in Nat /\ LastDay <= Horizon /\ Horizon \in Nat
  BY WalkAssumption, SMT DEF Horizon

\* What the count of the days is made of.
LEMMA DaysCounted ==
    ASSUME NEW y \in Nat, y >= 1, NEW m \in Months, NEW d \in MonthDays,
           NEW c, c = MarchYear(y, m), NEW k, k = DaysBefore(MarchMonth(m)) + d - 1
    PROVE  /\ c \in Nat /\ k \in Nat
           /\ MarchMonth(m) \in 0..11 /\ DaysBefore(MarchMonth(m)) \in Nat
           /\ DaysTo(y, m, d) = 365 * c + c \div 4 - c \div 100 + c \div 400 + k
           /\ DaysTo(y, m, d) \in Int
  <1> USE DEF Months, MonthDays
  <1>1. c \in Nat /\ MarchMonth(m) \in 0..11
    BY DEF MarchYear, MarchMonth
  <1>2. DaysBefore(MarchMonth(m)) \in Nat
    BY <1>1 DEF DaysBefore
  <1>3. DaysTo(y, m, d) = 365 * c + c \div 4 - c \div 100 + c \div 400
                            + DaysBefore(MarchMonth(m)) + d - 1
    BY DEF DaysTo
  <1>4. /\ c \div 4 \in Nat /\ c \div 100 \in Nat /\ c \div 400 \in Nat
    BY <1>1
  <1>5. QED
    BY <1>1, <1>2, <1>3, <1>4

\* A common year has 365 days, and the leap day is the last of a March year.
LEMMA LeapDays ==
    ASSUME NEW y \in Nat, y >= 1
    PROVE  y \div 4 - y \div 100 + y \div 400
             - ((y - 1) \div 4 - (y - 1) \div 100 + (y - 1) \div 400)
             = IF LeapYear(y) THEN 1 ELSE 0
  BY DEF LeapYear

\* The months from March on follow one another.
LEMMA MonthsFollow ==
    ASSUME NEW y \in Nat, NEW m \in Months
    PROVE  /\ m \notin {2, 12} => MarchMonth(m + 1) = MarchMonth(m) + 1
           /\ m # 2 => DaysBefore(MarchMonth(m) + 1) - DaysBefore(MarchMonth(m)) = MonthLength(y, m)
  <1> USE DEF Months, MonthDays
  <1>1. m \in {1, 2, 3, 4, 5, 6, 7, 8, 9, 10, 11, 12}
    OBVIOUS
  <1>2. QED
    BY <1>1 DEF MarchMonth, DaysBefore, MonthLength

\* Days of an era before the day k of its year y, and the leap day's place.
DayOfEra(y, k) == 365 * y + y \div 4 - y \div 100 + k
LastOfLeap(y, k) == k = 365 => LeapYear(y + 1)

\* The year of the era is found from the day of the era.
LEMMA YearFound ==
    ASSUME NEW y \in Nat, y <= 399, NEW k \in Nat, k <= 365, LastOfLeap(y, k)
    PROVE  YearOfEra(DayOfEra(y, k)) = y
  BY SMTT(60) DEF LastOfLeap, DayOfEra, YearOfEra, LeapYear

\* Of a March year's days, counted from 0, the month and the day of the month.
LEMMA MonthFound ==
    ASSUME NEW y \in Nat, NEW m \in Months, NEW d \in MonthDays, d <= MonthLength(y, m),
           NEW k, k = DaysBefore(MarchMonth(m)) + d - 1
    PROVE  /\ k \in Nat /\ k <= 365
           /\ k = 365 => m = 2 /\ LeapYear(y)
           /\ (5 * k + 2) \div 153 = MarchMonth(m)
           /\ m = IF MarchMonth(m) < 10 THEN MarchMonth(m) + 3 ELSE MarchMonth(m) - 9
  <1> USE DEF Months, MonthDays
  <1>1. m \in {1, 2, 3, 4, 5, 6, 7, 8, 9, 10, 11, 12}
    OBVIOUS
  <1>2. QED
    BY <1>1 DEF MarchMonth, DaysBefore, MonthLength

\* civil_from_days undoes the count of the days.
LEMMA DateFound ==
    ASSUME NEW y \in Nat, y >= 1970, NEW m \in Months, NEW d \in MonthDays, d <= MonthLength(y, m),
           NEW n \in Nat, n + Epoch = DaysTo(y, m, d)
    PROVE  CivilFromDays(n) = <<y, m, d>>
  <1> m \in Nat /\ 1 <= m /\ m <= 12 /\ d \in Nat /\ 1 <= d /\ d <= 31
    BY DEF Months, MonthDays
  <1> DEFINE c == MarchYear(y, m)
             e == c \div 400
             u == c % 400
             k == DaysBefore(MarchMonth(m)) + d - 1
             doe == 365 * u + u \div 4 - u \div 100 + k
             p == MarchMonth(m)
  <1>1. /\ c \in Nat /\ e \in Nat /\ u \in Nat /\ u <= 399 /\ c = 400 * e + u
        /\ y = c + (IF m <= 2 THEN 1 ELSE 0)
    BY DEF MarchYear
  <1> HIDE DEF k
  <1>2. /\ k \in Nat /\ k <= 365 /\ (k = 365 => m = 2 /\ LeapYear(y))
        /\ (5 * k + 2) \div 153 = p
        /\ m = IF p < 10 THEN p + 3 ELSE p - 9
    <2>1. k = DaysBefore(MarchMonth(m)) + d - 1
      BY DEF k
    <2>2. QED
      BY <2>1, MonthFound
  <1>3. k = 365 => LeapYear(u + 1)
    <2>1. SUFFICES ASSUME k = 365 PROVE LeapYear(u + 1)
      OBVIOUS
    <2>2. y = 400 * e + u + 1 /\ LeapYear(y)
      BY <1>1, <1>2, <2>1, SMT
    <2> HIDE DEF c, e, u, k
    <2>3. QED
      BY <1>1, <2>2 DEF LeapYear
  <1>4. k = DaysBefore(p) + d - 1
    BY DEF k
  <1>5. n + Epoch = 365 * c + c \div 4 - c \div 100 + c \div 400 + k
    BY <1>4, DaysCounted
  <1>6. p \in 0..11 /\ DaysBefore(p) \in Nat
    BY <1>4, DaysCounted
  <1> HIDE DEF c, e, u, k, p
  <1>7. /\ c \div 4 = 100 * e + u \div 4
        /\ c \div 100 = 4 * e + u \div 100
        /\ c \div 400 = e
    BY <1>1
  <1>8. n + Epoch = 146097 * e + doe /\ doe \in Nat /\ doe <= 146096
    <2>1. n + Epoch = 146097 * e + doe
      BY <1>1, <1>2, <1>5, <1>7, SMT
    <2>2. doe \in Nat
      BY <1>1, <1>2, SMT
    <2>3. doe <= 146096
      BY <1>1, <1>2, <1>3, SMT DEF LeapYear
    <2>4. QED
      BY <2>1, <2>2, <2>3
  <1>9. YearOfEra(doe) = u
    <2>1. u \in Nat /\ u <= 399 /\ k \in Nat /\ k <= 365
      BY <1>1, <1>2
    <2>2. doe = DayOfEra(u, k) /\ LastOfLeap(u, k)
      BY <1>3 DEF DayOfEra, LastOfLeap
    <2>3. YearOfEra(DayOfEra(u, k)) = u
      BY <2>1, <2>2, YearFound
    <2>4. QED
      BY <2>2, <2>3
  <1>10. doe - (365 * u + u \div 4 - u \div 100) = k
    BY <1>1, <1>2
  <1> HIDE DEF doe
  <1>11. (n + Epoch) \div 146097 = e /\ (n + Epoch) - e * 146097 = doe
    BY <1>1, <1>8, SMT
  <1>12. k - (153 * p + 2) \div 5 + 1 = d
    BY <1>2, <1>4, <1>6 DEF DaysBefore
  <1>13. CivilFromDays(n) =
           <<u + e * 400 + (IF (IF p < 10 THEN p + 3 ELSE p - 9) <= 2 THEN 1 ELSE 0),
             IF p < 10 THEN p + 3 ELSE p - 9, d>>
    <2> DEFINE mth == IF p < 10 THEN p + 3 ELSE p - 9
    <2>1. (n + 719468) \div 146097 = e /\ (n + 719468) - e * 146097 = doe
      BY <1>11, SMT DEF Epoch
    <2>2. /\ u \in Int /\ k \in Int /\ p \in Int /\ e \in Int /\ doe \in Int
      BY <1>1, <1>2, <1>6, <1>8
    <2>3. CivilFromDays(n) =
            LET yoe   == YearOfEra(doe)
                doy   == doe - (365 * yoe + yoe \div 4 - yoe \div 100)
                mp    == (5 * doy + 2) \div 153
                month == IF mp < 10 THEN mp + 3 ELSE mp - 9
            IN  <<yoe + e * 400 + (IF month <= 2 THEN 1 ELSE 0), month,
                  doy - (153 * mp + 2) \div 5 + 1>>
      BY <2>1, <2>2, SMT DEF CivilFromDays
    <2>4. CivilFromDays(n) =
            LET mp    == (5 * k + 2) \div 153
                month == IF mp < 10 THEN mp + 3 ELSE mp - 9
            IN  <<u + e * 400 + (IF month <= 2 THEN 1 ELSE 0), month,
                  k - (153 * mp + 2) \div 5 + 1>>
      BY <1>9, <1>10, <2>2, <2>3
    <2>5. QED
      BY <1>2, <1>12, <2>2, <2>4
  <1>14. u + e * 400 + (IF m <= 2 THEN 1 ELSE 0) = y
    BY <1>1, SMT
  <1>15. QED
    BY <1>2, <1>13, <1>14

\* The walk up to LastDay does not leave the year 9998.
LEMMA YearsBound ==
    ASSUME NEW y \in Nat, NEW m \in Months, NEW d \in MonthDays,
           NEW n \in Nat, n <= Horizon, n + Epoch = DaysTo(y, m, d)
    PROVE  y <= 9998
  <1> m \in Nat /\ 1 <= m /\ m <= 12 /\ d \in Nat /\ 1 <= d /\ d <= 31
    BY DEF Months, MonthDays
  <1>1. ASSUME y >= 9999 PROVE FALSE
    <2> DEFINE c == MarchYear(y, m)
               k == DaysBefore(MarchMonth(m)) + d - 1
    <2>1. c \in Nat /\ (c >= 9999 \/ (c >= 9998 /\ MarchMonth(m) >= 10))
      BY <1>1 DEF MarchYear, MarchMonth
    <2>2. k \in Nat /\ (MarchMonth(m) >= 10 => k >= 306)
      BY DEF MarchMonth, DaysBefore
    <2>3. n + Epoch = 365 * c + c \div 4 - c \div 100 + c \div 400 + k
      BY <1>1, DaysCounted
    <2> HIDE DEF c, k
    <2>4. c \div 4 - c \div 100 + c \div 400 >= 2424
      BY <2>1, SMT
    <2>5. QED
      BY <2>1, <2>2, <2>3, <2>4, SMT DEF Epoch, Horizon
  <1>2. QED
    BY <1>1

\* What adding months to a month gives.
LEMMA MonthsAdded ==
    ASSUME NEW y \in Nat, 1970 <= y, y <= 9998, NEW m \in Months, NEW n \in Nat, n <= 12
    PROVE  LET ym == AddMonths(YyyyMm(y, m), n)
           IN  /\ PlausibleMonth(ym)
               /\ (ym \div 100) * 12 + (ym % 100) = y * 12 + m + n
               /\ PageAddMonths(y * 100 + m, n) = ym
  <1> USE DEF Months, MonthDays
  <1> DEFINE t == m - 1 + n
             ym == (y + t \div 12) * 100 + (t % 12) + 1
  <1>1. (y * 100 + m) \div 100 = y /\ (y * 100 + m) % 100 = m
    OBVIOUS
  <1>2. AddMonths(YyyyMm(y, m), n) = ym /\ PageAddMonths(y * 100 + m, n) = ym
    BY <1>1 DEF AddMonths, YyyyMm, PageAddMonths
  <1>3. /\ ym \div 100 = y + t \div 12
        /\ ym % 100 = (t % 12) + 1
    OBVIOUS
  <1>4. 1970 <= y + t \div 12 /\ y + t \div 12 <= 9999 /\ (t % 12) + 1 \in 1..12
    OBVIOUS
  <1>5. (t \div 12) * 12 + (t % 12) = t
    OBVIOUS
  <1> HIDE DEF ym
  <1>6. PlausibleMonth(ym)
    BY <1>3, <1>4 DEF PlausibleMonth
  <1>7. (ym \div 100) * 12 + (ym % 100) = y * 12 + m + n
    BY <1>3, <1>4, <1>5
  <1>8. QED
    BY <1>2, <1>6, <1>7

LEMMA WalkInvHolds == WalkSpec => []WalkInv
  <1>1. WalkInit => WalkInv
    <2> SUFFICES ASSUME WalkInit PROVE WalkInv
      OBVIOUS
    <2>1. DaysTo(1970, 1, 1) = Epoch /\ Epoch \in Nat /\ 1 <= MonthLength(1970, 1)
      BY SMT DEF DaysTo, MarchYear, MarchMonth, DaysBefore, MonthLength, Epoch
    <2>2. QED
      BY <2>1, WalkBound DEF WalkInit, WalkInv, Months, MonthDays
  <1>2. WalkInv /\ [WalkDay]_walkVars => WalkInv'
    <2> SUFFICES ASSUME WalkInv, [WalkDay]_walkVars PROVE WalkInv'
      OBVIOUS
    <2>1. CASE UNCHANGED walkVars
      BY <2>1 DEF WalkInv, walkVars
    <2>2. CASE WalkDay
      <3>1. PICK y \in Nat, m \in Months, d \in MonthDays :
                /\ y >= 1970 /\ d <= MonthLength(y, m)
                /\ date = <<y, m, d>>
                /\ day \in Nat /\ day <= LastDay
                /\ day + Epoch = DaysTo(y, m, d)
        BY DEF WalkInv
      <3> m \in Nat /\ 1 <= m /\ m <= 12 /\ d \in Nat /\ 1 <= d /\ d <= 31
        BY DEF Months, MonthDays
      <3>2. day' = day + 1 /\ day' \in Nat /\ day' <= LastDay
        <4>1. LastDay \in Int
          BY WalkBound
        <4>2. day < LastDay /\ day' = day + 1
          BY <2>2 DEF WalkDay
        <4>3. QED
          BY <3>1, <4>1, <4>2
      <3>3. date[1] = y /\ date[2] = m /\ date[3] = d
        BY <3>1
      <3>4. MonthLength(y, m) \in 28..31
        BY DEF MonthLength
      <3>5. SUFFICES \E z \in Nat, q \in Months, r \in MonthDays :
                        /\ z >= 1970 /\ r <= MonthLength(z, q)
                        /\ date' = <<z, q, r>>
                        /\ DaysTo(z, q, r) = DaysTo(y, m, d) + 1
        <4>1. DaysTo(y, m, d) \in Int
          BY <3>1, DaysCounted
        <4>2. PICK z \in Nat, q \in Months, r \in MonthDays :
                        /\ z >= 1970 /\ r <= MonthLength(z, q)
                        /\ date' = <<z, q, r>>
                        /\ DaysTo(z, q, r) = DaysTo(y, m, d) + 1
          OBVIOUS
        <4>3. day' + Epoch = DaysTo(z, q, r)
          BY <3>1, <3>2, <4>1, <4>2, EpochNat
        <4>4. QED
          BY <3>2, <4>2, <4>3 DEF WalkInv
      <3>6. CASE SameMonth
        <4>1. date' = <<y, m, d + 1>> /\ d + 1 <= MonthLength(y, m)
          BY <3>1, <3>3, <3>4, <3>6 DEF SameMonth
        <4>2. DaysTo(y, m, d + 1) = DaysTo(y, m, d) + 1
          BY DEF DaysTo, MarchYear, MarchMonth, DaysBefore
        <4>3. d + 1 \in MonthDays
          BY <3>4, <4>1 DEF MonthDays
        <4>4. QED
          BY <3>1, <4>1, <4>2, <4>3
      <3>7. CASE TurnMonth
        <4>1. date' = <<y, m + 1, 1>> /\ d = MonthLength(y, m) /\ m + 1 \in Months
          BY <3>3, <3>7 DEF TurnMonth, Months
        <4>2. DaysTo(y, m + 1, 1) = DaysTo(y, m, d) + 1
          <5>1. CASE m = 2
            <6>1. MarchYear(y, 2) = y - 1 /\ MarchYear(y, 3) = y /\ MarchMonth(2) = 11 /\ MarchMonth(3) = 0
              BY DEF MarchYear, MarchMonth
            <6>2. DaysBefore(11) = 337 /\ DaysBefore(0) = 0
              BY DEF DaysBefore
            <6>3. d = IF LeapYear(y) THEN 29 ELSE 28
              BY <4>1, <5>1 DEF MonthLength
            <6>4. DaysTo(y, 2, d) = 365 * (y - 1) + (y - 1) \div 4 - (y - 1) \div 100
                                      + (y - 1) \div 400 + 337 + d - 1
              BY <6>1, <6>2 DEF DaysTo
            <6>5. DaysTo(y, 3, 1) = 365 * y + y \div 4 - y \div 100 + y \div 400 + 0 + 1 - 1
              BY <6>1, <6>2 DEF DaysTo
            <6>6. y >= 1
              BY <3>1
            <6>7. y \div 4 - y \div 100 + y \div 400
                    - ((y - 1) \div 4 - (y - 1) \div 100 + (y - 1) \div 400)
                    = IF LeapYear(y) THEN 1 ELSE 0
              BY <6>6, LeapDays
            <6>8. DaysTo(y, 3, 1) = DaysTo(y, 2, d) + 1
              BY <6>3, <6>4, <6>5, <6>6, <6>7
            <6>9. QED
              BY <5>1, <6>8
          <5>2. CASE m # 2
            <6>1. MarchYear(y, m + 1) = MarchYear(y, m) /\ MarchYear(y, m) \in Nat
              BY <3>1, <5>2 DEF MarchYear
            <6>2. MarchMonth(m + 1) = MarchMonth(m) + 1
              BY <4>1, <5>2, MonthsFollow DEF Months
            <6>3. DaysBefore(MarchMonth(m) + 1) - DaysBefore(MarchMonth(m)) = d
              BY <4>1, <5>2, MonthsFollow
            <6>4. DaysBefore(MarchMonth(m) + 1) \in Nat /\ DaysBefore(MarchMonth(m)) \in Nat
              BY DEF MarchMonth, DaysBefore
            <6>5. QED
              BY <6>1, <6>2, <6>3, <6>4 DEF DaysTo
          <5>3. QED
            BY <5>1, <5>2
        <4>3. 1 <= MonthLength(y, m + 1)
          BY DEF MonthLength
        <4>4. QED
          BY <3>1, <4>1, <4>2, <4>3 DEF MonthDays
      <3>8. CASE TurnYear
        <4>1. date' = <<y + 1, 1, 1>> /\ m = 12 /\ d = 31
          BY <3>3, <3>8 DEF TurnYear
        <4>2. DaysTo(y + 1, 1, 1) = DaysTo(y, 12, 31) + 1
          BY <3>1 DEF DaysTo, MarchYear, MarchMonth, DaysBefore
        <4>3. 1 <= MonthLength(y + 1, 1) /\ y + 1 >= 1970
          BY <3>1 DEF MonthLength
        <4>4. QED
          BY <4>1, <4>2, <4>3 DEF Months, MonthDays
      <3>9. QED
        BY <2>2, <3>6, <3>7, <3>8 DEF WalkDay
    <2>3. QED
      BY <2>1, <2>2
  <1>3. QED
    BY <1>1, <1>2, PTL DEF WalkSpec

\* The calendar theorem.
THEOREM CalendarIsGregorian == WalkSpec => []CalendarMatchesWalk
  <1>1. WalkInv => CalendarMatchesWalk
    <2> SUFFICES ASSUME WalkInv PROVE CalendarMatchesWalk
      OBVIOUS
    <2>1. PICK y \in Nat, m \in Months, d \in MonthDays :
              /\ y >= 1970 /\ d <= MonthLength(y, m)
              /\ date = <<y, m, d>>
              /\ day \in Nat /\ day <= LastDay
              /\ day + Epoch = DaysTo(y, m, d)
      BY DEF WalkInv
    <2>2. CivilFromDays(day) = <<y, m, d>>
      BY <2>1, DateFound
    <2>3. y \in Nat /\ 1970 <= y /\ y <= 9998
      BY <2>1, YearsBound, WalkBound
    <2>4. MonthOfDay(day) = YyyyMm(y, m)
      BY <2>2 DEF MonthOfDay
    <2>5. PageMonth(day) = CivilFromDays(day)[1] * 100 + CivilFromDays(day)[2]
      BY DEF PageMonth, CivilFromDays, YearOfEra
    <2>6. PageMonth(day) = y * 100 + m /\ YyyyMm(y, m) = y * 100 + m
      BY <2>2, <2>5 DEF YyyyMm
    <2>7. date[1] = y /\ date[2] = m
      BY <2>1
    <2>8. ASSUME NEW n \in 0..MaxAdded
          PROVE  LET ym == AddMonths(MonthOfDay(day), n)
                 IN  /\ PlausibleMonth(ym)
                     /\ (ym \div 100) * 12 + (ym % 100) = date[1] * 12 + date[2] + n
                     /\ UnlockMonth(PageMonth(day), n + 1) = ym
      <3>1. n \in Nat /\ n <= 12 /\ (n + 1) - 1 = n
        BY WalkAssumption, SMT
      <3>2. UnlockMonth(PageMonth(day), n + 1) = PageAddMonths(y * 100 + m, n)
        BY <2>6, <3>1 DEF UnlockMonth
      <3>3. QED
        BY <2>3, <2>4, <2>7, <3>1, <3>2, MonthsAdded
    <2>9. QED
      BY <2>1, <2>2, <2>4, <2>6, <2>8 DEF CalendarMatchesWalk
  <1>2. QED
    BY <1>1, WalkInvHolds, PTL

-----------------------------------------------------------------------------
(* The allocations.                                                        *)

HoldersInv ==
    /\ policy \in [total : Nat, base : Nat, perNft : Nat, perToken : Nat]
    /\ holders \in Seq([owner : Nat, nfts : Nat, tokens : Nat])
    /\ \A i \in DOMAIN holders : holders[i].owner = i

\* A share is a number.
LEMMA ShareType ==
    ASSUME NEW h \in [owner : Nat, nfts : Nat, tokens : Nat],
           NEW p \in [total : Nat, base : Nat, perNft : Nat, perToken : Nat]
    PROVE  RawShare(h, p) \in Nat /\ p.total * Unit \in Nat
  <1>1. /\ h.nfts \in Nat /\ h.tokens \in Nat
        /\ p.total \in Nat /\ p.base \in Nat /\ p.perNft \in Nat /\ p.perToken \in Nat
    OBVIOUS
  <1>2. Unit \in Nat /\ TokenUnit \in Nat \ {0}
    BY LookupAssumption
  <1>3. h.tokens \div TokenUnit \in Nat
    BY <1>1, <1>2, QuotientBounds
  <1>4. \A a, b \in Nat : a * b \in Nat
    OBVIOUS
  <1>5. h.nfts * p.perNft \in Nat /\ (h.tokens \div TokenUnit) * p.perToken \in Nat
    BY <1>1, <1>3, <1>4
  <1>6. p.base + h.nfts * p.perNft + (h.tokens \div TokenUnit) * p.perToken \in Nat
    BY <1>1, <1>5
  <1>7. QED
    BY <1>1, <1>2, <1>4, <1>6 DEF RawShare

\* The truncated shares are at most the target together.
LEMMA ScaledFits ==
    ASSUME NEW S, IsFiniteSet(S), NEW raw \in [S -> Nat], NEW t \in Nat,
           SumOver(raw) > 0
    PROVE  /\ Scaled(raw, t) \in [S -> Nat]
           /\ SumOver(Scaled(raw, t)) \in Nat
           /\ SumOver(Scaled(raw, t)) <= t
           /\ \A i, j \in S : raw[i] <= raw[j] => Scaled(raw, t)[i] <= Scaled(raw, t)[j]
  <1> DEFINE R == SumOver(raw)
             f == Scaled(raw, t)
             s == SumFunctionOnSet(f, S)
  <1>1. DOMAIN raw = S /\ R = SumFunctionOnSet(raw, S)
    BY DEF SumOver
  <1>2. R \in Nat \ {0}
    <2>1. SumFunctionOnSet(raw, S) \in Nat
      BY SumNat
    <2>2. QED
      BY <1>1, <2>1
  <1>3. f = [i \in S |-> (t * raw[i]) \div R]
    BY <1>1 DEF Scaled
  <1> HIDE DEF R, f
  <1>4. ASSUME NEW i \in S PROVE f[i] \in Nat /\ raw[i] \in Nat /\ f[i] * R <= t * raw[i]
    <2>1. raw[i] \in Nat /\ t * raw[i] \in Nat
      OBVIOUS
    <2>2. QED
      BY <1>2, <1>3, <2>1, QuotientBounds
  <1>5. ASSUME NEW i \in S PROVE f[i] \in Int /\ raw[i] \in Int /\ R * f[i] <= t * raw[i]
    BY <1>2, <1>4
  <1>6. R * s <= t * SumFunctionOnSet(raw, S)
    <2>1. R \in Int /\ t \in Int
      BY <1>2
    <2>2. \A i \in S : f[i] \in Int /\ raw[i] \in Int /\ R * f[i] <= t * raw[i]
      BY <1>5
    <2>3. QED
      BY ONLY <2>1, <2>2, SumWeighed, IsFiniteSet(S)
  <1>7. s \in Nat
    BY <1>4, SumNat
  <1> HIDE DEF s
  <1>8. R * s <= t * R
    BY <1>1, <1>6
  <1>9. s <= t
    <2>1. SUFFICES ASSUME t + 1 <= s PROVE FALSE
      BY <1>7
    <2>2. (t + 1) * R <= s * R /\ (t + 1) * R = t * R + R /\ s * R = R * s
      BY <1>2, <1>7, <2>1, Products
    <2>3. t * R \in Nat /\ R * s \in Nat
      BY <1>2, <1>7
    <2>4. QED
      BY <1>2, <1>8, <2>2, <2>3
  <1>10. f \in [S -> Nat] /\ DOMAIN f = S
    BY <1>3, <1>4
  <1>11. ASSUME NEW i \in S, NEW j \in S, raw[i] <= raw[j] PROVE f[i] <= f[j]
    <2>1. raw[i] \in Nat /\ raw[j] \in Nat
      OBVIOUS
    <2>2. raw[i] * t <= raw[j] * t /\ raw[i] * t \in Nat /\ raw[j] * t \in Nat
      BY <1>11, <2>1, Products
    <2>3. t * raw[i] <= t * raw[j] /\ t * raw[i] \in Nat /\ t * raw[j] \in Nat
      BY <2>1, <2>2
    <2>4. (t * raw[i]) \div R <= (t * raw[j]) \div R
      BY <1>2, <2>3, QuotientsGrow
    <2>5. QED
      BY <1>3, <2>4
  <1>12. SumOver(f) = s
    BY <1>10 DEF SumOver, s
  <1>13. QED
    BY <1>7, <1>9, <1>10, <1>11, <1>12 DEF f

OwnedInOrder(hs, S) == \A i \in S : hs[i].owner = i

\* By raw share, then by owner, is an order of the holders.
LEMMA AheadOrders ==
    ASSUME NEW n \in Nat, NEW raw \in [1..n -> Nat], NEW hs,
           OwnedInOrder(hs, 1..n),
           NEW b \in [1..n -> SUBSET (1..n)],
           \A i, j \in 1..n : j \in b[i] <=> Ahead(hs, raw, j, i)
    PROVE  OrdersBy(b, 1..n)
  <1>1. ASSUME NEW i \in 1..n, NEW j \in 1..n
        PROVE  j \in b[i] <=> raw[j] > raw[i] \/ (raw[j] = raw[i] /\ j < i)
    BY DEF Ahead, OwnedInOrder
  <1>2. b \in [1..n -> SUBSET (1..n)]
    OBVIOUS
  <1>3. ASSUME NEW x \in 1..n
        PROVE  x \notin b[x] /\ \A y \in b[x] : b[y] \subseteq b[x]
    <2>1. raw[x] \in Nat /\ x \in Nat
      OBVIOUS
    <2>2. x \notin b[x]
      BY <1>1, <2>1
    <2>3. ASSUME NEW y \in b[x], NEW z \in b[y] PROVE z \in b[x]
      <3>1. y \in 1..n
        BY <1>2
      <3>2. z \in 1..n
        BY <1>2, <3>1
      <3>3. /\ raw[y] > raw[x] \/ (raw[y] = raw[x] /\ y < x)
            /\ raw[z] > raw[y] \/ (raw[z] = raw[y] /\ z < y)
        BY <1>1, <2>3, <3>1, <3>2
      <3>4. raw[y] \in Nat /\ raw[z] \in Nat /\ y \in Nat /\ z \in Nat
        BY <3>1, <3>2
      <3>5. raw[z] > raw[x] \/ (raw[z] = raw[x] /\ z < x)
        BY <2>1, <3>3, <3>4
      <3>6. QED
        BY <1>1, <3>2, <3>5
    <2>4. QED
      BY <2>2, <2>3
  <1>4. ASSUME NEW x \in 1..n, NEW y \in 1..n PROVE x = y \/ x \in b[y] \/ y \in b[x]
    <2>1. raw[x] \in Nat /\ raw[y] \in Nat /\ x \in Nat /\ y \in Nat
      OBVIOUS
    <2>2. QED
      BY <1>1, <2>1
  <1>5. QED
    BY <1>2, <1>3, <1>4 DEF OrdersBy

\* The larger share gets no less.
KeepsOrder(raw, f, S) == \A i, j \in S : raw[i] <= raw[j] => f[i] <= f[j]
FollowsOrder(raw, h, S) == \A i, j \in S : raw[i] < raw[j] => h[i] <= h[j]

\* The residue is handed out, to the last lamport, and in the order of the shares.
LEMMA ResidueHandedOut ==
    ASSUME NEW n \in Nat \ {0}, NEW raw \in [1..n -> Nat], NEW f \in [1..n -> Nat],
           NEW res \in Nat, NEW hs, OwnedInOrder(hs, 1..n), KeepsOrder(raw, f, 1..n),
           NEW h, h = WithResidue(hs, raw, f, res)
    PROVE  /\ SumOver(h) = SumOver(f) + res
           /\ FollowsOrder(raw, h, 1..n)
  <1> DEFINE S == 1..n
             b == [i \in S |-> {j \in S : Ahead(hs, raw, j, i)}]
             q == res \div n
             r == res % n
             g == [i \in S |-> IF Cardinality(b[i]) < r THEN 1 ELSE 0]
  <1>1. IsFiniteSet(S) /\ Cardinality(S) = n
    <2>1. IsFiniteSet(1..n) /\ Cardinality(1..n) = IF 1 > n THEN 0 ELSE n - 1 + 1
      BY FS_Interval
    <2>2. QED
      BY <2>1
  <1>2. DOMAIN f = S /\ Len(f) = n
    OBVIOUS
  <1>3. q \in Nat /\ r \in 0..n /\ res = n * q + r
    BY Divided
  <1>4. OrdersBy(b, S)
    <2> DEFINE c == b
    <2>1. /\ c \in [1..n -> SUBSET (1..n)]
          /\ \A i, j \in 1..n : j \in c[i] <=> Ahead(hs, raw, j, i)
      OBVIOUS
    <2> HIDE DEF c
    <2>2. OrdersBy(c, 1..n)
      BY <2>1, AheadOrders
    <2>3. QED
      BY <2>2 DEF c
  <1>5. h = [i \in S |-> f[i] + q + g[i]]
    BY <1>2 DEF WithResidue
  <1>6. \A i \in S : Cardinality(b[i]) \in Nat
    <2> HIDE DEF S, b
    <2>1. \A i \in S : Cardinality(b[i]) \in 0..(Cardinality(S) - 1)
      BY <1>1, <1>4, PlacesTaken DEF HasPlaces
    <2>2. QED
      BY <1>1, <2>1
  <1>7. \A i \in S : g[i] = IF Cardinality(b[i]) < r THEN 1 ELSE 0
    OBVIOUS
  <1>8. \A i \in S : g[i] \in Int /\ f[i] \in Int
    OBVIOUS
  <1>9. ASSUME NEW i \in S, NEW j \in S, raw[i] < raw[j] PROVE j \in b[i]
    BY <1>9 DEF Ahead
  <1> HIDE DEF S, b, q, r, g
  <1>10. SumFunctionOnSet(g, S) = r
    BY <1>1, <1>3, <1>4, <1>7, FirstPlaces
  <1>11. SumFunctionOnSet(h, S) = SumFunctionOnSet(f, S) + Cardinality(S) * q + SumFunctionOnSet(g, S)
    <2>1. Raised(f, g, h, q, S)
      BY <1>5, <1>8 DEF Raised
    <2>2. q \in Int
      BY <1>3
    <2>3. QED
      BY <1>1, <2>1, <2>2, SumRaised
  <1>12. SumOver(h) = SumFunctionOnSet(h, S) /\ SumOver(f) = SumFunctionOnSet(f, S)
    BY <1>2, <1>5 DEF SumOver
  <1>13. SumFunctionOnSet(f, S) \in Int
    BY <1>1, <1>8, SumInt
  <1>14. n * q \in Int
    BY <1>3
  <1>15. SumOver(h) = SumOver(f) + res
    BY <1>1, <1>3, <1>10, <1>11, <1>12, <1>13, <1>14
  <1>16. ASSUME NEW i \in S, NEW j \in S, raw[i] < raw[j] PROVE h[i] <= h[j]
    <2>1. Cardinality(b[j]) < Cardinality(b[i])
      BY <1>1, <1>4, <1>9, <1>16, PlacesGrow
    <2>2. Cardinality(b[i]) \in Nat /\ Cardinality(b[j]) \in Nat
      BY <1>6
    <2>3. g[i] <= g[j]
      BY <1>3, <1>7, <2>1, <2>2
    <2>4. raw[i] \in Nat /\ raw[j] \in Nat
      BY DEF S
    <2>5. f[i] <= f[j]
      BY <1>16, <2>4 DEF S, KeepsOrder
    <2>6. h[i] = f[i] + q + g[i] /\ h[j] = f[j] + q + g[j]
      BY <1>5
    <2>7. f[i] \in Int /\ f[j] \in Int /\ g[i] \in Int /\ g[j] \in Int /\ q \in Int
      BY <1>3, <1>8
    <2>8. \A u, v, x, y \in Int : u <= v /\ x <= y => u + q + x <= v + q + y
      BY <2>7
    <2>9. f[i] + q + g[i] <= f[j] + q + g[j]
      BY <2>3, <2>5, <2>7, <2>8
    <2>10. QED
      BY <2>6, <2>9
  <1>17. QED
    BY <1>15, <1>16 DEF S, FollowsOrder

\* Whatever the list and the policy.
LEMMA AllocationsHold ==
    ASSUME HoldersInv
    PROVE  AllocationsAddUp
  <1> DEFINE n == Len(holders)
             S == 1..n
             raw == [i \in S |-> RawShare(holders[i], policy)]
             t == policy.total * Unit
             f == Scaled(raw, t)
             amounts == Allocate(holders, policy)
  <1>1. n \in Nat /\ DOMAIN holders = S /\ (\A i \in S : holders[i].owner = i)
    BY DEF HoldersInv
  <1>2. raw \in [S -> Nat] /\ t \in Nat
    <2>1. /\ policy \in [total : Nat, base : Nat, perNft : Nat, perToken : Nat]
          /\ \A i \in S : holders[i] \in [owner : Nat, nfts : Nat, tokens : Nat]
      <3> DEFINE H == [owner : Nat, nfts : Nat, tokens : Nat]
      <3>1. policy \in [total : Nat, base : Nat, perNft : Nat, perToken : Nat]
        BY DEF HoldersInv
      <3>2. holders \in Seq(H)
        BY DEF HoldersInv
      <3>3. \A i \in 1..Len(holders) : holders[i] \in H
        <4> HIDE DEF H
        <4>1. QED
          BY <3>2
      <3>4. QED
        BY <3>1, <3>3
    <2>2. t \in Nat
      <3>1. PICK h \in [owner : Nat, nfts : Nat, tokens : Nat] : TRUE
        <4>1. [owner |-> 0, nfts |-> 0, tokens |-> 0] \in [owner : Nat, nfts : Nat, tokens : Nat]
          OBVIOUS
        <4>2. QED
          BY <4>1
      <3>2. QED
        BY <2>1, <3>1, ShareType
    <2>3. \A i \in S : RawShare(holders[i], policy) \in Nat
      BY <2>1, ShareType
    <2>4. QED
      BY <2>2, <2>3
  <1>3. IsFiniteSet(S)
    <2> HIDE DEF n
    <2>1. n \in Int /\ 1 \in Int
      BY <1>1
    <2>2. IsFiniteSet(1..n)
      BY ONLY <2>1, FS_Interval
    <2>3. QED
      BY <2>2
  <1>4. amounts = IF t = 0 \/ SumOver(raw) = 0 THEN [i \in S |-> 0]
                  ELSE WithResidue(holders, raw, f, t - SumOver(f))
    BY <1>1 DEF Allocate
  <1>5. SumOver(raw) \in Nat
    <2>1. DOMAIN raw = S
      OBVIOUS
    <2>2. SumFunctionOnSet(raw, S) \in Nat
      <3> HIDE DEF raw
      <3>1. QED
        BY <1>2, <1>3, SumNat
    <2>3. QED
      BY <2>1, <2>2 DEF SumOver
  <1>6. AllocationsAddUp <=>
            /\ (holders # <<>> /\ SumOver(raw) > 0 => SumOver(amounts) = t)
            /\ \A i, j \in S : raw[i] < raw[j] => amounts[i] <= amounts[j]
    BY <1>1 DEF AllocationsAddUp
  <1> HIDE DEF raw, t, f, amounts
  <1>7. CASE t = 0 \/ SumOver(raw) = 0
    <2>1. amounts = [i \in S |-> 0]
      BY <1>4, <1>7
    <2>2. DOMAIN amounts = S /\ \A i \in S : amounts[i] = 0
      BY <2>1
    <2>3. SumOver(amounts) = 0
      BY <1>3, <2>2, SumZero DEF SumOver
    <2>4. QED
      BY <1>6, <1>7, <2>2, <2>3
  <1>8. CASE ~ (t = 0 \/ SumOver(raw) = 0)
    <2>1. SumOver(raw) > 0
      BY <1>5, <1>8
    <2>2. /\ f \in [S -> Nat] /\ SumOver(f) \in Nat /\ SumOver(f) <= t
          /\ \A i, j \in S : raw[i] <= raw[j] => f[i] <= f[j]
      BY <1>2, <1>3, <2>1, ScaledFits DEF f
    <2>3. t - SumOver(f) \in Nat
      BY <1>2, <2>2
    <2>4. CASE n = 0
      <3>1. S = {} /\ holders = <<>>
        BY <2>4 DEF HoldersInv
      <3>2. QED
        BY <1>6, <3>1
    <2>5. CASE n # 0
      <3>1. n \in Nat \ {0}
        BY <1>1, <2>5
      <3>2. amounts = WithResidue(holders, raw, f, t - SumOver(f))
        BY <1>4, <1>8
      <3>3. /\ SumOver(amounts) = SumOver(f) + (t - SumOver(f))
            /\ \A i, j \in S : raw[i] < raw[j] => amounts[i] <= amounts[j]
        <4> DEFINE res == t - SumOver(f)
        <4>1. res \in Nat /\ amounts = WithResidue(holders, raw, f, res)
          BY <2>3, <3>2
        <4> HIDE DEF res, n
        <4>2. OwnedInOrder(holders, 1..n)
          BY <1>1 DEF OwnedInOrder
        <4>3. KeepsOrder(raw, f, 1..n)
          BY <2>2 DEF KeepsOrder
        <4>4. /\ SumOver(amounts) = SumOver(f) + res
              /\ FollowsOrder(raw, amounts, 1..n)
          BY <1>2, <2>2, <3>1, <4>1, <4>2, <4>3, ResidueHandedOut
        <4>5. QED
          BY <4>4 DEF res, FollowsOrder
      <3>4. SumOver(f) + (t - SumOver(f)) = t
        BY <1>2, <2>2
      <3>5. QED
        BY <1>6, <3>3, <3>4
    <2>6. QED
      BY <2>4, <2>5
  <1>9. QED
    BY <1>7, <1>8

LEMMA HoldersInvHolds == HoldersSpec => []HoldersInv
  <1>1. HoldersInit => HoldersInv
    BY HolderAssumption DEF HoldersInit, HoldersInv
  <1>2. HoldersInv /\ [AddHolder]_holderVars => HoldersInv'
    <2>1. SUFFICES ASSUME HoldersInv, AddHolder \/ UNCHANGED holderVars PROVE HoldersInv'
      OBVIOUS
    <2>2. CASE UNCHANGED holderVars
      BY <2>1, <2>2 DEF holderVars, HoldersInv
    <2>3. CASE AddHolder
      <3>1. policy' = policy
        BY <2>3 DEF AddHolder
      <3>2. PICK h \in Holdings : holders' = Append(holders,
                [owner |-> Len(holders) + 1, nfts |-> h.nfts, tokens |-> h.tokens])
        BY <2>3 DEF AddHolder
      <3>3. h \in [nfts : Nat, tokens : Nat]
        BY HolderAssumption
      <3> DEFINE e == [owner |-> Len(holders) + 1, nfts |-> h.nfts, tokens |-> h.tokens]
                 H == [owner : Nat, nfts : Nat, tokens : Nat]
      <3>4. holders \in Seq(H) /\ Len(holders) \in Nat
        BY <2>1 DEF HoldersInv
      <3>5. e \in H /\ e.owner = Len(holders) + 1
        BY <3>3, <3>4
      <3> HIDE DEF e, H
      <3>6. /\ Append(holders, e) \in Seq(H)
            /\ DOMAIN Append(holders, e) = 1..Len(holders) + 1
            /\ \A i \in 1..Len(holders) : Append(holders, e)[i] = holders[i]
            /\ Append(holders, e)[Len(holders) + 1] = e
        BY <3>4, <3>5
      <3>7. \A i \in 1..Len(holders) : holders[i].owner = i
        BY <2>1 DEF HoldersInv
      <3>8. \A i \in 1..Len(holders) + 1 : i \in 1..Len(holders) \/ i = Len(holders) + 1
        BY <3>4
      <3>9. \A i \in DOMAIN Append(holders, e) : Append(holders, e)[i].owner = i
        BY <3>5, <3>6, <3>7, <3>8
      <3>10. holders' = Append(holders, e)
        BY <3>2 DEF e
      <3>11. QED
        BY <2>1, <3>1, <3>6, <3>9, <3>10 DEF HoldersInv, H
    <2>4. QED
      BY <2>1, <2>2, <2>3
  <1>3. QED
    BY <1>1, <1>2, PTL DEF HoldersSpec

\* compute_allocations hands out the whole total and keeps the order of the
\* raw shares, for every policy and every list of holders.
THEOREM AllocationsAreWhole == HoldersSpec => []AllocationsAddUp
  <1>1. HoldersInv => AllocationsAddUp
    BY AllocationsHold
  <1>2. QED
    BY <1>1, HoldersInvHolds, PTL

-----------------------------------------------------------------------------
(* The tree: its widths, its height and its layers.                        *)

Narrows(w, n) == w = [d \in 0..n |-> IF d = 0 THEN n ELSE (w[d - 1] + 1) \div 2]

\* The widths halve, rounded up, until there is one hash.
LEMMA WidthsHalve ==
    ASSUME NEW n \in Nat \ {0}
    PROVE  /\ Widths(n)[0] = n
           /\ \A d \in 0..n : Widths(n)[d] \in Nat \ {0}
           /\ \A d \in 1..n : Widths(n)[d] = (Widths(n)[d - 1] + 1) \div 2
           /\ Widths(n)[n] = 1
  <1> DEFINE w == Widths(n)
  <1>1. Narrows(w, n)
    <2> DEFINE half == [x \in Nat |-> (x + 1) \div 2]
               step == [d \in 1..n |-> half]
    <2>1. half \in [Nat -> Nat]
      <3>1. \A x \in Nat : (x + 1) \div 2 \in Nat
        OBVIOUS
      <3>2. QED
        BY <3>1
    <2>2. step \in [1..n -> [Nat -> Nat]]
      BY <2>1
    <2>3. \E f \in [0..n -> Nat] : StepsFrom(f, n, n, step)
      <3> HIDE DEF step
      <3>1. QED
        BY <2>2, TableOfSteps
    <2>4. PICK f \in [0..n -> Nat] : StepsFrom(f, n, n, step)
      BY <2>3
    <2>5. Narrows(f, n)
      <3>1. \A d \in 0..n : d # 0 => d - 1 \in 0..n /\ d \in 1..n
        OBVIOUS
      <3>2. \A d \in 0..n : d # 0 => step[d][f[d - 1]] = (f[d - 1] + 1) \div 2
        BY <3>1
      <3>3. f = [d \in 0..n |-> IF d = 0 THEN n ELSE step[d][f[d - 1]]]
        BY <2>4 DEF StepsFrom
      <3> HIDE DEF step
      <3>4. QED
        BY <3>2, <3>3 DEF Narrows
    <2>6. w = CHOOSE g : Narrows(g, n)
      BY DEF Widths, Narrows
    <2>7. QED
      BY <2>5, <2>6
  <1> HIDE DEF w
  <1>2. w[0] = n
    BY <1>1 DEF Narrows
  <1>3. \A d \in 1..n : w[d] = (w[d - 1] + 1) \div 2
    BY <1>1 DEF Narrows
  <1> DEFINE A == {d \in 0..n : w[d] \in Nat \ {0} /\ (w[d] = 1 \/ w[d] <= n - d)}
  <1>4. 0 \in A
    BY <1>2
  <1>5. ASSUME NEW d \in 0..(n - 1), d \in A PROVE d + 1 \in A
    <2>1. d \in Nat /\ d + 1 \in 1..n /\ (d + 1) - 1 = d
      OBVIOUS
    <2>2. w[d + 1] = (w[d] + 1) \div 2
      BY <1>3, <2>1
    <2>3. PICK x \in Nat \ {0} : x = w[d] /\ (x = 1 \/ x <= n - d)
      BY <1>5
    <2>4. (x + 1) \div 2 \in Nat \ {0} /\ ((x + 1) \div 2 = 1 \/ (x + 1) \div 2 <= n - (d + 1))
      BY <2>1, <2>3
    <2>5. QED
      BY <2>1, <2>2, <2>3, <2>4
  <1>6. 0..n \subseteq A
    <2> HIDE DEF A
    <2>1. QED
      BY <1>4, <1>5, CountUp
  <1>7. \A d \in 0..n : w[d] \in Nat \ {0}
    BY <1>6
  <1>8. w[n] = 1
    <2>1. n \in A
      BY <1>6
    <2>2. PICK x \in Nat \ {0} : x = w[n] /\ (x = 1 \/ x <= n - n)
      BY <2>1
    <2>3. QED
      BY <2>2
  <1>9. QED
    BY <1>2, <1>3, <1>7, <1>8 DEF w

\* The top layer is the first with one hash.
LEMMA HeightIs ==
    ASSUME NEW n \in Nat \ {0}
    PROVE  Height(n) \in 0..n /\ Widths(n)[Height(n)] = 1
  <1> DEFINE w == Widths(n)
             Top(d) == w[d] <= 1 /\ \A e \in 0..d - 1 : w[e] > 1
             A == {d \in 0..n : \A e \in 0..d : w[e] > 1}
  <1>1. (\A d \in 0..n : w[d] \in Nat \ {0}) /\ w[n] = 1
    BY WidthsHalve
  <1> HIDE DEF w
  <1>2. \E d \in 0..n : Top(d)
    <2>1. SUFFICES ASSUME \A d \in 0..n : ~ Top(d) PROVE FALSE
      OBVIOUS
    <2>2. 0 \in A
      <3>1. ~ (w[0] <= 1)
        BY <2>1
      <3>2. w[0] \in Nat
        BY <1>1
      <3>3. w[0] > 1
        BY <3>1, <3>2
      <3>4. QED
        BY <3>3
    <2>3. ASSUME NEW d \in 0..(n - 1), d \in A PROVE d + 1 \in A
      <3>1. d + 1 \in 0..n /\ (d + 1) - 1 = d /\ \A e \in 0..(d + 1) : e \in 0..d \/ e = d + 1
        OBVIOUS
      <3>2. \A e \in 0..d : w[e] > 1
        BY <2>3
      <3>3. ~ (w[d + 1] <= 1)
        BY <2>1, <3>1, <3>2
      <3>4. w[d + 1] \in Nat
        BY <1>1, <3>1
      <3>5. w[d + 1] > 1
        BY <3>3, <3>4
      <3>6. QED
        BY <3>1, <3>2, <3>5
    <2>4. 0..n \subseteq A
      <3> HIDE DEF A, Top
      <3>1. QED
        BY <2>2, <2>3, CountUp
    <2>5. w[n] > 1
      BY <2>4
    <2>6. QED
      BY <1>1, <2>5
  <1>3. Height(n) = CHOOSE d \in 0..n : Top(d)
    BY DEF Height, w
  <1>4. Height(n) \in 0..n /\ w[Height(n)] <= 1
    BY <1>2, <1>3
  <1>5. w[Height(n)] \in Nat \ {0}
    BY <1>1, <1>4
  <1>6. w[Height(n)] = 1
    BY <1>4, <1>5
  <1>7. QED
    BY <1>4, <1>6 DEF w

\* A list of leaves that can be put under a root.
IsLeaves(leaves) ==
    /\ Len(leaves) \in Nat \ {0}
    /\ leaves = [i \in 1..Len(leaves) |-> leaves[i]]
    /\ \A i \in 1..Len(leaves) : leaves[i].pubkey \in Nat
    /\ \A i, j \in 1..Len(leaves) : leaves[i].pubkey = leaves[j].pubkey => i = j

FirstLayer(leaves) == [i \in 1..Len(leaves) |-> LeafHash(SortLeaves(leaves)[i])]

\* f is the layers from the leaves up to h.
AreLayers(f, leaves, h) ==
    f = [d \in 0..h |-> IF d = 0 THEN FirstLayer(leaves) ELSE NextLayer(f[d - 1])]

LEMMA LayersExist ==
    ASSUME NEW leaves, NEW h \in Nat
    PROVE  \E f : AreLayers(f, leaves, h)
  <1> DEFINE A == {m \in 0..h : \E f : AreLayers(f, leaves, m)}
  <1>1. 0 \in A
    <2> DEFINE f == [d \in 0..0 |-> FirstLayer(leaves)]
    <2>1. f = [d \in 0..0 |-> IF d = 0 THEN FirstLayer(leaves) ELSE NextLayer(f[d - 1])]
      OBVIOUS
    <2>2. AreLayers(f, leaves, 0)
      BY <2>1 DEF AreLayers
    <2> HIDE DEF f
    <2>3. QED
      BY <2>2
  <1>2. ASSUME NEW m \in 0..(h - 1), m \in A PROVE m + 1 \in A
    <2>1. PICK f : AreLayers(f, leaves, m)
      BY <1>2
    <2> DEFINE g == [d \in 0..(m + 1) |-> IF d \in 0..m THEN f[d] ELSE NextLayer(f[m])]
               val(d) == IF d = 0 THEN FirstLayer(leaves) ELSE NextLayer(g[d - 1])
    <2>2. \A d \in 0..(m + 1) : g[d] = val(d)
      <3>1. SUFFICES ASSUME NEW d \in 0..(m + 1) PROVE g[d] = val(d)
        OBVIOUS
      <3>2. CASE d = m + 1
        <4>1. d # 0 /\ d - 1 = m /\ m \in 0..m /\ m \in 0..(m + 1) /\ d \notin 0..m
          BY <3>2
        <4>2. g[d] = NextLayer(f[m]) /\ g[m] = f[m]
          BY <4>1
        <4>3. QED
          BY <4>1, <4>2
      <3>3. CASE d \in 0..m
        <4>1. f[d] = IF d = 0 THEN FirstLayer(leaves) ELSE NextLayer(f[d - 1])
          BY <2>1, <3>3 DEF AreLayers
        <4>2. d # 0 => d - 1 \in 0..m /\ d - 1 \in 0..(m + 1)
          BY <3>3
        <4>3. g[d] = f[d] /\ (d # 0 => g[d - 1] = f[d - 1])
          BY <3>3, <4>2
        <4>4. QED
          BY <4>1, <4>3
      <3>4. QED
        BY <3>2, <3>3
    <2>3. g = [d \in 0..(m + 1) |-> val(d)]
      BY <2>2
    <2>4. AreLayers(g, leaves, m + 1)
      BY <2>3 DEF AreLayers
    <2>5. m + 1 \in 0..h
      OBVIOUS
    <2> HIDE DEF g
    <2>6. QED
      BY <2>4, <2>5
  <1> HIDE DEF A
  <1>3. 0..h \subseteq A
    BY <1>1, <1>2, CountUp
  <1>4. QED
    BY <1>3 DEF A

\* Each layer is made from the one below, with half its hashes.
LEMMA LayersAre ==
    ASSUME NEW leaves, IsLeaves(leaves)
    PROVE  LET F == Layers(leaves)
               n == Len(leaves)
               h == Height(n)
           IN  /\ h \in Nat /\ h <= n
               /\ F[0] = FirstLayer(leaves)
               /\ \A d \in 1..h : F[d] = NextLayer(F[d - 1])
               /\ \A d \in 0..h : Len(F[d]) = Widths(n)[d] /\ F[d] = [i \in 1..Len(F[d]) |-> F[d][i]]
  <1> DEFINE F == Layers(leaves)
             n == Len(leaves)
             h == Height(n)
             w == Widths(n)
  <1>1. n \in Nat \ {0}
    BY DEF IsLeaves
  <1>2. h \in 0..n /\ h \in Nat
    <2> HIDE DEF n
    <2>1. Height(n) \in 0..n
      BY <1>1, HeightIs
    <2>2. QED
      BY <1>1, <2>1
  <1>3. AreLayers(F, leaves, h)
    <2>1. \E f : AreLayers(f, leaves, h)
      BY <1>2, LayersExist
    <2>2. F = CHOOSE f : AreLayers(f, leaves, h)
      BY DEF Layers, AreLayers, FirstLayer
    <2> HIDE DEF F, h
    <2>3. QED
      BY <2>1, <2>2
  <1> HIDE DEF F, h, n, w
  <1>4. /\ F[0] = FirstLayer(leaves)
        /\ \A d \in 1..h : F[d] = NextLayer(F[d - 1])
    <2>1. 0 \in 0..h /\ \A d \in 1..h : d \in 0..h /\ d # 0
      BY <1>2
    <2>2. QED
      BY <1>3, <2>1 DEF AreLayers
  <1>5. /\ w[0] = n
        /\ \A d \in 0..n : w[d] \in Nat \ {0}
        /\ \A d \in 1..n : w[d] = (w[d - 1] + 1) \div 2
    BY <1>1, WidthsHalve DEF w
  <1> DEFINE Is(s, k) == Len(s) = k /\ s = [i \in 1..k |-> s[i]]
             A == {d \in 0..h : Is(F[d], w[d])}
  <1>6. 0 \in A
    <2>1. F[0] = [i \in 1..n |-> F[0][i]]
      BY <1>4 DEF FirstLayer, n
    <2>2. Len(F[0]) = n
      BY <1>1, <2>1, LengthOf
    <2>3. w[0] = n /\ 0 \in 0..h
      BY <1>2, <1>5
    <2>4. Is(F[0], n)
      BY <2>1, <2>2
    <2> HIDE DEF Is
    <2>5. QED
      BY <2>3, <2>4
  <1>7. ASSUME NEW d \in 0..(h - 1), d \in A PROVE d + 1 \in A
    <2>1. /\ d + 1 \in 1..h /\ (d + 1) - 1 = d /\ d + 1 \in 0..h
          /\ d + 1 \in 1..n /\ d \in 0..n /\ d + 1 \in 0..n
      BY <1>1, <1>2
    <2>2. F[d + 1] = NextLayer(F[d])
      BY <1>4, <2>1
    <2>3. Len(F[d]) = w[d]
      BY <1>7
    <2>4. w[d + 1] = (w[d] + 1) \div 2 /\ w[d + 1] \in Nat
      BY <1>5, <2>1
    <2>5. F[d + 1] = [i \in 1..w[d + 1] |-> F[d + 1][i]]
      BY <2>2, <2>3, <2>4 DEF NextLayer
    <2>6. Len(F[d + 1]) = w[d + 1]
      BY <2>4, <2>5, LengthOf
    <2>7. Is(F[d + 1], w[d + 1])
      BY <2>5, <2>6
    <2> HIDE DEF Is
    <2>8. QED
      BY <2>1, <2>7
  <1>8. 0..h \subseteq A
    <2> HIDE DEF A
    <2>1. QED
      BY <1>2, <1>6, <1>7, CountUp
  <1>9. \A d \in 0..h : Len(F[d]) = w[d] /\ F[d] = [i \in 1..Len(F[d]) |-> F[d][i]]
    BY <1>8
  <1>10. h <= n
    BY <1>1, <1>2
  <1>11. QED
    BY <1>2, <1>4, <1>9, <1>10 DEF F, h, n, w

-----------------------------------------------------------------------------
(* The place of a hash above the one below it.                             *)

Halving(f, x, n) == f = [e \in 0..n |-> IF e = 0 THEN x ELSE f[e - 1] \div 2]

LEMMA HalvingExists ==
    ASSUME NEW x \in Nat, NEW n \in Nat
    PROVE  \E f \in [0..n -> Nat] : Halving(f, x, n)
  <1> DEFINE half == [y \in Nat |-> y \div 2]
             step == [d \in 1..n |-> half]
  <1>1. half \in [Nat -> Nat]
    <2>1. \A y \in Nat : y \div 2 \in Nat
      OBVIOUS
    <2>2. QED
      BY <2>1
  <1>2. step \in [1..n -> [Nat -> Nat]]
    BY <1>1
  <1>3. \E f \in [0..n -> Nat] : StepsFrom(f, n, x, step)
    <2> HIDE DEF step
    <2>1. QED
      BY <1>2, TableOfSteps
  <1>4. PICK f \in [0..n -> Nat] : StepsFrom(f, n, x, step)
    BY <1>3
  <1>5. f = [d \in 0..n |-> IF d = 0 THEN x ELSE step[d][f[d - 1]]]
    BY <1>4 DEF StepsFrom
  <1>6. \A d \in 0..n : d # 0 => step[d][f[d - 1]] = f[d - 1] \div 2
    <2>1. \A d \in 0..n : d # 0 => d - 1 \in 0..n /\ d \in 1..n
      OBVIOUS
    <2>2. QED
      BY <2>1
  <1> HIDE DEF step
  <1>7. Halving(f, x, n)
    BY <1>5, <1>6 DEF Halving
  <1>8. QED
    BY <1>7

\* The first half of a halving is the shorter one.
LEMMA HalvingsAgree ==
    ASSUME NEW x \in Nat, NEW n \in Nat, NEW f, Halving(f, x, n), NEW g, Halving(g, x, n + 1)
    PROVE  g[n] = f[n]
  <1> DEFINE A == {e \in 0..n : g[e] = f[e]}
  <1>1. 0 \in A
    BY DEF Halving
  <1>2. ASSUME NEW e \in 0..(n - 1), e \in A PROVE e + 1 \in A
    <2>1. e + 1 \in 0..n /\ e + 1 \in 0..(n + 1) /\ e + 1 # 0 /\ (e + 1) - 1 = e
      OBVIOUS
    <2>2. f[e + 1] = f[e] \div 2 /\ g[e + 1] = g[e] \div 2
      BY <2>1 DEF Halving
    <2>3. g[e] = f[e]
      BY <1>2
    <2>4. QED
      BY <2>1, <2>2, <2>3
  <1>3. 0..n \subseteq A
    <2> HIDE DEF A
    <2>1. QED
      BY <1>1, <1>2, CountUp
  <1>4. QED
    BY <1>3

\* One level up, the place is halved.
LEMMA AncestorAbove ==
    ASSUME NEW x \in Nat
    PROVE  /\ AncestorIndex(x, 0) = x
           /\ \A d \in Nat : AncestorIndex(x, d) \in Nat
           /\ \A d \in Nat : AncestorIndex(x, d + 1) = AncestorIndex(x, d) \div 2
  <1> DEFINE idx(d) == CHOOSE f : Halving(f, x, d)
  <1>1. ASSUME NEW d \in Nat PROVE Halving(idx(d), x, d) /\ AncestorIndex(x, d) = idx(d)[d]
    <2>1. \E f : Halving(f, x, d)
      BY HalvingExists
    <2>2. Halving(idx(d), x, d)
      BY <2>1
    <2>3. AncestorIndex(x, d) = idx(d)[d]
      BY DEF AncestorIndex, Halving
    <2>4. QED
      BY <2>2, <2>3
  <1> HIDE DEF idx
  <1>2. AncestorIndex(x, 0) = x
    <2>1. Halving(idx(0), x, 0) /\ AncestorIndex(x, 0) = idx(0)[0]
      BY <1>1
    <2>2. QED
      BY <2>1 DEF Halving
  <1>3. ASSUME NEW d \in Nat PROVE AncestorIndex(x, d + 1) = AncestorIndex(x, d) \div 2
    <2>1. d + 1 \in Nat /\ d + 1 \in 0..(d + 1) /\ d + 1 # 0 /\ (d + 1) - 1 = d
      OBVIOUS
    <2>2. /\ Halving(idx(d), x, d) /\ AncestorIndex(x, d) = idx(d)[d]
          /\ Halving(idx(d + 1), x, d + 1) /\ AncestorIndex(x, d + 1) = idx(d + 1)[d + 1]
      BY <1>1, <2>1
    <2>3. idx(d + 1)[d] = idx(d)[d]
      BY <2>2, HalvingsAgree
    <2>4. idx(d + 1)[d + 1] = idx(d + 1)[d] \div 2
      BY <2>1, <2>2 DEF Halving
    <2>5. QED
      BY <2>2, <2>3, <2>4
  <1>4. ASSUME NEW d \in Nat PROVE AncestorIndex(x, d) \in Nat
    <2> DEFINE A == {e \in 0..d : AncestorIndex(x, e) \in Nat}
    <2>1. 0 \in A
      BY <1>2
    <2>2. ASSUME NEW e \in 0..(d - 1), e \in A PROVE e + 1 \in A
      <3>1. e \in Nat /\ e + 1 \in 0..d /\ AncestorIndex(x, e) \in Nat
        BY <2>2
      <3>2. AncestorIndex(x, e + 1) = AncestorIndex(x, e) \div 2
        BY <1>3, <3>1
      <3>3. AncestorIndex(x, e) \div 2 \in Nat
        BY <3>1, QuotientBounds
      <3>4. QED
        BY <3>1, <3>2, <3>3
    <2> HIDE DEF A
    <2>3. 0..d \subseteq A
      BY <2>1, <2>2, CountUp
    <2>4. QED
      BY <2>3 DEF A
  <1>5. QED
    BY <1>2, <1>3, <1>4

\* The ancestors of a place are those of the place above it.
LEMMA AncestorShift ==
    ASSUME NEW x \in Nat, NEW n \in Nat
    PROVE  AncestorIndex(x, n + 1) = AncestorIndex(x \div 2, n)
  <1> DEFINE A == {e \in 0..n : AncestorIndex(x, e + 1) = AncestorIndex(x \div 2, e)}
  <1>0. x \div 2 \in Nat
    BY QuotientBounds
  <1>1. 0 \in A
    <2>1. AncestorIndex(x \div 2, 0) = x \div 2
      BY <1>0, AncestorAbove
    <2>2. AncestorIndex(x, 0 + 1) = AncestorIndex(x, 0) \div 2 /\ AncestorIndex(x, 0) = x
      BY AncestorAbove
    <2>3. QED
      BY <2>1, <2>2
  <1>2. ASSUME NEW e \in 0..(n - 1), e \in A PROVE e + 1 \in A
    <2>1. e \in Nat /\ e + 1 \in Nat /\ e + 1 \in 0..n
      OBVIOUS
    <2>2. AncestorIndex(x, (e + 1) + 1) = AncestorIndex(x, e + 1) \div 2
      BY <2>1, AncestorAbove
    <2>3. AncestorIndex(x \div 2, e + 1) = AncestorIndex(x \div 2, e) \div 2
      BY <1>0, <2>1, AncestorAbove
    <2>4. AncestorIndex(x, e + 1) = AncestorIndex(x \div 2, e)
      BY <1>2
    <2>5. QED
      BY <2>1, <2>2, <2>3, <2>4
  <1>3. 0..n \subseteq A
    <2> HIDE DEF A
    <2>1. QED
      BY <1>1, <1>2, CountUp
  <1>4. QED
    BY <1>3

-----------------------------------------------------------------------------
(* The walk up from a leaf.                                                *)

\* r is the running hashes of a proof.
AreRunning(r, p, n) ==
    r = [i \in 0..n |->
            IF i = 0 THEN LeafHash(p)
            ELSE IF BitIsSet(p.proofFlags, i - 1)
                 THEN NodeHash(r[i - 1], p.proof[i])
                 ELSE NodeHash(p.proof[i], r[i - 1])]

LEMMA RunningExists ==
    ASSUME NEW p, NEW n \in Nat
    PROVE  \E r : AreRunning(r, p, n)
  <1> DEFINE next(i, x) == IF BitIsSet(p.proofFlags, i - 1)
                           THEN NodeHash(x, p.proof[i]) ELSE NodeHash(p.proof[i], x)
             A == {m \in 0..n : \E r : AreRunning(r, p, m)}
  <1>0. \A r, m : AreRunning(r, p, m) <=>
            r = [i \in 0..m |-> IF i = 0 THEN LeafHash(p) ELSE next(i, r[i - 1])]
    BY DEF AreRunning
  <1> HIDE DEF next
  <1>1. 0 \in A
    <2> DEFINE r == [i \in 0..0 |-> LeafHash(p)]
    <2>1. r = [i \in 0..0 |-> IF i = 0 THEN LeafHash(p) ELSE next(i, r[i - 1])]
      OBVIOUS
    <2>2. AreRunning(r, p, 0)
      BY <1>0, <2>1
    <2> HIDE DEF r
    <2>3. QED
      BY <2>2
  <1>2. ASSUME NEW m \in 0..(n - 1), m \in A PROVE m + 1 \in A
    <2>1. PICK f : AreRunning(f, p, m)
      BY <1>2
    <2> DEFINE g == [d \in 0..(m + 1) |-> IF d \in 0..m THEN f[d] ELSE next(m + 1, f[m])]
               val(d) == IF d = 0 THEN LeafHash(p) ELSE next(d, g[d - 1])
    <2>2. \A d \in 0..(m + 1) : g[d] = val(d)
      <3>1. SUFFICES ASSUME NEW d \in 0..(m + 1) PROVE g[d] = val(d)
        OBVIOUS
      <3>2. CASE d = m + 1
        <4>1. d # 0 /\ d - 1 = m /\ m \in 0..m /\ m \in 0..(m + 1) /\ d \notin 0..m
          BY <3>2
        <4>2. g[d] = next(m + 1, f[m]) /\ g[m] = f[m]
          BY <4>1
        <4>3. QED
          BY <3>2, <4>1, <4>2
      <3>3. CASE d \in 0..m
        <4>1. f[d] = IF d = 0 THEN LeafHash(p) ELSE next(d, f[d - 1])
          BY <1>0, <2>1, <3>3
        <4>2. d # 0 => d - 1 \in 0..m /\ d - 1 \in 0..(m + 1)
          BY <3>3
        <4>3. g[d] = f[d] /\ (d # 0 => g[d - 1] = f[d - 1])
          BY <3>3, <4>2
        <4>4. QED
          BY <4>1, <4>3
      <3>4. QED
        BY <3>2, <3>3
    <2>3. g = [d \in 0..(m + 1) |-> val(d)]
      BY <2>2
    <2>4. AreRunning(g, p, m + 1)
      BY <1>0, <2>3
    <2>5. m + 1 \in 0..n
      OBVIOUS
    <2> HIDE DEF g
    <2>6. QED
      BY <2>4, <2>5
  <1> HIDE DEF A
  <1>3. 0..n \subseteq A
    BY <1>1, <1>2, CountUp
  <1>4. QED
    BY <1>3 DEF A

\* The recomputed root is the last running hash.
LEMMA RootIsLast ==
    ASSUME NEW p, Len(p.proof) \in Nat
    PROVE  \E r : /\ RecomputeRoot(p) = r[Len(p.proof)]
                  /\ r[0] = LeafHash(p)
                  /\ \A i \in 1..Len(p.proof) :
                        r[i] = IF BitIsSet(p.proofFlags, i - 1)
                               THEN NodeHash(r[i - 1], p.proof[i])
                               ELSE NodeHash(p.proof[i], r[i - 1])
  <1> DEFINE n == Len(p.proof)
             r == CHOOSE x : AreRunning(x, p, n)
  <1>1. n \in Nat
    OBVIOUS
  <1>2. RecomputeRoot(p) = r[n]
    BY DEF RecomputeRoot, AreRunning
  <1>3. AreRunning(r, p, n)
    <2>1. \E x : AreRunning(x, p, n)
      <3> HIDE DEF n
      <3>1. QED
        BY <1>1, RunningExists
    <2> HIDE DEF n
    <2>2. QED
      BY <2>1
  <1> HIDE DEF r, n
  <1>4. r[0] = LeafHash(p)
    BY <1>1, <1>3 DEF AreRunning
  <1>5. ASSUME NEW i \in 1..n
        PROVE  r[i] = IF BitIsSet(p.proofFlags, i - 1)
                      THEN NodeHash(r[i - 1], p.proof[i]) ELSE NodeHash(p.proof[i], r[i - 1])
    <2>1. i \in 0..n /\ i # 0
      BY <1>1
    <2>2. QED
      BY <1>3, <2>1 DEF AreRunning
  <1>6. QED
    BY <1>2, <1>4, <1>5 DEF n

-----------------------------------------------------------------------------
(* The sorted leaves.                                                      *)

LEMMA Sorted ==
    ASSUME NEW leaves, IsLeaves(leaves)
    PROVE  LET n == Len(leaves)
               s == SortLeaves(leaves)
           IN  /\ s = [k \in 1..n |-> s[k]]
               /\ \A k \in 1..n : \E j \in 1..n : s[k] = leaves[j] /\ SmallerLeaves(leaves, j) = k - 1
               /\ \A j \in 1..n : \E k \in 1..n : s[k] = leaves[j]
               /\ \A k, l \in 1..n : s[k].pubkey = s[l].pubkey => k = l
               /\ \A i, j \in 1..n : SmallerLeaves(leaves, i) = SmallerLeaves(leaves, j) => i = j
  <1> DEFINE n == Len(leaves)
             S == 1..n
             s == SortLeaves(leaves)
             key(j) == leaves[j].pubkey
             b == [j \in S |-> {i \in S : key(i) < key(j)}]
  <1>1. /\ n \in Nat \ {0} /\ DOMAIN leaves = S
        /\ \A i \in S : key(i) \in Nat
        /\ \A i, j \in S : key(i) = key(j) => i = j
    BY DEF IsLeaves
  <1>2. \A j \in S : SmallerLeaves(leaves, j) = Cardinality(b[j])
    BY <1>1 DEF SmallerLeaves
  <1>3. IsFiniteSet(S) /\ Cardinality(S) = n
    <2> HIDE DEF n
    <2>1. IsFiniteSet(1..n) /\ Cardinality(1..n) = IF 1 > n THEN 0 ELSE n - 1 + 1
      BY <1>1, FS_Interval
    <2>2. QED
      BY <1>1, <2>1
  <1>4. s = [k \in S |-> leaves[CHOOSE j \in S : SmallerLeaves(leaves, j) = k - 1]]
    BY <1>1 DEF SortLeaves
  <1>5. /\ b \in [S -> SUBSET S]
        /\ \A i, j \in S : i \in b[j] <=> key(i) < key(j)
    OBVIOUS
  <1> HIDE DEF n, S, s, key, b
  <1>6. OrdersBy(b, S)
    <2>1. ASSUME NEW x \in S PROVE x \notin b[x] /\ \A y \in b[x] : b[y] \subseteq b[x]
      <3>1. x \notin b[x]
        BY <1>1, <1>5
      <3>2. ASSUME NEW y \in b[x], NEW z \in b[y] PROVE z \in b[x]
        <4>1. y \in S
          BY <1>5
        <4>2. z \in S
          BY <1>5, <4>1
        <4>3. key(y) < key(x) /\ key(z) < key(y)
          BY <1>5, <3>2, <4>1, <4>2
        <4>4. key(x) \in Nat /\ key(y) \in Nat /\ key(z) \in Nat
          BY <1>1, <4>1, <4>2
        <4>5. key(z) < key(x)
          BY <4>3, <4>4
        <4>6. QED
          BY <1>5, <4>2, <4>5
      <3>3. QED
        BY <3>1, <3>2
    <2>2. ASSUME NEW x \in S, NEW y \in S PROVE x = y \/ x \in b[y] \/ y \in b[x]
      <3>1. key(x) \in Nat /\ key(y) \in Nat
        BY <1>1
      <3>2. key(x) < key(y) \/ key(y) < key(x) \/ key(x) = key(y)
        BY <3>1
      <3>3. QED
        BY <1>1, <1>5, <3>2
    <2>3. QED
      BY <1>5, <2>1, <2>2 DEF OrdersBy
  <1>7. /\ \A j \in S : Cardinality(b[j]) \in 0..(n - 1)
        /\ \A k \in 0..(n - 1) : \E j \in S : Cardinality(b[j]) = k
        /\ \A i, j \in S : Cardinality(b[i]) = Cardinality(b[j]) => i = j
    <2>1. /\ \A j \in S : Cardinality(b[j]) \in 0..(Cardinality(S) - 1)
          /\ \A k \in 0..(Cardinality(S) - 1) : \E j \in S : Cardinality(b[j]) = k
          /\ \A i, j \in S : Cardinality(b[i]) = Cardinality(b[j]) => i = j
      BY <1>3, <1>6, PlacesTaken DEF HasPlaces
    <2>2. QED
      BY <1>3, <2>1
  <1> DEFINE at(k) == CHOOSE j \in S : SmallerLeaves(leaves, j) = k - 1
  <1>8. ASSUME NEW k \in S
        PROVE  at(k) \in S /\ SmallerLeaves(leaves, at(k)) = k - 1 /\ s[k] = leaves[at(k)]
    <2>1. k - 1 \in 0..(n - 1)
      BY <1>1 DEF S
    <2>2. \E j \in S : SmallerLeaves(leaves, j) = k - 1
      BY <1>2, <1>7, <2>1
    <2>3. at(k) \in S /\ SmallerLeaves(leaves, at(k)) = k - 1
      BY <2>2
    <2>4. s[k] = leaves[at(k)]
      BY <1>4
    <2>5. QED
      BY <2>3, <2>4
  <1> HIDE DEF at
  <1>9. s = [k \in S |-> s[k]]
    BY <1>4
  <1>10. \A k \in S : \E j \in S : s[k] = leaves[j] /\ SmallerLeaves(leaves, j) = k - 1
    BY <1>8
  <1>11. ASSUME NEW j \in S PROVE \E k \in S : s[k] = leaves[j]
    <2> DEFINE k == Cardinality(b[j]) + 1
    <2>1. Cardinality(b[j]) \in 0..(n - 1)
      BY <1>7
    <2>2. k \in S /\ k - 1 = Cardinality(b[j])
      BY <1>1, <2>1 DEF S
    <2>3. at(k) \in S /\ SmallerLeaves(leaves, at(k)) = k - 1 /\ s[k] = leaves[at(k)]
      BY <1>8, <2>2
    <2>4. Cardinality(b[at(k)]) = Cardinality(b[j])
      BY <1>2, <2>2, <2>3
    <2>5. at(k) = j
      BY <1>7, <2>3, <2>4
    <2>6. s[k] = leaves[j]
      BY <2>3, <2>5
    <2> HIDE DEF k
    <2>7. QED
      BY <2>2, <2>6
  <1>12. ASSUME NEW k \in S, NEW l \in S, s[k].pubkey = s[l].pubkey PROVE k = l
    <2>1. /\ at(k) \in S /\ SmallerLeaves(leaves, at(k)) = k - 1 /\ s[k] = leaves[at(k)]
          /\ at(l) \in S /\ SmallerLeaves(leaves, at(l)) = l - 1 /\ s[l] = leaves[at(l)]
      BY <1>8
    <2>2. key(at(k)) = key(at(l))
      BY <1>12, <2>1 DEF key
    <2>3. at(k) = at(l)
      BY <1>1, <2>1, <2>2
    <2>4. k - 1 = l - 1 /\ k \in Int /\ l \in Int
      BY <2>1, <2>3 DEF S
    <2>5. QED
      BY <2>4
  <1>13. \A i, j \in S : SmallerLeaves(leaves, i) = SmallerLeaves(leaves, j) => i = j
    BY <1>2, <1>7
  <1>14. QED
    BY <1>9, <1>10, <1>11, <1>12, <1>13 DEF n, S, s

\* The index of a leaf is its place among the sorted ones.
LEMMA IndexOfLeaf ==
    ASSUME NEW leaves, IsLeaves(leaves), NEW k \in 1..Len(leaves)
    PROVE  LeafIndex(leaves, SortLeaves(leaves)[k].pubkey) = k - 1
  <1> DEFINE n == Len(leaves)
             s == SortLeaves(leaves)
             p == s[k].pubkey
  <1>1. n \in Nat \ {0} /\ DOMAIN leaves = 1..n
    BY DEF IsLeaves
  <1>2. \A i, j \in 1..n : s[i].pubkey = s[j].pubkey => i = j
    BY Sorted
  <1>3. LeafIndex(leaves, p) = (CHOOSE i \in 1..n : s[i].pubkey = p) - 1
    BY <1>1 DEF LeafIndex
  <1> DEFINE c == CHOOSE i \in 1..n : s[i].pubkey = p
  <1>4. c \in 1..n /\ s[c].pubkey = p
    <2> HIDE DEF s, n
    <2>1. \E i \in 1..n : s[i].pubkey = p
      BY DEF n
    <2>2. QED
      BY <2>1
  <1>5. c = k
    <2> HIDE DEF c, s, n
    <2>1. k \in 1..n
      BY DEF n
    <2>2. QED
      BY <1>2, <1>4, <2>1
  <1>6. QED
    BY <1>3, <1>5

-----------------------------------------------------------------------------
(* Only built proofs.                                                      *)

\* The two hashes that a node was made of: whichever of them the walk came
\* from, the other is its sibling.
LEMMA Children ==
    ASSUME NEW s, NEW w \in Nat \ {0}, Len(s) = w,
           NEW a \in 1..((w + 1) \div 2), NEW x, NEW y,
           NextLayer(s)[a] = NodeHash(x, y) \/ NextLayer(s)[a] = NodeHash(y, x)
    PROVE  \E c \in 1..w : (c - 1) \div 2 = a - 1 /\ x = s[c] /\ y = Sibling(s, c - 1)
  <1> DEFINE right == IF 2 * a <= w THEN 2 * a ELSE 2 * a - 1
             left == 2 * a - 1
  <1>1. NextLayer(s)[a] = NodeHash(s[left], s[right])
    BY DEF NextLayer
  <1>2. /\ left \in 1..w /\ right \in 1..w /\ a \in Nat \ {0}
        /\ (left - 1) \div 2 = a - 1 /\ (right - 1) \div 2 = a - 1
    OBVIOUS
  <1>3. Sibling(s, left - 1) = s[right]
    <2>1. left - 1 = 2 * (a - 1) /\ (left - 1) % 2 = 0 /\ (left - 1) + 1 = left /\ (left - 1) + 2 = 2 * a
      BY <1>2
    <2>2. Sibling(s, left - 1) = IF left < w THEN s[2 * a] ELSE s[left]
      BY <2>1 DEF Sibling
    <2>3. left < w <=> 2 * a <= w
      BY <1>2
    <2>4. QED
      BY <2>2, <2>3
  <1>4. Sibling(s, right - 1) = s[left]
    <2>1. CASE 2 * a <= w
      <3>1. right - 1 = left /\ left % 2 = 1
        BY <1>2, <2>1
      <3>2. QED
        BY <3>1 DEF Sibling
    <2>2. CASE ~ (2 * a <= w)
      <3>1. right = left
        BY <2>2
      <3>2. QED
        BY <1>3, <3>1
    <2>3. QED
      BY <2>1, <2>2
  <1> HIDE DEF left, right
  <1>5. CASE NextLayer(s)[a] = NodeHash(x, y)
    <2>1. x = s[left] /\ y = s[right]
      BY <1>1, <1>5 DEF NodeHash
    <2>2. QED
      BY <1>2, <1>3, <2>1
  <1>6. CASE NextLayer(s)[a] = NodeHash(y, x)
    <2>1. y = s[left] /\ x = s[right]
      BY <1>1, <1>6 DEF NodeHash
    <2>2. QED
      BY <1>2, <1>4, <2>1
  <1>7. QED
    BY <1>5, <1>6

\* Whatever leads to the root is a leaf with its siblings.
LEMMA OnlyOneProof ==
    ASSUME NEW leaves, IsLeaves(leaves),
           NEW p, Len(p.proof) \in Nat, RecomputeRoot(p) = BuildMerkleRoot(leaves)
    PROVE  /\ Len(p.proof) = Height(Len(leaves))
           /\ \E a \in 1..Len(leaves) :
                 /\ LeafHash(p) = LeafHash(SortLeaves(leaves)[a])
                 /\ \A j \in 1..Len(p.proof) :
                       p.proof[j] = Sibling(Layers(leaves)[j - 1], AncestorIndex(a - 1, j - 1))
  <1> DEFINE N == Len(leaves)
             n == Len(p.proof)
             h == Height(N)
             F == Layers(leaves)
             w == Widths(N)
  <1>1. N \in Nat \ {0} /\ n \in Nat
    BY DEF IsLeaves
  <1>2. /\ h \in Nat /\ h <= N
        /\ F[0] = FirstLayer(leaves)
        /\ \A d \in 1..h : F[d] = NextLayer(F[d - 1])
        /\ \A d \in 0..h : Len(F[d]) = w[d]
    BY LayersAre
  <1>3. BuildMerkleRoot(leaves) = F[h][1]
    <2>1. leaves # <<>>
      BY <1>1
    <2>2. QED
      BY <2>1 DEF BuildMerkleRoot
  <1>4. PICK r : /\ RecomputeRoot(p) = r[n]
                 /\ r[0] = LeafHash(p)
                 /\ \A i \in 1..n : r[i] = IF BitIsSet(p.proofFlags, i - 1)
                                          THEN NodeHash(r[i - 1], p.proof[i])
                                          ELSE NodeHash(p.proof[i], r[i - 1])
    BY RootIsLast
  <1>5. /\ w[0] = N /\ w[h] = 1
        /\ \A d \in 0..h : w[d] \in Nat \ {0}
        /\ \A d \in 1..h : w[d] = (w[d - 1] + 1) \div 2
    <2> HIDE DEF N
    <2>1. /\ w[0] = N
          /\ \A d \in 0..N : w[d] \in Nat \ {0}
          /\ \A d \in 1..N : w[d] = (w[d - 1] + 1) \div 2
      BY <1>1, WidthsHalve
    <2>2. w[h] = 1
      BY <1>1, HeightIs
    <2> HIDE DEF w, h
    <2>3. (\A d \in 0..h : d \in 0..N) /\ (\A d \in 1..h : d \in 1..N)
      BY <1>1, <1>2
    <2>4. QED
      BY <2>1, <2>2, <2>3
  <1>6. r[n] = F[h][1]
    BY <1>3, <1>4
  <1> HIDE DEF N, n, h, F, w
  <1> DEFINE Sibs(a, k) == \A j \in 1..k :
                 p.proof[n - k + j] = Sibling(F[h - k + j - 1], AncestorIndex(a - 1, j - 1))
             At(k) == k <= h /\ \E a \in 1..w[h - k] : r[n - k] = F[h - k][a] /\ Sibs(a, k)
             A == {k \in 0..n : At(k)}
  <1>7. 0 \in A
    <2>1. 1 \in 1..w[h - 0] /\ h - 0 = h /\ n - 0 = n
      BY <1>1, <1>2, <1>5
    <2>2. Sibs(1, 0)
      OBVIOUS
    <2>3. 0 <= h /\ 0 \in 0..n
      BY <1>1, <1>2
    <2>4. r[n - 0] = F[h - 0][1]
      BY <1>6, <2>1
    <2> HIDE DEF Sibs
    <2>5. At(0)
      BY <2>1, <2>2, <2>3, <2>4
    <2> HIDE DEF At
    <2>6. QED
      BY <2>3, <2>5
  <1>8. ASSUME NEW k \in 0..(n - 1), k \in A PROVE k + 1 \in A
    <2>1. PICK a \in 1..w[h - k] : r[n - k] = F[h - k][a] /\ Sibs(a, k)
      BY <1>8
    <2>2. /\ k \in Nat /\ k <= h /\ n - k \in 1..n /\ h - k \in 0..h
          /\ n - (k + 1) = (n - k) - 1 /\ h - (k + 1) = (h - k) - 1 /\ k + 1 \in 0..n
      BY <1>1, <1>2, <1>8
    <2>3. r[n - k] = NodeHash(r[(n - k) - 1], p.proof[n - k])
            \/ r[n - k] = NodeHash(p.proof[n - k], r[(n - k) - 1])
      BY <1>4, <2>2
    <2>4. h - k # 0
      <3>1. SUFFICES ASSUME h - k = 0 PROVE FALSE
        OBVIOUS
      <3>2. r[n - k] = F[0][a] /\ a \in 1..N
        BY <1>5, <2>1, <3>1
      <3>3. F[0][a] = LeafHash(SortLeaves(leaves)[a])
        BY <1>2, <3>2 DEF FirstLayer, N
      <3>4. QED
        BY <2>3, <3>2, <3>3 DEF LeafHash, NodeHash
    <2>5. /\ h - k \in 1..h /\ (h - k) - 1 \in 0..h /\ (h - k) - 1 \in Nat /\ k + 1 <= h
      BY <1>2, <2>2, <2>4
    <2> DEFINE s == F[(h - k) - 1]
               v == w[(h - k) - 1]
               x == r[(n - k) - 1]
               y == p.proof[n - k]
    <2>6. /\ F[h - k] = NextLayer(s) /\ Len(s) = v /\ v \in Nat \ {0}
          /\ w[h - k] = (v + 1) \div 2
      BY <1>2, <1>5, <2>5
    <2>7. \E c \in 1..v : (c - 1) \div 2 = a - 1 /\ x = s[c] /\ y = Sibling(s, c - 1)
      <3>1. a \in 1..((v + 1) \div 2)
        BY <2>1, <2>6
      <3>2. NextLayer(s)[a] = NodeHash(x, y) \/ NextLayer(s)[a] = NodeHash(y, x)
        BY <2>1, <2>3, <2>6
      <3> HIDE DEF s, v, x, y
      <3>3. QED
        BY <2>6, <3>1, <3>2, Children
    <2>8. PICK c \in 1..v : (c - 1) \div 2 = a - 1 /\ x = s[c] /\ y = Sibling(s, c - 1)
      BY <2>7
    <2>9. Sibs(c, k + 1)
      <3>1. SUFFICES ASSUME NEW j \in 1..(k + 1)
                     PROVE  p.proof[n - (k + 1) + j] =
                              Sibling(F[h - (k + 1) + j - 1], AncestorIndex(c - 1, j - 1))
        OBVIOUS
      <3>2. c - 1 \in Nat
        <4>1. v \in Nat /\ c \in 1..v
          BY <2>6, <2>8
        <4> HIDE DEF v
        <4>2. QED
          BY <4>1
      <3>3. CASE j = 1
        <4>1. n - (k + 1) + j = n - k /\ h - (k + 1) + j - 1 = (h - k) - 1 /\ j - 1 = 0
          BY <1>1, <1>2, <2>2, <3>3
        <4>2. AncestorIndex(c - 1, 0) = c - 1
          BY <3>2, AncestorAbove
        <4>3. QED
          BY <2>8, <4>1, <4>2
      <3>4. CASE j # 1
        <4> DEFINE m == j - 1
        <4>1. /\ m \in 1..k /\ m - 1 \in Nat /\ m = (m - 1) + 1
              /\ n - (k + 1) + j = n - k + m /\ h - (k + 1) + j - 1 = h - k + m - 1
          BY <1>1, <1>2, <2>2, <3>4
        <4>2. AncestorIndex(c - 1, (m - 1) + 1) = AncestorIndex((c - 1) \div 2, m - 1)
          BY <3>2, <4>1, AncestorShift
        <4>3. AncestorIndex(c - 1, m) = AncestorIndex(a - 1, m - 1)
          BY <2>8, <4>1, <4>2
        <4>4. p.proof[n - k + m] = Sibling(F[h - k + m - 1], AncestorIndex(a - 1, m - 1))
          BY <2>1, <4>1
        <4> HIDE DEF m
        <4>5. p.proof[n - (k + 1) + j] = Sibling(F[h - (k + 1) + j - 1], AncestorIndex(c - 1, m))
          BY <4>1, <4>3, <4>4
        <4>6. QED
          BY <4>5 DEF m
      <3>5. QED
        BY <3>3, <3>4
    <2>10. c \in 1..w[h - (k + 1)] /\ r[n - (k + 1)] = F[h - (k + 1)][c]
      BY <2>2, <2>8
    <2> HIDE DEF Sibs
    <2>11. At(k + 1)
      BY <2>5, <2>9, <2>10
    <2> HIDE DEF At
    <2>12. QED
      BY <2>2, <2>11
  <1>9. n \in A
    <2> HIDE DEF A
    <2>1. 0..n \subseteq A
      BY <1>1, <1>7, <1>8, CountUp
    <2>2. QED
      BY <1>1, <2>1
  <1>10. PICK a \in 1..w[h - n] : r[n - n] = F[h - n][a] /\ Sibs(a, n)
    BY <1>9
  <1>11. n <= h /\ h - n \in 0..h /\ n - n = 0
    BY <1>1, <1>2, <1>9
  <1>12. h = n
    <2>1. SUFFICES ASSUME h # n PROVE FALSE
      OBVIOUS
    <2>2. h - n \in 1..h /\ (h - n) - 1 \in 0..h
      BY <1>1, <1>2, <1>11, <2>1
    <2> DEFINE s == F[(h - n) - 1]
               v == w[(h - n) - 1]
    <2>3. F[h - n] = NextLayer(s) /\ Len(s) = v /\ w[h - n] = (v + 1) \div 2
      BY <1>2, <1>5, <2>2
    <2>4. a \in 1..((Len(s) + 1) \div 2)
      BY <1>10, <2>3
    <2>5. \E x, y : F[h - n][a] = NodeHash(x, y)
      <3> HIDE DEF s, v
      <3>1. NextLayer(s)[a] = NodeHash(s[2 * a - 1], s[IF 2 * a <= Len(s) THEN 2 * a ELSE 2 * a - 1])
        BY <2>4 DEF NextLayer
      <3>2. QED
        BY <2>3, <3>1
    <2>6. r[0] = F[h - n][a]
      BY <1>10, <1>11
    <2>7. QED
      BY <1>4, <2>5, <2>6 DEF LeafHash, NodeHash
  <1>13. h - n = 0 /\ a \in 1..N
    <2>1. h - n = 0
      BY <1>1, <1>12
    <2>2. QED
      BY <1>5, <1>10, <2>1
  <1>14. LeafHash(p) = LeafHash(SortLeaves(leaves)[a])
    <2>1. r[0] = F[0][a]
      BY <1>10, <1>11, <1>13
    <2>2. F[0][a] = LeafHash(SortLeaves(leaves)[a])
      BY <1>2, <1>13 DEF FirstLayer, N
    <2>3. QED
      BY <1>4, <2>1, <2>2
  <1>15. \A j \in 1..n : p.proof[j] = Sibling(F[j - 1], AncestorIndex(a - 1, j - 1))
    <2>1. \A j \in 1..n : n - n + j = j /\ h - n + j - 1 = j - 1
      BY <1>1, <1>12
    <2>2. QED
      BY <1>10, <2>1
  <1>16. QED
    BY <1>12, <1>13, <1>14, <1>15 DEF N, n, h, F

\* The rows of a list of holders can be put under a root.
LEMMA RowsAreLeaves ==
    ASSUME HoldersInv, holders # <<>>
    PROVE  IsLeaves(rows) /\ Len(rows) = Len(holders)
  <1> DEFINE n == Len(holders)
             amounts == Allocate(holders, policy)
  <1>1. n \in Nat \ {0} /\ DOMAIN holders = 1..n /\ \A i \in 1..n : holders[i].owner = i
    BY DEF HoldersInv
  <1>2. rows = [i \in 1..n |-> [pubkey |-> holders[i].owner, lamports |-> amounts[i]]]
    BY <1>1 DEF rows, Rows
  <1> HIDE DEF n, amounts
  <1>3. rows = [i \in 1..n |-> rows[i]] /\ \A i \in 1..n : rows[i].pubkey = i
    BY <1>1, <1>2
  <1>4. Len(rows) = n
    <2>1. n \in Nat
      BY <1>1
    <2> DEFINE s == rows
    <2>2. s = [i \in 1..n |-> s[i]]
      BY <1>3
    <2> HIDE DEF s
    <2>3. Len(s) = n
      BY <2>1, <2>2, LengthOf
    <2>4. QED
      BY <2>3 DEF s
  <1>5. \A i \in 1..n : i \in Nat
    BY <1>1
  <1>6. QED
    BY <1>1, <1>3, <1>4, <1>5 DEF IsLeaves, n

LEMMA ProofsAreBuilt ==
    ASSUME HoldersInv
    PROVE  OnlyBuiltProofsVerify
  <1> DEFINE leaves == rows
             root == BuildMerkleRoot(leaves)
             hashes == Hashes(leaves)
  <1>1. SUFFICES ASSUME leaves # <<>>,
                        NEW pk, NEW amount, NEW n \in 0..MaxProof,
                        NEW proof \in [1..n -> hashes], NEW sides \in [1..n -> BOOLEAN],
                        RecomputeRoot([pubkey |-> pk, lamports |-> amount, proof |-> proof,
                                       proofFlags |-> PackBits(sides)]) = root
                 PROVE  /\ \E i \in DOMAIN leaves : leaves[i] = [pubkey |-> pk, lamports |-> amount]
                        /\ proof = BuildInclusionProof(leaves, pk).proof
    BY DEF OnlyBuiltProofsVerify
  <1> DEFINE p == [pubkey |-> pk, lamports |-> amount, proof |-> proof, proofFlags |-> PackBits(sides)]
             N == Len(leaves)
             s == SortLeaves(leaves)
  <1>2. holders # <<>>
    <2>1. SUFFICES ASSUME holders = <<>> PROVE FALSE
      OBVIOUS
    <2>2. leaves = <<>>
      BY <2>1 DEF rows, Rows
    <2>3. QED
      BY <1>1, <2>2
  <1>3. IsLeaves(leaves)
    BY <1>2, RowsAreLeaves
  <1>4. p.proof = proof /\ p.pubkey = pk /\ p.lamports = amount
    OBVIOUS
  <1>5. n \in Nat /\ Len(proof) = n /\ proof = [j \in 1..n |-> proof[j]]
    <2>1. n \in Nat
      BY HolderAssumption
    <2>2. QED
      BY <2>1
  <1>6. RecomputeRoot(p) = BuildMerkleRoot(leaves)
    BY <1>1
  <1> HIDE DEF leaves, p, hashes
  <1>7. /\ n = Height(N)
        /\ \E a \in 1..N :
              /\ LeafHash(p) = LeafHash(s[a])
              /\ \A j \in 1..n : proof[j] = Sibling(Layers(leaves)[j - 1], AncestorIndex(a - 1, j - 1))
    <2>1. Len(p.proof) = n /\ Len(p.proof) \in Nat
      BY <1>4, <1>5
    <2>2. /\ Len(p.proof) = Height(N)
          /\ \E a \in 1..N :
                /\ LeafHash(p) = LeafHash(s[a])
                /\ \A j \in 1..Len(p.proof) :
                      p.proof[j] = Sibling(Layers(leaves)[j - 1], AncestorIndex(a - 1, j - 1))
      BY <1>3, <1>6, <2>1, OnlyOneProof
    <2>3. QED
      BY <1>4, <2>1, <2>2
  <1>8. PICK a \in 1..N :
              /\ LeafHash(p) = LeafHash(s[a])
              /\ \A j \in 1..n : proof[j] = Sibling(Layers(leaves)[j - 1], AncestorIndex(a - 1, j - 1))
    BY <1>7
  <1>9. pk = s[a].pubkey /\ amount = s[a].lamports
    BY <1>4, <1>8 DEF LeafHash
  <1>10. LeafIndex(leaves, pk) = a - 1
    BY <1>3, <1>9, IndexOfLeaf
  <1>11. proof = BuildInclusionProof(leaves, pk).proof
    BY <1>5, <1>7, <1>8, <1>10 DEF BuildInclusionProof
  <1>12. PICK i \in 1..N : s[a] = leaves[i]
    <2>1. \A k \in 1..N : \E j \in 1..N : s[k] = leaves[j] /\ SmallerLeaves(leaves, j) = k - 1
      BY <1>3, Sorted
    <2> HIDE DEF N, s
    <2>2. QED
      BY <2>1
  <1>13. i \in DOMAIN leaves /\ leaves[i] = [pubkey |-> pk, lamports |-> amount]
    <2>1. i \in DOMAIN leaves
      BY <1>3 DEF IsLeaves
    <2>2. leaves[i] = [pubkey |-> leaves[i].pubkey, lamports |-> leaves[i].lamports]
      BY <2>1 DEF leaves, rows, Rows
    <2>3. QED
      BY <1>9, <1>12, <2>1, <2>2
  <1>14. QED
    BY <1>11, <1>13

\* Whatever the holders and the policy, and however long the proof, only the
\* siblings of a leaf lead to the root that build_merkle_root computes.
THEOREM OnlyTheLeavesVerify == HoldersSpec => []OnlyBuiltProofsVerify
  <1>1. HoldersInv => OnlyBuiltProofsVerify
    BY ProofsAreBuilt
  <1>2. QED
    BY <1>1, HoldersInvHolds, PTL

-----------------------------------------------------------------------------
(* Every leaf is found, with its proof.                                    *)

\* A packed bit is read back.
LEMMA BitsReadBack ==
    ASSUME NEW n \in Nat, NEW bits \in [1..n -> BOOLEAN], NEW i \in 0..(n - 1)
    PROVE  BitIsSet(PackBits(bits), i) <=> bits[i + 1]
  <1> DEFINE j == i \div 8 + 1
             k == i % 8
  <1>1. /\ i \in Nat /\ j \in 1..((n + 7) \div 8) /\ k \in 0..7
        /\ 8 * (j - 1) + k = i /\ i < n
    OBVIOUS
  <1>2. Len(bits) = n
    OBVIOUS
  <1> HIDE DEF j, k
  <1>3. PackBits(bits)[j] = {b \in 0..7 : 8 * (j - 1) + b < n /\ bits[8 * (j - 1) + b + 1]}
    BY <1>1, <1>2 DEF PackBits
  <1>4. k \in PackBits(bits)[j] <=> bits[i + 1]
    BY <1>1, <1>3
  <1>5. QED
    BY <1>4 DEF BitIsSet, j, k

\* A hash with its sibling, on the side that the flag says, gives the hash above.
LEMMA Parent ==
    ASSUME NEW s, NEW w \in Nat \ {0}, Len(s) = w, NEW i \in 0..(w - 1)
    PROVE  /\ i \div 2 \in 0..((w + 1) \div 2 - 1)
           /\ NextLayer(s)[i \div 2 + 1] =
                 IF i % 2 = 0 THEN NodeHash(s[i + 1], Sibling(s, i))
                              ELSE NodeHash(Sibling(s, i), s[i + 1])
  <1> DEFINE a == i \div 2 + 1
  <1>1. a \in 1..((w + 1) \div 2) /\ i \div 2 = a - 1 /\ i \in Nat /\ a \in Nat /\ i < w
    OBVIOUS
  <1>2. NextLayer(s)[a] = NodeHash(s[2 * a - 1], s[IF 2 * a <= w THEN 2 * a ELSE 2 * a - 1])
    BY <1>1 DEF NextLayer
  <1>3. CASE i % 2 = 0
    <2>1. 2 * a - 1 = i + 1 /\ 2 * a = i + 2 /\ (2 * a <= w <=> i + 1 < w)
      BY <1>3
    <2>2. Sibling(s, i) = IF i + 1 < w THEN s[i + 2] ELSE s[i + 1]
      BY <1>3 DEF Sibling
    <2> HIDE DEF a
    <2>3. QED
      BY <1>1, <1>2, <1>3, <2>1, <2>2 DEF a
  <1>4. CASE i % 2 # 0
    <2>1. 2 * a - 1 = i /\ 2 * a = i + 1 /\ 2 * a <= w /\ i % 2 = 1
      BY <1>4
    <2>2. Sibling(s, i) = s[i]
      BY <2>1 DEF Sibling
    <2> HIDE DEF a
    <2>3. QED
      BY <1>1, <1>2, <1>4, <2>1, <2>2 DEF a
  <1>5. QED
    BY <1>3, <1>4

\* p is the leaf at place a of the sorted ones, with its siblings.
ProvesLeaf(p, leaves, a) ==
    LET h == Height(Len(leaves))
    IN  /\ LeafHash(p) = LeafHash(SortLeaves(leaves)[a])
        /\ Len(p.proof) = h
        /\ \A j \in 1..h :
              /\ p.proof[j] = Sibling(Layers(leaves)[j - 1], AncestorIndex(a - 1, j - 1))
              /\ BitIsSet(p.proofFlags, j - 1) <=> AncestorIndex(a - 1, j - 1) % 2 = 0

LEMMA LeafLeadsToRoot ==
    ASSUME NEW leaves, IsLeaves(leaves), NEW a \in 1..Len(leaves), NEW p, ProvesLeaf(p, leaves, a)
    PROVE  RecomputeRoot(p) = BuildMerkleRoot(leaves)
  <1> DEFINE N == Len(leaves)
             h == Height(N)
             F == Layers(leaves)
             w == Widths(N)
             up(e) == AncestorIndex(a - 1, e)
  <1>1. N \in Nat \ {0} /\ a \in 1..N
    BY DEF IsLeaves
  <1>2. /\ h \in Nat /\ h <= N
        /\ F[0] = FirstLayer(leaves)
        /\ \A d \in 1..h : F[d] = NextLayer(F[d - 1])
        /\ \A d \in 0..h : Len(F[d]) = w[d]
    BY LayersAre
  <1>3. BuildMerkleRoot(leaves) = F[h][1]
    <2>1. leaves # <<>>
      BY <1>1
    <2>2. QED
      BY <2>1 DEF BuildMerkleRoot
  <1>4. /\ LeafHash(p) = LeafHash(SortLeaves(leaves)[a])
        /\ Len(p.proof) = h
        /\ \A j \in 1..h : /\ p.proof[j] = Sibling(F[j - 1], up(j - 1))
                           /\ BitIsSet(p.proofFlags, j - 1) <=> up(j - 1) % 2 = 0
    BY DEF ProvesLeaf
  <1>5. PICK r : /\ RecomputeRoot(p) = r[h]
                 /\ r[0] = LeafHash(p)
                 /\ \A i \in 1..h : r[i] = IF BitIsSet(p.proofFlags, i - 1)
                                          THEN NodeHash(r[i - 1], p.proof[i])
                                          ELSE NodeHash(p.proof[i], r[i - 1])
    <2>1. Len(p.proof) \in Nat
      BY <1>2, <1>4
    <2>2. \E r : /\ RecomputeRoot(p) = r[Len(p.proof)]
                 /\ r[0] = LeafHash(p)
                 /\ \A i \in 1..Len(p.proof) : r[i] = IF BitIsSet(p.proofFlags, i - 1)
                                          THEN NodeHash(r[i - 1], p.proof[i])
                                          ELSE NodeHash(p.proof[i], r[i - 1])
      BY <2>1, RootIsLast
    <2>3. QED
      BY <1>4, <2>2
  <1>6. /\ w[0] = N /\ w[h] = 1
        /\ \A d \in 0..h : w[d] \in Nat \ {0}
        /\ \A d \in 1..h : w[d] = (w[d - 1] + 1) \div 2
    <2> HIDE DEF N
    <2>1. /\ w[0] = N
          /\ \A d \in 0..N : w[d] \in Nat \ {0}
          /\ \A d \in 1..N : w[d] = (w[d - 1] + 1) \div 2
      BY <1>1, WidthsHalve
    <2>2. w[h] = 1
      BY <1>1, HeightIs
    <2> HIDE DEF w, h
    <2>3. (\A d \in 0..h : d \in 0..N) /\ (\A d \in 1..h : d \in 1..N)
      BY <1>1, <1>2
    <2>4. QED
      BY <2>1, <2>2, <2>3
  <1>7. /\ up(0) = a - 1
        /\ \A e \in Nat : up(e) \in Nat /\ up(e + 1) = up(e) \div 2
    <2>1. a - 1 \in Nat
      BY <1>1
    <2>2. QED
      BY <2>1, AncestorAbove
  <1> HIDE DEF N, h, F, w, up
  <1> DEFINE At(e) == up(e) < w[e] /\ r[e] = F[e][up(e) + 1]
             A == {e \in 0..h : At(e)}
  <1>8. 0 \in A
    <2>1. 0 \in 0..h /\ a - 1 < N /\ (a - 1) + 1 = a
      BY <1>1, <1>2
    <2>2. F[0][a] = LeafHash(SortLeaves(leaves)[a])
      BY <1>1, <1>2 DEF FirstLayer, N
    <2>3. At(0)
      BY <1>4, <1>5, <1>6, <1>7, <2>1, <2>2
    <2> HIDE DEF At
    <2>4. QED
      BY <2>1, <2>3
  <1>9. ASSUME NEW e \in 0..(h - 1), e \in A PROVE e + 1 \in A
    <2>1. /\ e \in Nat /\ e + 1 \in 1..h /\ e + 1 \in 0..h /\ e \in 0..h /\ (e + 1) - 1 = e
      BY <1>2
    <2> DEFINE s == F[e]
               v == w[e]
               i == up(e)
    <2>2. /\ F[e + 1] = NextLayer(s) /\ Len(s) = v /\ v \in Nat \ {0}
          /\ w[e + 1] = (v + 1) \div 2
      BY <1>2, <1>6, <2>1
    <2>3. /\ i \in Nat /\ up(e + 1) = i \div 2 /\ i < v /\ r[e] = s[i + 1]
      BY <1>7, <1>9, <2>1
    <2>4. r[e + 1] = IF i % 2 = 0 THEN NodeHash(s[i + 1], Sibling(s, i))
                                  ELSE NodeHash(Sibling(s, i), s[i + 1])
      BY <1>4, <1>5, <2>1, <2>3
    <2> HIDE DEF s, v, i
    <2>5. i \in 0..(v - 1)
      BY <2>2, <2>3
    <2>6. /\ i \div 2 \in 0..((v + 1) \div 2 - 1)
          /\ NextLayer(s)[i \div 2 + 1] =
                 IF i % 2 = 0 THEN NodeHash(s[i + 1], Sibling(s, i))
                              ELSE NodeHash(Sibling(s, i), s[i + 1])
      BY <2>2, <2>5, Parent
    <2>7. i \div 2 < (v + 1) \div 2
      BY <2>2, <2>3
    <2>8. At(e + 1)
      BY <2>2, <2>3, <2>4, <2>6, <2>7
    <2> HIDE DEF At
    <2>9. QED
      BY <2>1, <2>8
  <1>10. h \in A
    <2> HIDE DEF A
    <2>1. 0..h \subseteq A
      BY <1>2, <1>8, <1>9, CountUp
    <2>2. QED
      BY <1>2, <2>1
  <1>11. up(h) = 0
    <2>1. up(h) < 1
      BY <1>6, <1>10
    <2>2. up(h) \in Nat
      BY <1>2, <1>7
    <2>3. QED
      BY <2>1, <2>2
  <1>12. QED
    BY <1>3, <1>5, <1>10, <1>11

\* The proof that is built for a leaf proves it.
LEMMA BuiltProofProves ==
    ASSUME NEW leaves, IsLeaves(leaves), NEW a \in 1..Len(leaves)
    PROVE  LET pk == SortLeaves(leaves)[a].pubkey
               q  == BuildInclusionProof(leaves, pk)
               h  == Height(Len(leaves))
           IN  /\ q.proof = [d \in 1..h |-> Sibling(Layers(leaves)[d - 1], AncestorIndex(a - 1, d - 1))]
               /\ Len(q.proof) = h
               /\ q.proofFlags = FlagsOfIndex(a - 1, h)
               /\ q.pubkey = pk /\ q.lamports = SortLeaves(leaves)[a].lamports
               /\ q.root = BuildMerkleRoot(leaves)
               /\ ProvesLeaf(q, leaves, a)
  <1> DEFINE pk == SortLeaves(leaves)[a].pubkey
             q  == BuildInclusionProof(leaves, pk)
             h  == Height(Len(leaves))
             sibs == [d \in 1..h |-> Sibling(Layers(leaves)[d - 1], AncestorIndex(a - 1, d - 1))]
             bits == [d \in 1..h |-> AncestorIndex(a - 1, d - 1) % 2 = 0]
  <1>1. LeafIndex(leaves, pk) = a - 1
    BY IndexOfLeaf
  <1>2. h \in Nat /\ leaves # <<>> /\ (a - 1) + 1 = a
    <2>1. h \in Nat
      BY LayersAre
    <2>2. Len(leaves) \in Nat \ {0}
      BY DEF IsLeaves
    <2>3. QED
      BY <2>1, <2>2
  <1>3. q = [pubkey |-> pk, lamports |-> SortLeaves(leaves)[a].lamports, proof |-> sibs,
             proofFlags |-> PackBits(bits), root |-> Layers(leaves)[h][1]]
    BY <1>1, <1>2 DEF BuildInclusionProof, SiblingOnRight
  <1>4. PackBits(bits) = FlagsOfIndex(a - 1, h)
    BY DEF FlagsOfIndex
  <1>5. Layers(leaves)[h][1] = BuildMerkleRoot(leaves)
    BY <1>2 DEF BuildMerkleRoot
  <1>6. bits \in [1..h -> BOOLEAN] /\ sibs = [d \in 1..h |-> sibs[d]]
    OBVIOUS
  <1>7. \A j \in 1..h : BitIsSet(PackBits(bits), j - 1) <=> AncestorIndex(a - 1, j - 1) % 2 = 0
    <2>1. SUFFICES ASSUME NEW j \in 1..h
                   PROVE  BitIsSet(PackBits(bits), j - 1) <=> AncestorIndex(a - 1, j - 1) % 2 = 0
      OBVIOUS
    <2>2. bits[j] <=> AncestorIndex(a - 1, j - 1) % 2 = 0
      OBVIOUS
    <2> HIDE DEF bits, h
    <2>3. j - 1 \in 0..(h - 1) /\ (j - 1) + 1 = j
      BY <1>2
    <2>4. BitIsSet(PackBits(bits), j - 1) <=> bits[(j - 1) + 1]
      BY <1>2, <1>6, <2>3, BitsReadBack
    <2>5. QED
      BY <2>2, <2>3, <2>4
  <1>8. Len(sibs) = h
    <2> HIDE DEF h, sibs
    <2>1. QED
      BY <1>2, <1>6, LengthOf
  <1>9. \A j \in 1..h : sibs[j] = Sibling(Layers(leaves)[j - 1], AncestorIndex(a - 1, j - 1))
    OBVIOUS
  <1> HIDE DEF bits
  <1>10. /\ q.pubkey = pk /\ q.lamports = SortLeaves(leaves)[a].lamports /\ q.proof = sibs
         /\ q.proofFlags = PackBits(bits) /\ q.root = Layers(leaves)[h][1]
    <2> HIDE DEF q, pk, sibs, h
    <2>1. QED
      BY <1>3
  <1>11. LeafHash(q) = LeafHash(SortLeaves(leaves)[a])
    <2> HIDE DEF q
    <2>1. QED
      BY <1>10 DEF LeafHash
  <1>12. ProvesLeaf(q, leaves, a)
    <2> HIDE DEF q, sibs, pk
    <2>1. QED
      BY <1>7, <1>8, <1>9, <1>10, <1>11 DEF ProvesLeaf
  <1>13. QED
    BY <1>4, <1>5, <1>8, <1>10, <1>12

\* A search finds a member if there is one.
LEMMA FoundFirst ==
    ASSUME NEW s, NEW n \in Nat, Len(s) = n, NEW pk
    PROVE  LET k == LineOf(s, pk)
           IN  IF \E i \in 1..n : s[i].pubkey = pk
               THEN k \in 1..n /\ s[k].pubkey = pk
               ELSE k = 0
  <1> DEFINE k == LineOf(s, pk)
             I == {i \in 1..n : s[i].pubkey = pk}
             least == CHOOSE i \in I : \A j \in I : i <= j
  <1>1. k = IF I # {} THEN least ELSE 0
    BY DEF LineOf, SelectInSeq, Min
  <1>2. CASE I = {}
    BY <1>1, <1>2
  <1>3. CASE I # {}
    <2>1. \E i \in I : \A j \in I : i <= j
      <3>1. SUFFICES ASSUME \A i \in I : \E j \in I : ~ (i <= j) PROVE FALSE
        OBVIOUS
      <3> DEFINE A == {m \in 0..n : \A j \in I : m < j}
      <3>2. 0 \in A
        OBVIOUS
      <3>3. ASSUME NEW m \in 0..(n - 1), m \in A PROVE m + 1 \in A
        <4>1. m + 1 \in 0..n /\ \A j \in I : m < j /\ j \in Nat
          BY <3>3
        <4>2. m + 1 \notin I
          BY <3>1, <4>1
        <4>3. \A j \in I : m + 1 < j
          BY <4>1, <4>2
        <4>4. QED
          BY <4>1, <4>3
      <3>4. 0..n \subseteq A
        <4> HIDE DEF A
        <4>1. QED
          BY <3>2, <3>3, CountUp
      <3>5. \A j \in I : n < j /\ j <= n /\ j \in Nat
        BY <3>4
      <3>6. QED
        BY <1>3, <3>5
    <2>2. least \in I
      <3> HIDE DEF I
      <3>1. QED
        BY <2>1
    <2>3. k = least
      BY <1>1, <1>3
    <2> HIDE DEF k, least
    <2>4. QED
      BY <2>2, <2>3 DEF k
  <1>4. QED
    BY <1>2, <1>3

\* GET /api/claim/<pubkey> answers with the leaf, its index and its proof.
LEMMA ClaimFinds ==
    ASSUME NEW leaves, IsLeaves(leaves), NEW a \in 1..Len(leaves)
    PROVE  LET s  == SortLeaves(leaves)
               pk == s[a].pubkey
           IN  ClaimRoute(leaves, pk) =
                 Found([pubkey |-> pk, lamports |-> s[a].lamports, leafIndex |-> a - 1,
                        proof |-> BuildInclusionProof(leaves, pk).proof])
  <1> DEFINE N == Len(leaves)
             s == SortLeaves(leaves)
             pk == s[a].pubkey
             places == {i \in 1..N : ShardId(s[i].pubkey) = ShardId(pk)}
             t == Those(s, places)
             m == Cardinality(places)
             line(l) == [pubkey    |-> l.pubkey,
                         lamports  |-> l.lamports,
                         leafIndex |-> LeafIndex(leaves, l.pubkey),
                         proof     |-> BuildInclusionProof(leaves, l.pubkey).proof]
             lines == Shard(leaves, ShardId(pk))
  <1>1. N \in Nat \ {0} /\ DOMAIN leaves = 1..N
    BY DEF IsLeaves
  <1>2. /\ \A k, l \in 1..N : s[k].pubkey = s[l].pubkey => k = l
        /\ LeafIndex(leaves, pk) = a - 1
    BY Sorted, IndexOfLeaf
  <1>3. lines = [i \in DOMAIN t |-> line(t[i])]
    BY <1>1 DEF Shard
  <1>4. a \in places /\ places \in SUBSET (1..N)
    OBVIOUS
  <1>5. ClaimRoute(leaves, pk) = IF LineOf(lines, pk) = 0 THEN NotFound
                                 ELSE Found(lines[LineOf(lines, pk)])
    BY DEF ClaimRoute
  <1>6. line(s[a]) = [pubkey |-> pk, lamports |-> s[a].lamports, leafIndex |-> a - 1,
                      proof |-> BuildInclusionProof(leaves, pk).proof]
    BY <1>2
  <1>7. \A l : line(l).pubkey = l.pubkey
    OBVIOUS
  <1>8. pk = s[a].pubkey
    OBVIOUS
  <1> HIDE DEF N, s, pk, places, t, line, lines
  <1>9. /\ m \in Nat /\ t = [k \in 1..m |-> t[k]] /\ Len(t) = m
        /\ \E at \in [1..m -> places] :
              /\ \A k \in 1..m : t[k] = s[at[k]]
              /\ \A i \in places : \E k \in 1..m : at[k] = i
    <2>1. N \in Nat
      BY <1>1
    <2>2. Lists(Those(s, places), s, places, Cardinality(places))
      BY <1>4, <2>1, ThoseAre
    <2>3. Lists(t, s, places, m)
      BY <2>2 DEF t
    <2> HIDE DEF m
    <2>4. QED
      BY <2>3 DEF Lists
  <1> HIDE DEF m
  <1>10. PICK at \in [1..m -> places] :
              /\ \A k \in 1..m : t[k] = s[at[k]]
              /\ \A i \in places : \E k \in 1..m : at[k] = i
    BY <1>9
  <1>11. lines = [k \in 1..m |-> lines[k]] /\ \A k \in 1..m : lines[k] = line(t[k])
    <2>1. DOMAIN t = 1..m
      BY <1>9
    <2>2. QED
      BY <1>3, <2>1
  <1>12. Len(lines) = m
    BY <1>9, <1>11, LengthOf
  <1>13. \E k \in 1..m : lines[k].pubkey = pk
    <2>1. PICK k \in 1..m : at[k] = a
      BY <1>4, <1>10
    <2>2. lines[k].pubkey = pk
      BY <1>7, <1>8, <1>10, <1>11, <2>1
    <2>3. QED
      BY <2>2
  <1> DEFINE f == LineOf(lines, pk)
  <1>14. f \in 1..m /\ lines[f].pubkey = pk
    <2>1. m \in Nat
      BY <1>9
    <2>2. LineOf(lines, pk) \in 1..m /\ lines[LineOf(lines, pk)].pubkey = pk
      <3> HIDE DEF f
      <3>1. QED
        BY <1>12, <1>13, <2>1, FoundFirst
    <2>3. QED
      BY <2>2
  <1> HIDE DEF f
  <1>15. at[f] = a
    <2>1. at[f] \in 1..N /\ a \in 1..N
      BY <1>4, <1>10, <1>14
    <2>2. s[at[f]].pubkey = pk
      BY <1>7, <1>10, <1>11, <1>14
    <2>3. QED
      BY <1>2, <1>8, <2>1, <2>2
  <1>16. lines[f] = line(s[a]) /\ f # 0
    <2>1. t[f] = s[a] /\ lines[f] = line(t[f])
      BY <1>10, <1>11, <1>14, <1>15
    <2>2. f # 0
      BY <1>9, <1>14
    <2>3. QED
      BY <2>1, <2>2
  <1>17. ClaimRoute(leaves, pk) = Found(line(s[a]))
    BY <1>5, <1>16 DEF f
  <1>18. QED
    BY <1>6, <1>17 DEF s, pk

\* It finds nothing for a pubkey that no leaf has.
LEMMA ClaimFindsNothing ==
    ASSUME NEW leaves, Len(leaves) \in Nat, DOMAIN leaves = 1..Len(leaves),
           Len(leaves) # 0 => IsLeaves(leaves),
           NEW pk, \A i \in 1..Len(leaves) : leaves[i].pubkey # pk
    PROVE  ClaimRoute(leaves, pk) = NotFound
  <1> DEFINE N == Len(leaves)
             s == SortLeaves(leaves)
             places == {i \in 1..N : ShardId(s[i].pubkey) = ShardId(pk)}
             t == Those(s, places)
             m == Cardinality(places)
             line(l) == [pubkey    |-> l.pubkey,
                         lamports  |-> l.lamports,
                         leafIndex |-> LeafIndex(leaves, l.pubkey),
                         proof     |-> BuildInclusionProof(leaves, l.pubkey).proof]
             lines == Shard(leaves, ShardId(pk))
  <1>1. lines = [i \in DOMAIN t |-> line(t[i])]
    BY DEF Shard
  <1>2. places \in SUBSET (1..N) /\ N \in Nat
    OBVIOUS
  <1>3. ClaimRoute(leaves, pk) = IF LineOf(lines, pk) = 0 THEN NotFound
                                 ELSE Found(lines[LineOf(lines, pk)])
    BY DEF ClaimRoute
  <1>4. \A l : line(l).pubkey = l.pubkey
    OBVIOUS
  <1>5. ASSUME NEW k \in 1..N PROVE s[k].pubkey # pk
    <2>1. N # 0
      OBVIOUS
    <2>2. IsLeaves(leaves)
      BY <2>1
    <2>3. \A l \in 1..N : \E j \in 1..N : s[l] = leaves[j] /\ SmallerLeaves(leaves, j) = l - 1
      BY <2>2, Sorted
    <2> HIDE DEF s, N
    <2>4. PICK j \in 1..N : s[k] = leaves[j]
      BY <2>3
    <2>5. QED
      BY <2>4 DEF N
  <1> HIDE DEF N, s, places, t, line, lines
  <1>6. /\ m \in Nat /\ t = [k \in 1..m |-> t[k]] /\ Len(t) = m
        /\ \E at \in [1..m -> places] : \A k \in 1..m : t[k] = s[at[k]]
    <2>1. Lists(Those(s, places), s, places, Cardinality(places))
      BY <1>2, ThoseAre
    <2>2. Lists(t, s, places, m)
      BY <2>1 DEF t
    <2> HIDE DEF m
    <2>3. QED
      BY <2>2 DEF Lists
  <1> HIDE DEF m
  <1>7. lines = [k \in 1..m |-> lines[k]] /\ \A k \in 1..m : lines[k] = line(t[k])
    <2>1. DOMAIN t = 1..m
      BY <1>6
    <2>2. QED
      BY <1>1, <2>1
  <1>8. Len(lines) = m
    BY <1>6, <1>7, LengthOf
  <1>9. ~ \E k \in 1..m : lines[k].pubkey = pk
    <2>1. PICK at \in [1..m -> places] : \A k \in 1..m : t[k] = s[at[k]]
      BY <1>6
    <2>2. QED
      BY <1>2, <1>4, <1>5, <1>7, <2>1
  <1>10. LineOf(lines, pk) = 0
    BY <1>6, <1>8, <1>9, FoundFirst
  <1>11. QED
    BY <1>3, <1>10

\* The page recomputes the committed root from the line it is given.
LEMMA LineVerifies ==
    ASSUME NEW leaves, IsLeaves(leaves), NEW a \in 1..Len(leaves)
    PROVE  LET s  == SortLeaves(leaves)
               pk == s[a].pubkey
               c  == ClaimRoute(leaves, pk)
           IN  /\ c.status = 200 /\ c.hit.lamports = s[a].lamports
               /\ RecomputeRoot(ProofOfLine(c.hit)) = BuildMerkleRoot(leaves)
               /\ ProofOfLine(c.hit).proofFlags = BuildInclusionProof(leaves, pk).proofFlags
  <1> DEFINE s  == SortLeaves(leaves)
             pk == s[a].pubkey
             c  == ClaimRoute(leaves, pk)
             q  == BuildInclusionProof(leaves, pk)
             l  == [pubkey |-> pk, lamports |-> s[a].lamports, leafIndex |-> a - 1, proof |-> q.proof]
             h  == Height(Len(leaves))
  <1>1. c = Found(l)
    BY ClaimFinds
  <1>2. c.status = 200 /\ c.hit = l
    BY <1>1 DEF Found
  <1>3. /\ Len(q.proof) = h
        /\ q.proofFlags = FlagsOfIndex(a - 1, h)
        /\ q.pubkey = pk /\ q.lamports = s[a].lamports
        /\ ProvesLeaf(q, leaves, a)
    BY BuiltProofProves
  <1>4. l.pubkey = pk /\ l.lamports = s[a].lamports /\ l.leafIndex = a - 1 /\ l.proof = q.proof
    OBVIOUS
  <1> HIDE DEF s, pk, c, q, l, h
  <1> DEFINE p == ProofOfLine(l)
  <1>5. /\ p.pubkey = q.pubkey /\ p.lamports = q.lamports /\ p.proof = q.proof
        /\ p.proofFlags = q.proofFlags
    BY <1>3, <1>4 DEF ProofOfLine
  <1> HIDE DEF p
  <1>6. LeafHash(p) = LeafHash(q)
    BY <1>5 DEF LeafHash
  <1>7. ProvesLeaf(p, leaves, a)
    BY <1>3, <1>5, <1>6 DEF ProvesLeaf
  <1>8. RecomputeRoot(p) = BuildMerkleRoot(leaves)
    BY <1>7, LeafLeadsToRoot
  <1>9. QED
    BY <1>2, <1>4, <1>5, <1>8 DEF p, s, pk, c, q

-----------------------------------------------------------------------------
(* The order of the leaves does not matter.                                *)

\* A list and its reverse have the same number of leaves below a pubkey.
Below(f, n, q) == Cardinality({i \in 1..n : f[i].pubkey < q})
Reverses(g, f, n) == \A i \in 1..n : g[i] = f[(n - i) + 1]

LEMMA SmallerReversed ==
    ASSUME NEW n \in Nat, NEW f, NEW g, Reverses(g, f, n), NEW q
    PROVE  Below(g, n, q) = Below(f, n, q)
  <1> DEFINE S == {i \in 1..n : g[i].pubkey < q}
             T == {i \in 1..n : f[i].pubkey < q}
             turn == [i \in S |-> (n - i) + 1]
  <1>1. \A i \in 1..n : (n - i) + 1 \in 1..n /\ (n - ((n - i) + 1)) + 1 = i
    OBVIOUS
  <1>2. turn \in [S -> T]
    BY <1>1 DEF Reverses
  <1>3. \A i, j \in S : turn[i] = turn[j] => i = j
    OBVIOUS
  <1>4. ASSUME NEW i \in T PROVE \E j \in S : turn[j] = i
    <2>1. (n - i) + 1 \in 1..n /\ (n - ((n - i) + 1)) + 1 = i
      BY <1>1
    <2>2. g[(n - i) + 1] = f[i]
      BY <2>1 DEF Reverses
    <2>3. (n - i) + 1 \in S
      BY <2>1, <2>2
    <2>4. turn[(n - i) + 1] = i
      BY <2>1, <2>3
    <2>5. QED
      BY <2>3, <2>4
  <1>5. IsFiniteSet(S)
    <2>1. IsFiniteSet(1..n)
      BY FS_Interval
    <2> DEFINE D == 1..n
    <2>2. IsFiniteSet(D) /\ S \subseteq D
      BY <2>1
    <2> HIDE DEF D, S
    <2>3. QED
      BY <2>2, FS_Subset
  <1> HIDE DEF S, T, turn
  <1>6. turn \in Bijection(S, T)
    BY <1>2, <1>3, <1>4 DEF Bijection, Injection, Surjection, IsInjective
  <1>7. Cardinality(S) = Cardinality(T)
    BY <1>5, <1>6, FS_Bijection DEF ExistsBijection
  <1>8. QED
    BY <1>7 DEF S, T, Below

\* The tree over a given first layer.
TreeOver(first, h) ==
    CHOOSE f : f = [d \in 0..h |-> IF d = 0 THEN first ELSE NextLayer(f[d - 1])]

LEMMA ReverseSame ==
    ASSUME NEW leaves, IsLeaves(leaves)
    PROVE  BuildMerkleRoot(Reverse(leaves)) = BuildMerkleRoot(leaves)
  <1> DEFINE n == Len(leaves)
             R == Reverse(leaves)
  <1>1. /\ n \in Nat \ {0} /\ DOMAIN leaves = 1..n
        /\ \A i \in 1..n : leaves[i].pubkey \in Nat
        /\ \A i, j \in 1..n : leaves[i].pubkey = leaves[j].pubkey => i = j
    BY DEF IsLeaves
  <1>2. R = [i \in 1..n |-> leaves[(n - i) + 1]]
    BY DEF Reverse
  <1> HIDE DEF n, R
  <1>3. R = [i \in 1..n |-> R[i]] /\ DOMAIN R = 1..n /\ \A i \in 1..n : R[i] = leaves[(n - i) + 1]
    BY <1>2
  <1>4. Len(R) = n
    BY <1>1, <1>3, LengthOf
  <1>5. \A i \in 1..n : (n - i) + 1 \in 1..n /\ i \in Nat
    BY <1>1
  <1>6. IsLeaves(R)
    <2>1. \A i \in 1..n : R[i].pubkey \in Nat
      BY <1>1, <1>3, <1>5
    <2>2. ASSUME NEW i \in 1..n, NEW j \in 1..n, R[i].pubkey = R[j].pubkey PROVE i = j
      <3>1. (n - i) + 1 = (n - j) + 1
        BY <1>1, <1>3, <1>5, <2>2
      <3>2. QED
        BY <1>1, <3>1
    <2>3. QED
      BY <1>1, <1>3, <1>4, <2>1, <2>2 DEF IsLeaves
  <1> DEFINE s == SortLeaves(leaves)
             z == SortLeaves(R)
  <1>7. /\ s = [k \in 1..n |-> s[k]] /\ z = [k \in 1..n |-> z[k]]
        /\ \A k \in 1..n : \E j \in 1..n : s[k] = leaves[j] /\ SmallerLeaves(leaves, j) = k - 1
        /\ \A k \in 1..n : \E j \in 1..n : z[k] = R[j] /\ SmallerLeaves(R, j) = k - 1
        /\ \A i, j \in 1..n : SmallerLeaves(leaves, i) = SmallerLeaves(leaves, j) => i = j
    <2>1. /\ s = [k \in 1..n |-> s[k]]
          /\ \A k \in 1..n : \E j \in 1..n : s[k] = leaves[j] /\ SmallerLeaves(leaves, j) = k - 1
          /\ \A i, j \in 1..n : SmallerLeaves(leaves, i) = SmallerLeaves(leaves, j) => i = j
      BY Sorted DEF n
    <2>2. /\ z = [k \in 1..Len(R) |-> z[k]]
          /\ \A k \in 1..Len(R) : \E j \in 1..Len(R) : z[k] = R[j] /\ SmallerLeaves(R, j) = k - 1
      BY <1>6, Sorted
    <2> HIDE DEF s, z
    <2>3. QED
      BY <1>4, <2>1, <2>2
  <1> HIDE DEF s, z
  <1>8. ASSUME NEW k \in 1..n PROVE z[k] = s[k]
    <2>1. PICK j \in 1..n : s[k] = leaves[j] /\ SmallerLeaves(leaves, j) = k - 1
      BY <1>7
    <2>2. PICK i \in 1..n : z[k] = R[i] /\ SmallerLeaves(R, i) = k - 1
      BY <1>7
    <2> DEFINE t == (n - i) + 1
               q == R[i].pubkey
    <2>3. t \in 1..n /\ R[i] = leaves[t]
      BY <1>3, <1>5
    <2>4. SmallerLeaves(R, i) = SmallerLeaves(leaves, t)
      <3>1. SmallerLeaves(R, i) = Below(R, n, q)
        BY <1>3 DEF SmallerLeaves, Below
      <3>2. SmallerLeaves(leaves, t) = Below(leaves, n, q)
        BY <1>1, <2>3 DEF SmallerLeaves, Below
      <3> HIDE DEF q
      <3>3. n \in Nat /\ Reverses(R, leaves, n)
        BY <1>1, <1>3 DEF Reverses
      <3>4. Below(R, n, q) = Below(leaves, n, q)
        BY <3>3, SmallerReversed
      <3>5. QED
        BY <3>1, <3>2, <3>4
    <2> HIDE DEF t, q
    <2>5. t = j
      BY <1>7, <2>1, <2>2, <2>3, <2>4
    <2>6. QED
      BY <2>1, <2>2, <2>3, <2>5
  <1>9. z = s
    BY <1>7, <1>8
  <1> DEFINE first == [i \in 1..n |-> LeafHash(s[i])]
             h == Height(n)
  <1>10. Layers(leaves) = TreeOver(first, h)
    BY DEF Layers, TreeOver, s, n
  <1>11. Layers(R) = TreeOver(first, h)
    <2>1. Layers(R) = TreeOver([i \in 1..Len(R) |-> LeafHash(z[i])], Height(Len(R)))
      BY DEF Layers, TreeOver, z
    <2>2. QED
      BY <1>4, <1>9, <2>1
  <1>12. leaves # <<>> /\ R # <<>>
    BY <1>1, <1>4 DEF n
  <1>13. BuildMerkleRoot(leaves) = Layers(leaves)[h][1]
    BY <1>12 DEF BuildMerkleRoot, n
  <1>14. BuildMerkleRoot(R) = Layers(R)[h][1]
    BY <1>4, <1>12 DEF BuildMerkleRoot
  <1>15. QED
    BY <1>10, <1>11, <1>13, <1>14 DEF R

-----------------------------------------------------------------------------
(* The megadrop's lookup.                                                  *)

\* What is left of the rows without those of zero lamports.
LEMMA RouteLeavesAre ==
    ASSUME NEW leaves, IsLeaves(leaves)
    PROVE  LET kept == RouteLeaves(leaves)
           IN  /\ \A i \in 1..Len(leaves) :
                     leaves[i].lamports > 0 <=>
                        \E k \in 1..Len(kept) : kept[k].pubkey = leaves[i].pubkey
               /\ DOMAIN kept = 1..Len(kept) /\ Len(kept) \in Nat
               /\ Len(kept) # 0 => IsLeaves(kept)
               /\ (\A i \in 1..Len(leaves) : leaves[i].lamports > 0) => kept = leaves
  <1> DEFINE n == Len(leaves)
             places == {i \in 1..n : leaves[i].lamports > 0}
             m == Cardinality(places)
             kept == RouteLeaves(leaves)
  <1>1. /\ n \in Nat \ {0} /\ DOMAIN leaves = 1..n
        /\ leaves = [i \in 1..n |-> leaves[i]]
        /\ \A i \in 1..n : leaves[i].pubkey \in Nat
        /\ \A i, j \in 1..n : leaves[i].pubkey = leaves[j].pubkey => i = j
    BY DEF IsLeaves
  <1>2. places \in SUBSET (1..n) /\ kept = Those(leaves, places)
    BY <1>1 DEF RouteLeaves
  <1>3. \A i \in 1..n : i \in places <=> leaves[i].lamports > 0
    OBVIOUS
  <1> HIDE DEF n, places, kept
  <1>4. Lists(kept, leaves, places, m)
    BY <1>1, <1>2, ThoseAre
  <1> HIDE DEF m
  <1>5. m \in Nat /\ m = Cardinality(places) /\ kept = [k \in 1..m |-> kept[k]] /\ Len(kept) = m
    BY <1>4 DEF Lists
  <1>6. PICK at \in [1..m -> places] :
              /\ \A k \in 1..m : kept[k] = leaves[at[k]]
              /\ \A k \in 1..m : Cardinality({j \in places : j < at[k]}) = k - 1
              /\ \A i \in places : \E k \in 1..m : at[k] = i
    BY <1>4 DEF Lists
  <1>7. \A k \in 1..m : at[k] \in 1..n /\ at[k] \in places
    BY <1>2, <1>6
  <1>8. ASSUME NEW i \in 1..n
        PROVE  leaves[i].lamports > 0 <=> \E k \in 1..m : kept[k].pubkey = leaves[i].pubkey
    <2>1. ASSUME i \in places PROVE \E k \in 1..m : kept[k].pubkey = leaves[i].pubkey
      BY <1>6, <2>1
    <2>2. ASSUME NEW k \in 1..m, kept[k].pubkey = leaves[i].pubkey PROVE i \in places
      <3>1. leaves[at[k]].pubkey = leaves[i].pubkey
        BY <1>6, <2>2
      <3>2. at[k] = i
        BY <1>1, <1>7, <3>1
      <3>3. QED
        BY <1>7, <3>2
    <2>3. QED
      BY <1>3, <2>1, <2>2
  <1>9. ASSUME m # 0 PROVE IsLeaves(kept)
    <2>1. \A k \in 1..m : kept[k].pubkey \in Nat
      BY <1>1, <1>6, <1>7
    <2>2. ASSUME NEW k \in 1..m, NEW l \in 1..m, kept[k].pubkey = kept[l].pubkey PROVE k = l
      <3>1. leaves[at[k]].pubkey = leaves[at[l]].pubkey
        BY <1>6, <2>2
      <3>2. at[k] = at[l]
        BY <1>1, <1>7, <3>1
      <3>3. k - 1 = l - 1
        BY <1>6, <3>2
      <3>4. QED
        BY <1>5, <3>3
    <2>3. m \in Nat \ {0}
      BY <1>5, <1>9
    <2>4. QED
      BY <1>5, <2>1, <2>2, <2>3 DEF IsLeaves
  <1>10. ASSUME \A i \in 1..n : leaves[i].lamports > 0 PROVE kept = leaves
    <2>1. places = 1..n
      BY <1>2, <1>3, <1>10
    <2>2. m = n
      <3>1. Cardinality(1..n) = IF 1 > n THEN 0 ELSE n - 1 + 1
        BY <1>1, FS_Interval
      <3>2. QED
        BY <1>1, <1>5, <2>1, <3>1
    <2>3. ASSUME NEW k \in 1..n PROVE kept[k] = leaves[k]
      <3>1. at[k] \in 1..n
        BY <1>7, <2>2
      <3>2. Cardinality({j \in 1..n : j < at[k]}) = k - 1
        BY <1>6, <2>1, <2>2
      <3> DEFINE x == at[k]
      <3>3. {j \in 1..n : j < x} = 1..(x - 1)
        <4>1. x \in 1..n
          BY <3>1
        <4> HIDE DEF x
        <4>2. QED
          BY <1>1, <4>1
      <3>4. Cardinality(1..(x - 1)) = x - 1
        <4>1. 1 \in Int /\ x - 1 \in Nat
          BY <1>1, <3>1
        <4> DEFINE y == x - 1
        <4> HIDE DEF y
        <4>2. y \in Nat
          BY <4>1 DEF y
        <4>3. Cardinality(1..y) = IF 1 > y THEN 0 ELSE y - 1 + 1
          BY <4>2, FS_Interval
        <4>4. Cardinality(1..y) = y
          BY <4>2, <4>3
        <4>5. QED
          BY <4>4 DEF y
      <3>5. x = k
        <4>1. x - 1 = k - 1
          BY <3>2, <3>3, <3>4
        <4>2. x \in Nat /\ k \in Nat
          BY <1>1, <3>1
        <4>3. QED
          BY <4>1, <4>2
      <3>6. QED
        BY <1>6, <2>2, <3>5
    <2>4. QED
      BY <1>1, <1>5, <2>2, <2>3
  <1>11. DOMAIN kept = 1..m
    BY <1>5
  <1>12. QED
    BY <1>5, <1>8, <1>9, <1>10, <1>11 DEF n, kept

\* GET /api/megadrop/<pubkey>
LEMMA MegadropFinds ==
    ASSUME NEW leaves, IsLeaves(leaves), NEW i \in 1..Len(leaves)
    PROVE  LET answer == MegadropRoute(leaves, leaves[i].pubkey)
           IN  /\ answer.status = 200 <=> leaves[i].lamports > 0
               /\ answer.status = 200 => RecomputeRoot(answer.hit) = answer.hit.root
               /\ (\A j \in DOMAIN leaves : leaves[j].lamports > 0)
                    => answer.hit.root = CommittedRoot(leaves)
  <1> DEFINE n == Len(leaves)
             pk == leaves[i].pubkey
             kept == RouteLeaves(leaves)
             m == Len(kept)
             answer == MegadropRoute(leaves, pk)
  <1>1. n \in Nat \ {0} /\ DOMAIN leaves = 1..n
    BY DEF IsLeaves
  <1>2. InTree(leaves, pk)
    BY <1>1 DEF InTree
  <1>3. /\ leaves[i].lamports > 0 <=> \E k \in 1..m : kept[k].pubkey = pk
        /\ DOMAIN kept = 1..m /\ m \in Nat
        /\ m # 0 => IsLeaves(kept)
        /\ (\A j \in 1..n : leaves[j].lamports > 0) => kept = leaves
    <2>1. /\ \A j \in 1..n : leaves[j].lamports > 0 <=>
                        \E k \in 1..m : kept[k].pubkey = leaves[j].pubkey
          /\ DOMAIN kept = 1..m /\ m \in Nat
          /\ m # 0 => IsLeaves(kept)
          /\ (\A j \in 1..n : leaves[j].lamports > 0) => kept = leaves
      BY RouteLeavesAre
    <2> HIDE DEF m, kept
    <2>2. QED
      BY <2>1
  <1>4. InTree(kept, pk) <=> leaves[i].lamports > 0
    <2> HIDE DEF kept, m
    <2>1. QED
      BY <1>3 DEF InTree
  <1>5. answer = IF InTree(kept, pk) THEN Found(BuildInclusionProof(kept, pk)) ELSE NotFound
    BY <1>2 DEF MegadropRoute
  <1>6. answer.status = 200 <=> leaves[i].lamports > 0
    <2> HIDE DEF answer, kept
    <2>1. CASE InTree(kept, pk)
      BY <1>4, <1>5, <2>1 DEF Found
    <2>2. CASE ~ InTree(kept, pk)
      BY <1>4, <1>5, <2>2 DEF NotFound
    <2>3. QED
      BY <2>1, <2>2
  <1>7. ASSUME leaves[i].lamports > 0
        PROVE  /\ answer.hit.root = BuildMerkleRoot(kept)
               /\ RecomputeRoot(answer.hit) = answer.hit.root
    <2> DEFINE q == BuildInclusionProof(kept, pk)
    <2>1. answer = Found(q)
      BY <1>4, <1>5, <1>7
    <2>2. answer.hit = q
      BY <2>1 DEF Found
    <2> HIDE DEF kept, m, q, answer
    <2>3. PICK k \in 1..m : kept[k].pubkey = pk
      BY <1>3, <1>7
    <2>4. IsLeaves(kept)
      BY <1>3, <2>3
    <2>5. PICK a \in 1..m : SortLeaves(kept)[a] = kept[k]
      <3>1. \A j \in 1..m : \E l \in 1..m : SortLeaves(kept)[l] = kept[j]
        BY <2>4, Sorted DEF m
      <3>2. QED
        BY <3>1
    <2>6. SortLeaves(kept)[a].pubkey = pk
      BY <2>3, <2>5
    <2>7. q.root = BuildMerkleRoot(kept) /\ ProvesLeaf(q, kept, a)
      <3>1. a \in 1..Len(kept)
        BY DEF m
      <3> DEFINE pa == SortLeaves(kept)[a].pubkey
      <3>2. /\ BuildInclusionProof(kept, pa).root = BuildMerkleRoot(kept)
            /\ ProvesLeaf(BuildInclusionProof(kept, pa), kept, a)
        BY <2>4, <3>1, BuiltProofProves
      <3>3. QED
        BY <2>6, <3>2 DEF q
    <2>8. RecomputeRoot(q) = BuildMerkleRoot(kept)
      BY <2>4, <2>7, LeafLeadsToRoot DEF m
    <2>9. QED
      BY <2>2, <2>7, <2>8
  <1>8. ASSUME \A j \in DOMAIN leaves : leaves[j].lamports > 0
        PROVE  answer.hit.root = CommittedRoot(leaves)
    <2>1. leaves[i].lamports > 0 /\ \A j \in 1..n : leaves[j].lamports > 0
      BY <1>1, <1>8
    <2>2. kept = leaves
      BY <1>3, <2>1
    <2> HIDE DEF kept, answer
    <2>3. QED
      BY <1>7, <2>1, <2>2 DEF CommittedRoot
  <1>9. QED
    BY <1>6, <1>7, <1>8

-----------------------------------------------------------------------------
(* The lookups.                                                            *)

LEMMA LookupsHold ==
    ASSUME HoldersInv
    PROVE  LookupsVerify
  <1> DEFINE leaves == rows
             root == BuildMerkleRoot(leaves)
             n == Len(leaves)
             Right(i) == LET pk     == leaves[i].pubkey
                             claim  == ClaimRoute(leaves, pk)
                             answer == MegadropRoute(leaves, pk)
                         IN  /\ claim.status = 200
                             /\ claim.hit.lamports = leaves[i].lamports
                             /\ RecomputeRoot(ProofOfLine(claim.hit)) = root
                             /\ ProofOfLine(claim.hit).proofFlags = BuildInclusionProof(leaves, pk).proofFlags
                             /\ answer.status = 200 <=> leaves[i].lamports > 0
                             /\ answer.status = 200 => RecomputeRoot(answer.hit) = answer.hit.root
                             /\ (\A j \in DOMAIN leaves : leaves[j].lamports > 0)
                                  => answer.hit.root = CommittedRoot(leaves)
  <1>1. SUFFICES /\ BuildMerkleRoot(Reverse(leaves)) = root
                 /\ ~InTree(leaves, 0) /\ ClaimRoute(leaves, 0) = NotFound
                 /\ \A i \in DOMAIN leaves : Right(i)
    BY DEF LookupsVerify
  <1>2. /\ n \in Nat /\ DOMAIN leaves = 1..n
        /\ n # 0 => IsLeaves(leaves)
        /\ n = 0 => leaves = <<>>
        /\ \A i \in 1..n : leaves[i].pubkey = i
    <2>1. CASE holders = <<>>
      <3>1. leaves = <<>>
        BY <2>1 DEF rows, Rows
      <3>2. QED
        BY <3>1
    <2>2. CASE holders # <<>>
      <3>1. IsLeaves(leaves) /\ n = Len(holders)
        BY <2>2, RowsAreLeaves
      <3>2. DOMAIN holders = 1..Len(holders) /\ \A i \in DOMAIN holders : holders[i].owner = i
        BY DEF HoldersInv
      <3>3. \A i \in DOMAIN holders : leaves[i].pubkey = holders[i].owner
        BY DEF rows, Rows
      <3> HIDE DEF leaves
      <3>4. n \in Nat \ {0} /\ DOMAIN leaves = 1..n
        BY <3>1 DEF IsLeaves
      <3>5. QED
        BY <3>1, <3>2, <3>3, <3>4
    <2>3. QED
      BY <2>1, <2>2
  <1> HIDE DEF leaves
  <1>3. \A i \in 1..n : leaves[i].pubkey # 0
    BY <1>2
  <1>4. ~ InTree(leaves, 0)
    BY <1>2, <1>3 DEF InTree
  <1>5. ClaimRoute(leaves, 0) = NotFound
    <2> DEFINE zero == 0
    <2>1. \A i \in 1..Len(leaves) : leaves[i].pubkey # zero
      BY <1>3
    <2> HIDE DEF zero
    <2>2. ClaimRoute(leaves, zero) = NotFound
      BY <1>2, <2>1, ClaimFindsNothing
    <2>3. QED
      BY <2>2 DEF zero
  <1>6. BuildMerkleRoot(Reverse(leaves)) = root
    <2>1. CASE n = 0
      <3>1. leaves = <<>>
        BY <1>2, <2>1
      <3>2. Reverse(leaves) = <<>>
        BY <3>1 DEF Reverse
      <3>3. QED
        BY <3>1, <3>2
    <2>2. CASE n # 0
      BY <1>2, <2>2, ReverseSame
    <2>3. QED
      BY <2>1, <2>2
  <1>7. ASSUME NEW i \in DOMAIN leaves PROVE Right(i)
    <2>1. i \in 1..n /\ IsLeaves(leaves)
      BY <1>2
    <2> DEFINE pk == leaves[i].pubkey
               s  == SortLeaves(leaves)
               claim  == ClaimRoute(leaves, pk)
               answer == MegadropRoute(leaves, pk)
    <2>2. PICK a \in 1..n : s[a] = leaves[i]
      <3>1. \A j \in 1..n : \E k \in 1..n : s[k] = leaves[j]
        BY <2>1, Sorted
      <3> HIDE DEF s, n
      <3>2. QED
        BY <2>1, <3>1
    <2>3. /\ claim.status = 200 /\ claim.hit.lamports = leaves[i].lamports
          /\ RecomputeRoot(ProofOfLine(claim.hit)) = root
          /\ ProofOfLine(claim.hit).proofFlags = BuildInclusionProof(leaves, pk).proofFlags
      <3> DEFINE pa == s[a].pubkey
                 c == ClaimRoute(leaves, pa)
      <3>1. /\ c.status = 200 /\ c.hit.lamports = s[a].lamports
            /\ RecomputeRoot(ProofOfLine(c.hit)) = BuildMerkleRoot(leaves)
            /\ ProofOfLine(c.hit).proofFlags = BuildInclusionProof(leaves, pa).proofFlags
        BY <2>1, LineVerifies
      <3>2. pa = pk
        BY <2>2
      <3> HIDE DEF pa, pk, s
      <3>3. QED
        BY <2>2, <3>1, <3>2
    <2>4. /\ answer.status = 200 <=> leaves[i].lamports > 0
          /\ answer.status = 200 => RecomputeRoot(answer.hit) = answer.hit.root
          /\ (\A j \in DOMAIN leaves : leaves[j].lamports > 0)
               => answer.hit.root = CommittedRoot(leaves)
      BY <2>1, MegadropFinds
    <2>5. QED
      BY <2>3, <2>4
  <1>8. QED
    BY <1>4, <1>5, <1>6, <1>7

\* Whatever the holders and the policy, both routes give every holder the
\* proof of its row.
THEOREM EveryLeafIsFound == HoldersSpec => []LookupsVerify
  <1>1. HoldersInv => LookupsVerify
    BY LookupsHold
  <1>2. QED
    BY <1>1, HoldersInvHolds, PTL

-----------------------------------------------------------------------------
(* The codec of messages.  First, powers.                                  *)

\* A number has one quotient and one remainder.
LEMMA DividedOnce ==
    ASSUME NEW d \in Nat \ {0}, NEW q \in Nat, NEW r \in 0..(d - 1)
    PROVE  /\ d * q + r \in Nat
           /\ (d * q + r) \div d = q
           /\ (d * q + r) % d = r
  <1> DEFINE a == d * q + r
             u == a \div d
             v == a % d
  <1>0. d * q \in Nat
    BY Products
  <1>1. a \in Nat
    BY <1>0
  <1>2. u \in Nat /\ v \in Int /\ a = d * u + v /\ 0 <= v /\ v < d
    <2> HIDE DEF a
    <2>1. QED
      BY <1>1, Divided
  <1>3. a = d * q + r
    OBVIOUS
  <1> HIDE DEF a, u, v
  <1>4. ~ u < q
    <2>1. SUFFICES ASSUME u < q PROVE FALSE
      OBVIOUS
    <2>2. (u + 1) * d <= q * d
      BY <1>2, <2>1, Products
    <2>3. (u + 1) * d = u * d + d /\ u * d = d * u /\ q * d = d * q /\ d * u \in Nat
      BY <1>2
    <2>4. QED
      BY <1>0, <1>2, <1>3, <2>2, <2>3
  <1>5. ~ q < u
    <2>1. SUFFICES ASSUME q < u PROVE FALSE
      OBVIOUS
    <2>2. (q + 1) * d <= u * d
      BY <1>2, <2>1, Products
    <2>3. (q + 1) * d = q * d + d /\ u * d = d * u /\ q * d = d * q /\ d * u \in Nat
      BY <1>2
    <2>4. QED
      BY <1>0, <1>2, <1>3, <2>2, <2>3
  <1>6. u = q
    BY <1>2, <1>4, <1>5
  <1>7. v = r
    BY <1>0, <1>2, <1>3, <1>6
  <1>8. QED
    BY <1>1, <1>6, <1>7 DEF a, u, v

\* p is a table of the powers of b.
Powers(p, b, n) == p = [k \in 0..n |-> IF k = 0 THEN 1 ELSE b * p[k - 1]]

\* There is a table of the powers, and Power is its last entry.
LEMMA PowersExist ==
    ASSUME NEW b \in Nat \ {0}, NEW n \in Nat
    PROVE  \E p \in [0..n -> Nat \ {0}] : Powers(p, b, n)
  <1> DEFINE S == Nat \ {0}
             more == [y \in S |-> b * y]
             step == [k \in 1..n |-> more]
  <1>1. more \in [S -> S]
    <2>1. \A y \in S : b * y \in S
      OBVIOUS
    <2>2. QED
      BY <2>1
  <1>2. step \in [1..n -> [S -> S]] /\ 1 \in S
    BY <1>1
  <1>3. \E p \in [0..n -> S] : StepsFrom(p, n, 1, step)
    <2> HIDE DEF step, S
    <2>1. QED
      BY <1>2, TableOfSteps
  <1>4. PICK p \in [0..n -> S] : StepsFrom(p, n, 1, step)
    BY <1>3
  <1>5. p = [k \in 0..n |-> IF k = 0 THEN 1 ELSE step[k][p[k - 1]]]
    BY <1>4 DEF StepsFrom
  <1>6. \A k \in 0..n : k # 0 => step[k][p[k - 1]] = b * p[k - 1]
    <2>1. \A k \in 0..n : k # 0 => k - 1 \in 0..n /\ k \in 1..n
      OBVIOUS
    <2>2. QED
      BY <2>1
  <1> HIDE DEF step
  <1>7. Powers(p, b, n)
    BY <1>5, <1>6 DEF Powers
  <1>8. QED
    BY <1>7

LEMMA PowerIs ==
    ASSUME NEW b \in Nat \ {0}, NEW n \in Nat
    PROVE  \E p \in [0..n -> Nat \ {0}] : Powers(p, b, n) /\ Power(b, n) = p[n]
  <1> DEFINE F == CHOOSE p : Powers(p, b, n)
  <1>1. \E p \in [0..n -> Nat \ {0}] : Powers(p, b, n)
    BY PowersExist
  <1>2. Powers(F, b, n)
    BY <1>1
  <1>3. Power(b, n) = F[n]
    BY DEF Power, Powers
  <1> HIDE DEF F
  <1>4. PICK p \in [0..n -> Nat \ {0}] : Powers(p, b, n)
    BY <1>1
  <1> DEFINE A == {k \in 0..n : F[k] = p[k]}
  <1>5. 0 \in A
    BY <1>2, <1>4 DEF Powers
  <1>6. ASSUME NEW k \in 0..(n - 1), k \in A PROVE k + 1 \in A
    <2>1. k + 1 \in 0..n /\ k + 1 # 0 /\ (k + 1) - 1 = k
      OBVIOUS
    <2>2. F[k + 1] = b * F[k] /\ p[k + 1] = b * p[k]
      BY <1>2, <1>4, <2>1 DEF Powers
    <2>3. QED
      BY <1>6, <2>1, <2>2
  <1>7. 0..n \subseteq A
    <2> HIDE DEF A
    <2>1. QED
      BY <1>5, <1>6, CountUp
  <1>8. F[n] = p[n]
    BY <1>7
  <1>9. QED
    BY <1>3, <1>4, <1>8

\* How the powers grow.
LEMMA PowerNext ==
    ASSUME NEW b \in Nat \ {0}, NEW n \in Nat
    PROVE  /\ Power(b, 0) = 1
           /\ Power(b, n) \in Nat \ {0}
           /\ Power(b, n + 1) = b * Power(b, n)
  <1>1. PICK p \in [0..n -> Nat \ {0}] : Powers(p, b, n) /\ Power(b, n) = p[n]
    BY PowerIs
  <1>2. PICK q \in [0..(n + 1) -> Nat \ {0}] : Powers(q, b, n + 1) /\ Power(b, n + 1) = q[n + 1]
    <2>1. n + 1 \in Nat
      OBVIOUS
    <2>2. QED
      BY <2>1, PowerIs
  <1> DEFINE A == {k \in 0..n : q[k] = p[k]}
  <1>3. 0 \in A
    BY <1>1, <1>2 DEF Powers
  <1>4. ASSUME NEW k \in 0..(n - 1), k \in A PROVE k + 1 \in A
    <2>1. k + 1 \in 0..n /\ k + 1 \in 0..(n + 1) /\ k + 1 # 0 /\ (k + 1) - 1 = k
      OBVIOUS
    <2>2. q[k + 1] = b * q[k] /\ p[k + 1] = b * p[k]
      BY <1>1, <1>2, <2>1 DEF Powers
    <2>3. QED
      BY <1>4, <2>1, <2>2
  <1>5. 0..n \subseteq A
    <2> HIDE DEF A
    <2>1. QED
      BY <1>3, <1>4, CountUp
  <1>6. q[n] = p[n]
    BY <1>5
  <1>7. n + 1 \in 0..(n + 1) /\ n + 1 # 0 /\ (n + 1) - 1 = n
    OBVIOUS
  <1>8. q[n + 1] = b * q[n]
    BY <1>2, <1>7 DEF Powers
  <1>9. PICK z \in [0..0 -> Nat \ {0}] : Powers(z, b, 0) /\ Power(b, 0) = z[0]
    BY PowerIs
  <1>10. z[0] = 1
    BY <1>9 DEF Powers
  <1>11. QED
    BY <1>1, <1>2, <1>6, <1>8, <1>9, <1>10

LEMMA PowersOfTwo == \A n \in Nat : Power(2, n) \in Nat \ {0}
  BY PowerNext

\* Powers of sums, and of larger numbers.
LEMMA PowerOfSum ==
    ASSUME NEW b \in Nat \ {0}, NEW m \in Nat, NEW n \in Nat
    PROVE  Power(b, m + n) = Power(b, m) * Power(b, n)
  <1> DEFINE A == {k \in 0..n : Power(b, m + k) = Power(b, m) * Power(b, k)}
  <1>1. Power(b, m) \in Nat /\ Power(b, 0) = 1 /\ Power(b, m + 0) = Power(b, m)
    <2>1. m + 0 = m
      OBVIOUS
    <2>2. QED
      BY <2>1, PowerNext
  <1>2. 0 \in A
    BY <1>1
  <1>3. ASSUME NEW k \in 0..(n - 1), k \in A PROVE k + 1 \in A
    <2>1. m + k \in Nat /\ k \in Nat /\ m + (k + 1) = (m + k) + 1 /\ k + 1 \in 0..n
      OBVIOUS
    <2>2. Power(b, (m + k) + 1) = b * Power(b, m + k) /\ Power(b, k + 1) = b * Power(b, k)
      BY <2>1, PowerNext
    <2>3. Power(b, k) \in Nat
      BY <2>1, PowerNext
    <2>4. Power(b, m + k) = Power(b, m) * Power(b, k)
      BY <1>3
    <2>5. b * (Power(b, m) * Power(b, k)) = Power(b, m) * (b * Power(b, k))
      BY <1>1, <2>3
    <2>6. QED
      BY <2>1, <2>2, <2>4, <2>5
  <1>4. 0..n \subseteq A
    <2> HIDE DEF A
    <2>1. QED
      BY <1>2, <1>3, CountUp
  <1>5. QED
    BY <1>4

LEMMA PowersRise ==
    ASSUME NEW b \in Nat \ {0}, NEW m \in Nat, NEW n \in Nat, m <= n
    PROVE  Power(b, m) <= Power(b, n)
  <1>1. n - m \in Nat /\ m + (n - m) = n
    OBVIOUS
  <1>2. Power(b, n) = Power(b, m) * Power(b, n - m)
    BY <1>1, PowerOfSum
  <1>3. Power(b, m) \in Nat /\ Power(b, n - m) \in Nat \ {0}
    BY <1>1, PowerNext
  <1> DEFINE x == Power(b, m)
             y == Power(b, n - m)
  <1>4. x * 1 <= x * y
    <2> HIDE DEF x, y
    <2>1. x \in Nat /\ y \in Nat /\ 1 <= y
      BY <1>3 DEF x, y
    <2>2. 1 * x <= y * x
      BY <2>1, Products
    <2>3. QED
      BY <2>1, <2>2
  <1>5. QED
    BY <1>2, <1>3, <1>4

-----------------------------------------------------------------------------
(* The exclusive or.                                                       *)

\* The digit at place k is what the lowest k + 1 digits have above the lowest k.
LEMMA LowBits ==
    ASSUME NEW a \in Nat, NEW k \in Nat
    PROVE  a % Power(2, k + 1) = (a % Power(2, k)) + (IF OddAt(a, k) THEN Power(2, k) ELSE 0)
  <1> DEFINE P == Power(2, k)
             q == a \div P
             r == a % P
             h == q \div 2
             o == q % 2
  <1>1. P \in Nat \ {0} /\ Power(2, k + 1) = 2 * P
    BY PowerNext
  <1>2. q \in Nat /\ r \in 0..(P - 1) /\ a = P * q + r
    <2> HIDE DEF P
    <2>1. a % P \in 0..(P - 1)
      BY <1>1
    <2>2. QED
      BY <1>1, <2>1, Divided
  <1>3. h \in Nat /\ o \in 0..1 /\ q = 2 * h + o
    <2> HIDE DEF q
    <2>1. QED
      BY <1>2
  <1>4. (o = 1) <=> OddAt(a, k)
    BY DEF OddAt
  <1> HIDE DEF P, q, r, h, o
  <1> DEFINE low == IF o = 1 THEN P + r ELSE r
  <1>5. a = (2 * P) * h + low /\ low \in 0..(2 * P - 1)
    <2>1. P * q = P * (2 * h) + P * o
      BY <1>1, <1>2, <1>3, Distributed
    <2>2. P * (2 * h) = (2 * P) * h
      BY <1>1, <1>3
    <2>3. P * o = IF o = 1 THEN P ELSE 0
      BY <1>1, <1>3
    <2>4. (2 * P) * h \in Nat
      BY <1>1, <1>3
    <2>5. QED
      BY <1>1, <1>2, <1>3, <2>1, <2>2, <2>3, <2>4
  <1> DEFINE d == 2 * P
  <1>6. d \in Nat \ {0}
    BY <1>1
  <1> HIDE DEF low, d
  <1>7. a % d = low
    <2>1. a = d * h + low /\ low \in 0..(d - 1)
      BY <1>5 DEF d
    <2>2. QED
      BY <1>3, <1>6, <2>1, DividedOnce
  <1>8. low = r + (IF o = 1 THEN P ELSE 0)
    BY <1>1, <1>2 DEF low
  <1>9. QED
    BY <1>1, <1>4, <1>7, <1>8 DEF d, r, P

\* A power of two added above a digit leaves the digit as it is, and is itself
\* a digit.
LEMMA DigitsBelow ==
    ASSUME NEW x \in Nat, NEW k \in Nat, NEW j \in 0..(k - 1)
    PROVE  OddAt(x + Power(2, k), j) <=> OddAt(x, j)
  <1> DEFINE P == Power(2, j)
             m == Power(2, k - 1 - j)
             q == x \div P
             r == x % P
  <1>1. j \in Nat /\ k - 1 - j \in Nat /\ j + 1 \in Nat /\ k = (j + 1) + (k - 1 - j)
    OBVIOUS
  <1>2. P \in Nat \ {0} /\ m \in Nat /\ Power(2, j + 1) = 2 * P
    <2>1. P \in Nat \ {0} /\ Power(2, j + 1) = 2 * P
      BY <1>1, PowerNext
    <2>2. m \in Nat
      BY <1>1, PowerNext
    <2>3. QED
      BY <2>1, <2>2
  <1>3. Power(2, k) = (2 * P) * m
    BY <1>1, <1>2, PowerOfSum
  <1>4. q \in Nat /\ r \in 0..(P - 1) /\ x = P * q + r
    <2> HIDE DEF P
    <2>1. x % P \in 0..(P - 1)
      BY <1>2
    <2>2. QED
      BY <1>2, <2>1, Divided
  <1>5. OddAt(x, j) <=> q % 2 = 1
    BY DEF OddAt
  <1> HIDE DEF m, q, r
  <1>6. x + Power(2, k) = P * (q + 2 * m) + r
    <2> HIDE DEF P
    <2>1. P * (q + 2 * m) = P * q + P * (2 * m)
      BY <1>2, <1>4, Distributed
    <2>2. P * (2 * m) = (2 * P) * m /\ P * (2 * m) \in Nat /\ P * q \in Nat
      BY <1>2, <1>4
    <2>3. QED
      BY <1>2, <1>3, <1>4, <2>1, <2>2
  <1>7. (x + Power(2, k)) \div P = q + 2 * m
    <2> HIDE DEF P
    <2> DEFINE u == q + 2 * m
    <2>1. u \in Nat
      BY <1>2, <1>4
    <2>2. x + Power(2, k) = P * u + r
      BY <1>6
    <2> HIDE DEF u
    <2>3. (x + Power(2, k)) \div P = u
      BY <1>2, <1>4, <2>1, <2>2, DividedOnce
    <2>4. QED
      BY <2>3 DEF u
  <1>8. (q + 2 * m) % 2 = q % 2
    BY <1>2, <1>4
  <1>9. QED
    BY <1>5, <1>7, <1>8 DEF OddAt

\* Less than a power of two has no digit at its place, and gets one with it.
LEMMA TopDigit ==
    ASSUME NEW k \in Nat, NEW x \in 0..(Power(2, k) - 1)
    PROVE  ~ OddAt(x, k) /\ OddAt(x + Power(2, k), k)
  <1> DEFINE P == Power(2, k)
  <1>1. P \in Nat \ {0} /\ x \in 0..(P - 1)
    BY PowerNext
  <1>2. OddAt(x, k) <=> (x \div P) % 2 = 1
    BY DEF OddAt
  <1>3. OddAt(x + P, k) <=> ((x + P) \div P) % 2 = 1
    BY DEF OddAt
  <1> HIDE DEF P
  <1>4. (P * 0 + x) \div P = 0 /\ (P * 1 + x) \div P = 1
    BY <1>1, DividedOnce
  <1>5. P * 0 + x = x /\ P * 1 + x = x + P
    BY <1>1
  <1>6. QED
    BY <1>2, <1>3, <1>4, <1>5 DEF P

\* low is a table of the lowest digits of the exclusive or of a and b.
Xored(low, a, b) ==
    low = [k \in 0..HalfBits |->
              IF k = 0 THEN 0
              ELSE low[k - 1] + (IF OddAt(a, k - 1) <=> OddAt(b, k - 1) THEN 0
                                 ELSE Power(2, k - 1))]

\* The assumption on the widths, one by one.
LEMMA WidthsAre ==
    /\ Radix \in Nat \ {0} /\ PayloadChars \in Nat \ {0}
    /\ PayloadBits \in Nat /\ LenBits \in Nat /\ SequenceBits \in Nat /\ VersionBits \in Nat
    /\ ChecksumBits \in Nat /\ HalfBits \in Nat /\ Rounds \in Nat
    /\ Power(Radix, PayloadChars) <= Power(2, PayloadBits)
    /\ PayloadChars < Power(2, LenBits)
  BY WidthAssumption

LEMMA XorIs ==
    ASSUME NEW a, NEW b
    PROVE  \E low \in [0..HalfBits -> Nat] : Xored(low, a, b) /\ Xor(a, b) = low[HalfBits]
  <1> DEFINE F == CHOOSE low : Xored(low, a, b)
             w(k) == IF OddAt(a, k - 1) <=> OddAt(b, k - 1) THEN 0 ELSE Power(2, k - 1)
             step == [k \in 1..HalfBits |-> [y \in Nat |-> y + w(k)]]
  <1>0. HalfBits \in Nat
    BY WidthsAre
  <1>1. \A k \in 1..HalfBits : w(k) \in Nat
    <2>1. \A k \in 1..HalfBits : k - 1 \in Nat
      BY <1>0
    <2>2. QED
      BY <2>1, PowerNext
  <1> HIDE DEF w
  <1>2. step \in [1..HalfBits -> [Nat -> Nat]]
    BY <1>1
  <1>3. \E low \in [0..HalfBits -> Nat] : StepsFrom(low, HalfBits, 0, step)
    <2> HIDE DEF step
    <2>1. QED
      BY <1>0, <1>2, TableOfSteps
  <1>4. PICK low \in [0..HalfBits -> Nat] : StepsFrom(low, HalfBits, 0, step)
    BY <1>3
  <1>5. low = [k \in 0..HalfBits |-> IF k = 0 THEN 0 ELSE step[k][low[k - 1]]]
    BY <1>4 DEF StepsFrom
  <1>6. \A k \in 0..HalfBits : k # 0 => step[k][low[k - 1]] = low[k - 1] + w(k)
    <2>1. \A k \in 0..HalfBits : k # 0 => k - 1 \in 0..HalfBits /\ k \in 1..HalfBits
      BY <1>0
    <2>2. QED
      BY <2>1
  <1> HIDE DEF step
  <1>7. low = [k \in 0..HalfBits |-> IF k = 0 THEN 0 ELSE low[k - 1] + w(k)]
    BY <1>5, <1>6
  <1>8. Xored(low, a, b)
    BY <1>7 DEF Xored, w
  <1>9. Xored(F, a, b)
    BY <1>8
  <1>10. Xor(a, b) = F[HalfBits]
    BY DEF Xor, Xored
  <1> HIDE DEF F
  <1> DEFINE A == {k \in 0..HalfBits : F[k] = low[k]}
  <1>11. 0 \in A
    BY <1>0, <1>8, <1>9 DEF Xored
  <1>12. ASSUME NEW k \in 0..(HalfBits - 1), k \in A PROVE k + 1 \in A
    <2>1. k + 1 \in 0..HalfBits /\ k + 1 # 0 /\ (k + 1) - 1 = k
      BY <1>0
    <2>2. F[k + 1] = F[k] + w(k + 1)
      BY <1>9, <2>1 DEF Xored, w
    <2>3. low[k + 1] = low[k] + w(k + 1)
      BY <1>7, <2>1
    <2>4. QED
      BY <1>12, <2>1, <2>2, <2>3
  <1>13. 0..HalfBits \subseteq A
    <2> HIDE DEF A
    <2>1. QED
      BY <1>0, <1>11, <1>12, CountUp
  <1>14. F[HalfBits] = low[HalfBits]
    BY <1>0, <1>13
  <1>15. QED
    BY <1>8, <1>10, <1>14

\* The digits of the exclusive or.
LEMMA DigitsOfXor ==
    ASSUME NEW a, NEW b
    PROVE  /\ Xor(a, b) \in 0..(Power(2, HalfBits) - 1)
           /\ \A j \in 0..(HalfBits - 1) :
                 OddAt(Xor(a, b), j) <=> ~ (OddAt(a, j) <=> OddAt(b, j))
  <1>0. HalfBits \in Nat
    BY WidthsAre
  <1>1. PICK low \in [0..HalfBits -> Nat] : Xored(low, a, b) /\ Xor(a, b) = low[HalfBits]
    BY XorIs
  <1> DEFINE Is(x, k) == /\ x \in 0..(Power(2, k) - 1)
                         /\ \A j \in 0..(k - 1) :
                               OddAt(x, j) <=> ~ (OddAt(a, j) <=> OddAt(b, j))
             A == {k \in 0..HalfBits : Is(low[k], k)}
  <1>2. 0 \in A
    <2>1. low[0] = 0 /\ Power(2, 0) = 1
      BY <1>0, <1>1, PowerNext DEF Xored
    <2>2. QED
      BY <1>0, <2>1
  <1>3. ASSUME NEW k \in 0..(HalfBits - 1), k \in A PROVE k + 1 \in A
    <2>1. k \in Nat /\ k + 1 \in 0..HalfBits /\ k + 1 # 0 /\ (k + 1) - 1 = k
      BY <1>0
    <2> DEFINE x == low[k]
               P == Power(2, k)
    <2>2. x \in 0..(P - 1) /\ \A j \in 0..(k - 1) :
                                 OddAt(x, j) <=> ~ (OddAt(a, j) <=> OddAt(b, j))
      BY <1>3
    <2>3. P \in Nat \ {0} /\ Power(2, k + 1) = 2 * P
      BY <2>1, PowerNext
    <2>4. low[k + 1] = x + (IF OddAt(a, k) <=> OddAt(b, k) THEN 0 ELSE P)
      BY <1>1, <2>1 DEF Xored
    <2>5. ~ OddAt(x, k) /\ OddAt(x + P, k)
      BY <2>1, <2>2, TopDigit
    <2>6. \A j \in 0..(k - 1) : OddAt(x + P, j) <=> OddAt(x, j)
      <3>1. x \in Nat
        BY <2>2, <2>3
      <3> HIDE DEF x
      <3>2. QED
        BY <2>1, <3>1, DigitsBelow
    <2>7. \A j \in 0..((k + 1) - 1) : j = k \/ j \in 0..(k - 1)
      BY <2>1
    <2> HIDE DEF x, P
    <2>8. Is(low[k + 1], k + 1)
      <3>1. CASE OddAt(a, k) <=> OddAt(b, k)
        <4>1. low[k + 1] = x
          BY <2>2, <2>3, <2>4, <3>1
        <4>2. x \in 0..(2 * P - 1)
          BY <2>2, <2>3
        <4>3. QED
          BY <2>2, <2>3, <2>5, <2>7, <3>1, <4>1, <4>2
      <3>2. CASE ~ (OddAt(a, k) <=> OddAt(b, k))
        <4>1. low[k + 1] = x + P
          BY <2>4, <3>2
        <4>2. x + P \in 0..(2 * P - 1)
          BY <2>2, <2>3
        <4>3. QED
          BY <2>2, <2>3, <2>5, <2>6, <2>7, <3>2, <4>1, <4>2
      <3>3. QED
        BY <3>1, <3>2
    <2> HIDE DEF Is
    <2>9. QED
      BY <2>1, <2>8
  <1>4. 0..HalfBits \subseteq A
    <2> HIDE DEF A
    <2>1. QED
      BY <1>0, <1>2, <1>3, CountUp
  <1>5. Is(low[HalfBits], HalfBits)
    BY <1>0, <1>4
  <1>6. QED
    BY <1>1, <1>5

\* Applied twice, the exclusive or gives back what it was applied to.
LEMMA XorTwice ==
    ASSUME NEW a \in 0..(Power(2, HalfBits) - 1), NEW b
    PROVE  Xor(Xor(a, b), b) = a
  <1> DEFINE x == Xor(a, b)
  <1>0. HalfBits \in Nat /\ a \in Nat /\ Power(2, HalfBits) \in Nat \ {0}
    <2>1. HalfBits \in Nat
      BY WidthsAre
    <2>2. Power(2, HalfBits) \in Nat \ {0}
      BY <2>1, PowerNext
    <2>3. QED
      BY <2>1, <2>2
  <1>1. PICK low \in [0..HalfBits -> Nat] : Xored(low, x, b) /\ Xor(x, b) = low[HalfBits]
    BY XorIs
  <1>2. \A j \in 0..(HalfBits - 1) : OddAt(x, j) <=> ~ (OddAt(a, j) <=> OddAt(b, j))
    BY DigitsOfXor
  <1> HIDE DEF x
  <1> DEFINE A == {k \in 0..HalfBits : low[k] = a % Power(2, k)}
  <1>3. 0 \in A
    <2>1. low[0] = 0 /\ Power(2, 0) = 1
      BY <1>0, <1>1, PowerNext DEF Xored
    <2>2. a % 1 = 0
      BY <1>0
    <2>3. QED
      BY <1>0, <2>1, <2>2
  <1>4. ASSUME NEW k \in 0..(HalfBits - 1), k \in A PROVE k + 1 \in A
    <2>1. k \in Nat /\ k + 1 \in 0..HalfBits /\ k + 1 # 0 /\ (k + 1) - 1 = k
      BY <1>0
    <2>2. low[k + 1] = low[k] + (IF OddAt(x, k) <=> OddAt(b, k) THEN 0 ELSE Power(2, k))
      BY <1>1, <2>1 DEF Xored
    <2>3. (OddAt(x, k) <=> OddAt(b, k)) <=> ~ OddAt(a, k)
      BY <1>2
    <2>4. low[k] = a % Power(2, k)
      BY <1>4
    <2>5. a % Power(2, k + 1) = (a % Power(2, k)) + (IF OddAt(a, k) THEN Power(2, k) ELSE 0)
      BY <1>0, <2>1, LowBits
    <2>6. low[k + 1] = a % Power(2, k + 1)
      <3>1. CASE OddAt(a, k)
        BY <2>2, <2>3, <2>4, <2>5, <3>1
      <3>2. CASE ~ OddAt(a, k)
        BY <2>2, <2>3, <2>4, <2>5, <3>2
      <3>3. QED
        BY <3>1, <3>2
    <2>7. QED
      BY <2>1, <2>6
  <1>5. 0..HalfBits \subseteq A
    <2> HIDE DEF A
    <2>1. QED
      BY <1>0, <1>3, <1>4, CountUp
  <1>6. low[HalfBits] = a % Power(2, HalfBits)
    BY <1>0, <1>5
  <1>7. a % Power(2, HalfBits) = a
    <2> DEFINE P == Power(2, HalfBits)
    <2>1. P \in Nat \ {0} /\ a \in 0..(P - 1)
      BY <1>0
    <2> HIDE DEF P
    <2>2. (P * 0 + a) % P = a /\ P * 0 + a = a
      BY <2>1, DividedOnce
    <2>3. QED
      BY <2>2 DEF P
  <1>8. QED
    BY <1>1, <1>6, <1>7 DEF x

-----------------------------------------------------------------------------
(* The permutation.                                                        *)

Half == 0..(Power(2, HalfBits) - 1)

Words == 0..(Power(2, 2 * HalfBits) - 1)

\* A word has two halves, and two halves make a word.
LEMMA WordsAreHalves ==
    /\ \A v \in Words : Halves(v) \in Half \X Half /\ Joined(Halves(v)) = v
    /\ \A h \in Half \X Half : Joined(h) \in Words /\ Halves(Joined(h)) = h
  <1> DEFINE P == Power(2, HalfBits)
  <1>1. HalfBits \in Nat /\ P \in Nat \ {0} /\ Power(2, 2 * HalfBits) = P * P
    <2>1. HalfBits \in Nat /\ 2 * HalfBits = HalfBits + HalfBits
      BY WidthsAre
    <2>2. QED
      BY <2>1, PowerNext, PowerOfSum
  <1>2. \A v : Halves(v) = <<v \div P, v % P>>
    BY DEF Halves
  <1>3. \A h : Joined(h) = h[1] * P + h[2]
    BY DEF Joined
  <1>4. Half = 0..(P - 1) /\ Words = 0..(P * P - 1)
    BY <1>1 DEF Half, Words
  <1> HIDE DEF P
  <1>5. ASSUME NEW v \in Words
        PROVE  Halves(v) \in Half \X Half /\ Joined(Halves(v)) = v
    <2>1. v \in Nat /\ v < P * P
      BY <1>1, <1>4, <1>5
    <2> DEFINE q == v \div P
               r == v % P
    <2>2. q \in Nat /\ r \in 0..(P - 1) /\ v = P * q + r
      <3>1. v % P \in 0..(P - 1)
        BY <1>1, <2>1
      <3>2. QED
        BY <1>1, <2>1, <3>1, Divided
    <2>3. Halves(v) = <<q, r>> /\ Joined(<<q, r>>) = q * P + r
      BY <1>2, <1>3
    <2> HIDE DEF q, r
    <2>4. q < P
      <3>1. SUFFICES ASSUME P <= q PROVE FALSE
        BY <1>1, <2>2
      <3>2. P * P <= q * P /\ q * P = P * q
        BY <1>1, <2>2, <3>1, Products
      <3>3. P * P \in Nat /\ P * q \in Nat
        BY <1>1, <2>2
      <3>4. QED
        BY <2>1, <2>2, <3>2, <3>3
    <2>5. q * P = P * q
      BY <1>1, <2>2
    <2>6. QED
      BY <1>1, <1>4, <2>2, <2>3, <2>4, <2>5
  <1>6. ASSUME NEW h \in Half \X Half
        PROVE  Joined(h) \in Words /\ Halves(Joined(h)) = h
    <2> DEFINE q == h[1]
               r == h[2]
    <2>1. q \in 0..(P - 1) /\ r \in 0..(P - 1) /\ h = <<q, r>>
      BY <1>4, <1>6
    <2>2. Joined(h) = q * P + r
      BY <1>3
    <2> HIDE DEF q, r
    <2>3. q * P = P * q /\ P * q \in Nat
      BY <1>1, <2>1
    <2>4. (P * q + r) \div P = q /\ (P * q + r) % P = r
      <3>1. q \in Nat
        BY <1>1, <2>1
      <3>2. QED
        BY <1>1, <2>1, <3>1, DividedOnce
    <2>5. Halves(Joined(h)) = <<q, r>>
      BY <1>2, <2>2, <2>3, <2>4
    <2>6. Joined(h) \in 0..(P * P - 1)
      <3>1. (q + 1) * P <= P * P
        BY <1>1, <2>1, Products
      <3>2. (q + 1) * P = q * P + P
        BY <1>1, <2>1
      <3>3. QED
        BY <1>1, <2>1, <2>2, <2>3, <3>1, <3>2
    <2>7. QED
      BY <1>4, <2>1, <2>5, <2>6
  <1>7. QED
    BY <1>5, <1>6

\* A round can be undone.
LEMMA RoundUndone ==
    ASSUME NEW h \in Half \X Half, NEW nonce, NEW round
    PROVE  Mixed(h, nonce, round) \in Half \X Half /\ Unmixed(Mixed(h, nonce, round), nonce, round) = h
  <1> DEFINE a == h[1]
             b == h[2]
             f == RoundFunction(nonce, round, b)
             x == Xor(a, f)
  <1>1. a \in Half /\ b \in Half /\ h = <<a, b>>
    OBVIOUS
  <1>2. x \in Half /\ Xor(x, f) = a
    BY <1>1, DigitsOfXor, XorTwice DEF Half
  <1>3. Mixed(h, nonce, round) = <<b, x>>
    BY DEF Mixed
  <1>4. Unmixed(<<b, x>>, nonce, round) = <<Xor(x, f), b>>
    BY DEF Unmixed
  <1> HIDE DEF a, b, f, x
  <1>5. QED
    BY <1>1, <1>2, <1>3, <1>4

\* h is a table of the halves after each round, forth; and back.
Rounded(h, value, nonce) ==
    h = [r \in 0..Rounds |-> IF r = 0 THEN Halves(value) ELSE Mixed(h[r - 1], nonce, r - 1)]

Unrounded(h, value, nonce) ==
    h = [r \in 0..Rounds |-> IF r = 0 THEN Halves(value) ELSE Unmixed(h[r - 1], nonce, Rounds - r)]

LEMMA PermuteIs ==
    ASSUME NEW value \in Words, NEW nonce
    PROVE  \E h \in [0..Rounds -> Half \X Half] :
               Rounded(h, value, nonce) /\ Permute(value, nonce) = Joined(h[Rounds])
  <1> DEFINE F == CHOOSE h : Rounded(h, value, nonce)
             S == Half \X Half
             step == [r \in 1..Rounds |-> [y \in S |-> Mixed(y, nonce, r - 1)]]
  <1>0. Rounds \in Nat
    BY WidthsAre
  <1>1. Halves(value) \in S
    BY WordsAreHalves
  <1>2. step \in [1..Rounds -> [S -> S]]
    <2>1. \A r \in 1..Rounds : \A y \in S : Mixed(y, nonce, r - 1) \in S
      BY RoundUndone
    <2>2. QED
      BY <2>1
  <1>3. \E h \in [0..Rounds -> S] : StepsFrom(h, Rounds, Halves(value), step)
    <2> HIDE DEF step, S
    <2>1. QED
      BY <1>0, <1>1, <1>2, TableOfSteps
  <1>4. PICK h \in [0..Rounds -> S] : StepsFrom(h, Rounds, Halves(value), step)
    BY <1>3
  <1>5. h = [r \in 0..Rounds |-> IF r = 0 THEN Halves(value) ELSE step[r][h[r - 1]]]
    BY <1>4 DEF StepsFrom
  <1>6. \A r \in 0..Rounds : r # 0 => step[r][h[r - 1]] = Mixed(h[r - 1], nonce, r - 1)
    <2>1. \A r \in 0..Rounds : r # 0 => r - 1 \in 0..Rounds /\ r \in 1..Rounds
      BY <1>0
    <2>2. QED
      BY <2>1
  <1> HIDE DEF step
  <1>7. Rounded(h, value, nonce)
    BY <1>5, <1>6 DEF Rounded
  <1>8. Rounded(F, value, nonce)
    BY <1>7
  <1>9. Permute(value, nonce) = Joined(F[Rounds])
    BY DEF Permute, Rounded
  <1> HIDE DEF F
  <1> DEFINE A == {r \in 0..Rounds : F[r] = h[r]}
  <1>10. 0 \in A
    BY <1>0, <1>7, <1>8 DEF Rounded
  <1>11. ASSUME NEW r \in 0..(Rounds - 1), r \in A PROVE r + 1 \in A
    <2>1. r + 1 \in 0..Rounds /\ r + 1 # 0 /\ (r + 1) - 1 = r
      BY <1>0
    <2>2. F[r + 1] = Mixed(F[r], nonce, r) /\ h[r + 1] = Mixed(h[r], nonce, r)
      BY <1>7, <1>8, <2>1 DEF Rounded
    <2>3. F[r] = h[r]
      BY <1>11
    <2>4. QED
      BY <2>1, <2>2, <2>3
  <1>12. 0..Rounds \subseteq A
    <2> HIDE DEF A
    <2>1. QED
      BY <1>0, <1>10, <1>11, CountUp
  <1>13. F[Rounds] = h[Rounds]
    BY <1>0, <1>12
  <1>14. QED
    BY <1>7, <1>9, <1>13

\* unpermute64 undoes permute64, under the same nonce.
LEMMA PermutedBack ==
    ASSUME NEW value \in Words, NEW nonce
    PROVE  Permute(value, nonce) \in Words /\ Unpermute(Permute(value, nonce), nonce) = value
  <1>0. Rounds \in Nat
    BY WidthsAre
  <1>1. PICK h \in [0..Rounds -> Half \X Half] :
            Rounded(h, value, nonce) /\ Permute(value, nonce) = Joined(h[Rounds])
    BY PermuteIs
  <1> DEFINE amount == Permute(value, nonce)
             G == CHOOSE g : Unrounded(g, amount, nonce)
             u == [r \in 0..Rounds |-> h[Rounds - r]]
  <1>2. amount \in Words /\ Halves(amount) = h[Rounds]
    BY <1>0, <1>1, WordsAreHalves
  <1>3. \A r \in 1..Rounds : h[Rounds - r] = Unmixed(h[Rounds - (r - 1)], nonce, Rounds - r)
    <2>1. SUFFICES ASSUME NEW r \in 1..Rounds
                   PROVE  h[Rounds - r] = Unmixed(h[Rounds - (r - 1)], nonce, Rounds - r)
      OBVIOUS
    <2> DEFINE d == Rounds - (r - 1)
    <2>2. d \in 0..Rounds /\ d # 0 /\ d - 1 = Rounds - r /\ Rounds - r \in 0..Rounds
      BY <1>0
    <2> HIDE DEF d
    <2>3. h[d] = Mixed(h[d - 1], nonce, d - 1)
      BY <1>1, <2>2 DEF Rounded
    <2>4. h[d - 1] \in Half \X Half
      BY <1>1, <2>2
    <2>5. Unmixed(Mixed(h[d - 1], nonce, d - 1), nonce, d - 1) = h[d - 1]
      BY <2>4, RoundUndone
    <2>6. h[d - 1] = Unmixed(h[d], nonce, d - 1)
      BY <2>3, <2>5
    <2>7. QED
      BY <2>2, <2>6 DEF d
  <1>4. Unrounded(u, amount, nonce)
    <2>1. \A r \in 0..Rounds : r # 0 => r \in 1..Rounds /\ r - 1 \in 0..Rounds
      BY <1>0
    <2>2. \A r \in 0..Rounds :
             u[r] = IF r = 0 THEN Halves(amount) ELSE Unmixed(u[r - 1], nonce, Rounds - r)
      <3>1. u[0] = h[Rounds]
        BY <1>0
      <3>2. ASSUME NEW r \in 0..Rounds, r # 0
            PROVE  u[r] = Unmixed(u[r - 1], nonce, Rounds - r)
        BY <1>3, <2>1, <3>2
      <3> HIDE DEF u
      <3>3. QED
        BY <1>2, <3>1, <3>2
    <2>3. u = [r \in 0..Rounds |-> u[r]]
      OBVIOUS
    <2> HIDE DEF u
    <2>4. QED
      BY <2>2, <2>3 DEF Unrounded
  <1>5. Unrounded(G, amount, nonce)
    <2> HIDE DEF u
    <2>1. QED
      BY <1>4
  <1>6. Unpermute(amount, nonce) = Joined(G[Rounds])
    BY DEF Unpermute, Unrounded
  <1> HIDE DEF G, amount
  <1> DEFINE A == {r \in 0..Rounds : G[r] = u[r]}
  <1>7. 0 \in A
    <2> HIDE DEF u
    <2>1. G[0] = Halves(amount) /\ u[0] = Halves(amount)
      BY <1>0, <1>4, <1>5 DEF Unrounded
    <2>2. QED
      BY <1>0, <2>1
  <1>8. ASSUME NEW r \in 0..(Rounds - 1), r \in A PROVE r + 1 \in A
    <2> HIDE DEF u
    <2>1. r + 1 \in 0..Rounds /\ r + 1 # 0 /\ (r + 1) - 1 = r
      BY <1>0
    <2>2. G[r + 1] = Unmixed(G[r], nonce, Rounds - (r + 1))
      BY <1>5, <2>1 DEF Unrounded
    <2>3. u[r + 1] = Unmixed(u[r], nonce, Rounds - (r + 1))
      BY <1>4, <2>1 DEF Unrounded
    <2>4. G[r] = u[r]
      BY <1>8
    <2>5. QED
      BY <2>1, <2>2, <2>3, <2>4
  <1>9. 0..Rounds \subseteq A
    <2> HIDE DEF A
    <2>1. QED
      BY <1>0, <1>7, <1>8, CountUp
  <1>10. G[Rounds] = u[Rounds]
    BY <1>0, <1>9
  <1>11. u[Rounds] = h[0]
    BY <1>0
  <1>12. h[0] = Halves(value)
    BY <1>0, <1>1 DEF Rounded
  <1>13. Unpermute(amount, nonce) = value
    BY <1>6, <1>10, <1>11, <1>12, WordsAreHalves
  <1>14. QED
    BY <1>2, <1>13 DEF amount

-----------------------------------------------------------------------------
(* A packet and its word.                                                  *)

Letters == 0..(Radix - 1)

\* out is a table of the numbers that the first letters of a chunk make.
Packed(out, chunk) ==
    out = [k \in 0..Len(chunk) |-> IF k = 0 THEN 0 ELSE out[k - 1] * Radix + chunk[k]]

LEMMA PackIs ==
    ASSUME NEW chunk \in Seq(Letters)
    PROVE  \E out \in [0..Len(chunk) -> Nat] :
               Packed(out, chunk) /\ PackChunk(chunk) = out[Len(chunk)]
  <1> DEFINE n == Len(chunk)
             F == CHOOSE out : Packed(out, chunk)
             step == [k \in 1..n |-> [y \in Nat |-> y * Radix + chunk[k]]]
  <1>0. n \in Nat /\ Radix \in Nat \ {0} /\ \A k \in 1..n : chunk[k] \in Nat
    BY WidthsAre DEF Letters
  <1>1. step \in [1..n -> [Nat -> Nat]]
    <2>1. \A k \in 1..n : \A y \in Nat : y * Radix + chunk[k] \in Nat
      <3>1. \A y \in Nat : y * Radix \in Nat
        BY <1>0
      <3>2. QED
        BY <1>0, <3>1
    <2>2. QED
      BY <2>1
  <1>2. \E out \in [0..n -> Nat] : StepsFrom(out, n, 0, step)
    <2> HIDE DEF step, n
    <2>1. QED
      BY <1>0, <1>1, TableOfSteps
  <1>3. PICK out \in [0..n -> Nat] : StepsFrom(out, n, 0, step)
    BY <1>2
  <1>4. out = [k \in 0..n |-> IF k = 0 THEN 0 ELSE step[k][out[k - 1]]]
    BY <1>3 DEF StepsFrom
  <1>5. \A k \in 0..n : k # 0 => step[k][out[k - 1]] = out[k - 1] * Radix + chunk[k]
    <2>1. \A k \in 0..n : k # 0 => k - 1 \in 0..n /\ k \in 1..n
      BY <1>0
    <2>2. QED
      BY <2>1
  <1> HIDE DEF step
  <1>6. Packed(out, chunk)
    BY <1>4, <1>5 DEF Packed
  <1>7. Packed(F, chunk)
    BY <1>6
  <1>8. PackChunk(chunk) = F[n]
    BY DEF PackChunk, Packed
  <1> HIDE DEF F
  <1> DEFINE A == {k \in 0..n : F[k] = out[k]}
  <1>9. 0 \in A
    BY <1>0, <1>6, <1>7 DEF Packed
  <1>10. ASSUME NEW k \in 0..(n - 1), k \in A PROVE k + 1 \in A
    <2>1. k + 1 \in 0..n /\ k + 1 # 0 /\ (k + 1) - 1 = k
      BY <1>0
    <2>2. F[k + 1] = F[k] * Radix + chunk[k + 1] /\ out[k + 1] = out[k] * Radix + chunk[k + 1]
      BY <1>6, <1>7, <2>1 DEF Packed
    <2>3. F[k] = out[k]
      BY <1>10
    <2>4. QED
      BY <2>1, <2>2, <2>3
  <1>11. 0..n \subseteq A
    <2> HIDE DEF A, n
    <2>1. QED
      BY <1>0, <1>9, <1>10, CountUp
  <1>12. F[n] = out[n]
    BY <1>0, <1>11
  <1>13. QED
    BY <1>6, <1>8, <1>12

\* A chunk is packed into less than the power of its length, and comes back.
LEMMA ChunkUnpacked ==
    ASSUME NEW chunk \in Seq(Letters)
    PROVE  /\ PackChunk(chunk) \in 0..(Power(Radix, Len(chunk)) - 1)
           /\ UnpackChunk(PackChunk(chunk), Len(chunk)) = chunk
  <1> DEFINE n == Len(chunk)
  <1>0. n \in Nat /\ Radix \in Nat \ {0} /\ \A k \in 1..n : chunk[k] \in 0..(Radix - 1)
    BY WidthsAre DEF Letters
  <1>1. PICK out \in [0..n -> Nat] : Packed(out, chunk) /\ PackChunk(chunk) = out[n]
    BY PackIs
  <1>2. \A k \in 0..(n - 1) : /\ k \in Nat /\ k + 1 \in 1..n /\ out[k] \in Nat
                             /\ out[k + 1] = out[k] * Radix + chunk[k + 1]
    <2>1. \A k \in 0..(n - 1) : k + 1 \in 0..n /\ k \in 0..n /\ k + 1 # 0 /\ (k + 1) - 1 = k
      BY <1>0
    <2>2. SUFFICES ASSUME NEW k \in 0..(n - 1)
                   PROVE  /\ k \in Nat /\ k + 1 \in 1..n /\ out[k] \in Nat
                          /\ out[k + 1] = out[k] * Radix + chunk[k + 1]
      OBVIOUS
    <2>3. k \in Nat /\ k + 1 \in 1..n /\ out[k] \in Nat
      <3>1. out \in [0..n -> Nat]
        BY <1>1
      <3> HIDE DEF n
      <3>2. QED
        BY <1>0, <2>1, <3>1
    <2>4. out[k + 1] = out[(k + 1) - 1] * Radix + chunk[k + 1]
      BY <1>1, <2>1 DEF Packed
    <2>5. QED
      BY <2>1, <2>3, <2>4
  <1>3. out[0] = 0
    BY <1>0, <1>1 DEF Packed
  <1> HIDE DEF n
  <1>4. \A k \in 0..n : out[k] < Power(Radix, k)
    <2> DEFINE A == {k \in 0..n : out[k] < Power(Radix, k)}
    <2>1. 0 \in A
      <3>1. Power(Radix, 0) = 1
        BY <1>0, PowerNext
      <3>2. QED
        BY <1>0, <1>3, <3>1
    <2>2. ASSUME NEW k \in 0..(n - 1), k \in A PROVE k + 1 \in A
      <3> DEFINE P == Power(Radix, k)
                 v == out[k]
                 c == chunk[k + 1]
      <3>1. P \in Nat /\ Power(Radix, k + 1) = Radix * P
        BY <1>0, <1>2, PowerNext
      <3>2. v \in Nat /\ v < P /\ out[k + 1] = v * Radix + c
        BY <1>2, <2>2
      <3>3. c \in 0..(Radix - 1)
        BY <1>0, <1>2
      <3>4. k + 1 \in 0..n
        BY <1>0
      <3> HIDE DEF P, v, c
      <3>5. (v + 1) * Radix <= P * Radix
        BY <1>0, <3>1, <3>2, Products
      <3>6. (v + 1) * Radix = v * Radix + Radix /\ P * Radix = Radix * P /\ v * Radix \in Nat
        BY <1>0, <3>1, <3>2
      <3>7. out[k + 1] < Power(Radix, k + 1)
        <4> DEFINE z == v * Radix
                   w == Radix * P
        <4>1. w \in Nat /\ z \in Nat /\ z + Radix <= w /\ out[k + 1] = z + c /\ Power(Radix, k + 1) = w
          BY <1>0, <3>1, <3>2, <3>5, <3>6
        <4> HIDE DEF z, w
        <4>2. QED
          BY <1>0, <3>3, <4>1
      <3>8. QED
        BY <3>4, <3>7
    <2>3. 0..n \subseteq A
      <3> HIDE DEF A
      <3>1. QED
        BY <1>0, <2>1, <2>2, CountUp
    <2>4. QED
      BY <2>3
  <1>5. ASSUME NEW i \in 1..n
        PROVE  (out[n] \div Power(Radix, n - i)) % Radix = chunk[i]
    <2> DEFINE y == out[i]
               Is(m) == \E rest \in 0..(Power(Radix, m) - 1) :
                           out[i + m] = Power(Radix, m) * y + rest
               A == {m \in 0..(n - i) : Is(m)}
    <2>0. i \in Nat /\ n - i \in Nat /\ i \in 0..n /\ i - 1 \in 0..(n - 1) /\ (i - 1) + 1 = i
      BY <1>0
    <2>1. y \in Nat
      BY <1>1, <2>0 DEF n
    <2>2. 0 \in A
      <3>1. Power(Radix, 0) = 1
        BY <1>0, PowerNext
      <3>2. out[i + 0] = Power(Radix, 0) * y + 0 /\ 0 \in 0..(Power(Radix, 0) - 1)
        BY <2>0, <2>1, <3>1
      <3> HIDE DEF y
      <3>3. Is(0)
        BY <3>2
      <3>4. QED
        BY <2>0, <3>3
    <2>3. ASSUME NEW m \in 0..((n - i) - 1), m \in A PROVE m + 1 \in A
      <3> DEFINE P == Power(Radix, m)
                 c == chunk[i + m + 1]
      <3>0. /\ m \in Nat /\ i + m \in 0..(n - 1) /\ i + (m + 1) = (i + m) + 1
            /\ i + m + 1 = (i + m) + 1 /\ m + 1 \in 0..(n - i) /\ (i + m) + 1 \in 1..n
        BY <1>0, <2>0
      <3>1. P \in Nat \ {0} /\ Power(Radix, m + 1) = Radix * P
        BY <1>0, <3>0, PowerNext
      <3>2. PICK rest \in 0..(P - 1) : out[i + m] = P * y + rest
        BY <2>3
      <3>3. out[i + (m + 1)] = out[i + m] * Radix + c
        BY <1>2, <3>0
      <3>4. c \in 0..(Radix - 1)
        BY <1>0, <3>0
      <3> HIDE DEF P, c, y
      <3> DEFINE more == rest * Radix + c
      <3>5. (P * y + rest) * Radix = (Radix * P) * y + rest * Radix
        <4>1. P * y \in Nat /\ rest \in Nat
          BY <2>1, <3>1, <3>2
        <4>2. (P * y + rest) * Radix = (P * y) * Radix + rest * Radix
          BY <1>0, <4>1
        <4>3. (P * y) * Radix = (Radix * P) * y
          BY <1>0, <2>1, <3>1
        <4>4. QED
          BY <4>2, <4>3
      <3>6. more \in 0..(Radix * P - 1)
        <4>1. rest \in Nat /\ rest + 1 <= P
          BY <3>1, <3>2
        <4>2. (rest + 1) * Radix <= P * Radix
          BY <1>0, <3>1, <4>1, Products
        <4>3. (rest + 1) * Radix = rest * Radix + Radix /\ P * Radix = Radix * P
              /\ rest * Radix \in Nat /\ Radix * P \in Nat
          BY <1>0, <3>1, <4>1
        <4> DEFINE z == rest * Radix
                   w == Radix * P
        <4>4. w \in Nat /\ z \in Nat /\ z + Radix <= w /\ more = z + c
          BY <4>2, <4>3
        <4> HIDE DEF z
        <4>5. more \in 0..(w - 1)
          <5> HIDE DEF w, more
          <5>1. QED
            BY <1>0, <3>4, <4>4
        <4>6. QED
          BY <4>5
      <3>7. out[i + (m + 1)] = (Radix * P) * y + more
        <4>1. (Radix * P) * y \in Nat /\ rest * Radix \in Nat
          BY <1>0, <2>1, <3>1, <3>2
        <4>2. QED
          BY <3>2, <3>3, <3>4, <3>5, <4>1
      <3> HIDE DEF more
      <3>8. Is(m + 1)
        BY <3>1, <3>6, <3>7
      <3> HIDE DEF Is
      <3>9. QED
        BY <3>0, <3>8
    <2>4. 0..(n - i) \subseteq A
      <3> HIDE DEF A
      <3>1. QED
        BY <2>0, <2>2, <2>3, CountUp
    <2>5. Is(n - i)
      BY <2>0, <2>4
    <2> DEFINE Q == Power(Radix, n - i)
    <2>6. i + (n - i) = n
      BY <1>0, <2>0
    <2>7. PICK rest \in 0..(Q - 1) : out[n] = Q * y + rest
      BY <2>5, <2>6
    <2>8. Q \in Nat \ {0}
      BY <1>0, <2>0, PowerNext
    <2>9. out[n] \div Q = y
      <3> HIDE DEF Q, y
      <3>1. QED
        BY <2>1, <2>7, <2>8, DividedOnce
    <2>10. y % Radix = chunk[i]
      <3> DEFINE x == out[i - 1]
                 c == chunk[i]
      <3>1. x \in Nat /\ y = x * Radix + c
        BY <1>2, <2>0
      <3>2. c \in 0..(Radix - 1)
        BY <1>0
      <3> HIDE DEF x, y, c
      <3>3. y = Radix * x + c
        BY <1>0, <3>1
      <3>4. y % Radix = c
        <4>1. (Radix * x + c) % Radix = c
          BY <1>0, <3>1, <3>2, DividedOnce
        <4>2. QED
          BY <3>3, <4>1
      <3>5. QED
        BY <3>4 DEF c
    <2>11. QED
      BY <2>9, <2>10
  <1>6. n \in 0..n
    BY <1>0
  <1>7. PackChunk(chunk) \in 0..(Power(Radix, n) - 1)
    <2>1. out[n] \in Nat /\ out[n] < Power(Radix, n)
      BY <1>1, <1>4, <1>6 DEF n
    <2>2. Power(Radix, n) \in Nat
      BY <1>0, PowerNext
    <2>3. QED
      BY <1>1, <2>1, <2>2
  <1>8. UnpackChunk(PackChunk(chunk), n) = [i \in 1..n |-> chunk[i]]
    BY <1>1, <1>5 DEF UnpackChunk
  <1>9. chunk = [i \in 1..n |-> chunk[i]]
    BY DEF n
  <1>10. QED
    BY <1>7, <1>8, <1>9 DEF n

\* What is put at a shift, above what is less than it, is read there.
LEMMA FieldAt ==
    ASSUME NEW shift \in Nat, NEW bits \in Nat, NEW lo \in 0..(Power(2, shift) - 1),
           NEW v \in 0..(Power(2, bits) - 1), NEW hi \in Nat,
           NEW word, word = Power(2, shift) * (Power(2, bits) * hi + v) + lo
    PROVE  Field(word, shift, bits) = v
  <1> DEFINE P == Power(2, shift)
             B == Power(2, bits)
             x == B * hi + v
  <1>1. P \in Nat \ {0} /\ B \in Nat \ {0}
    BY PowerNext
  <1>2. lo \in 0..(P - 1) /\ v \in 0..(B - 1) /\ word = P * x + lo
    OBVIOUS
  <1>3. Field(word, shift, bits) = (word \div P) % B
    BY DEF Field
  <1> HIDE DEF P, B, x
  <1>4. B * hi + v \in Nat /\ (B * hi + v) % B = v
    BY <1>1, <1>2, DividedOnce
  <1>5. x \in Nat /\ x % B = v
    BY <1>4 DEF x
  <1>6. (P * x + lo) \div P = x
    BY <1>1, <1>2, <1>5, DividedOnce
  <1>7. QED
    BY <1>2, <1>3, <1>5, <1>6

\* A field above a number: what is below the next field, and the number as a
\* whole when it goes on above.
LEMMA FieldAbove ==
    ASSUME NEW P \in Nat \ {0}, NEW B \in Nat \ {0}, NEW lo \in 0..(P - 1),
           NEW v \in 0..(B - 1), NEW hi \in Nat
    PROVE  /\ P * v + lo \in 0..(P * B - 1)
           /\ P * (B * hi + v) + lo = (P * B) * hi + (P * v + lo)
  <1>1. v \in Nat /\ v + 1 <= B
    OBVIOUS
  <1>2. (v + 1) * P <= B * P
    BY <1>1, Products
  <1>3. (v + 1) * P = P * v + P /\ B * P = P * B /\ P * v \in Nat /\ P * B \in Nat
    BY <1>1
  <1>4. P * v + lo \in 0..(P * B - 1)
    <2> DEFINE z == P * v
               w == P * B
    <2>1. z \in Nat /\ w \in Nat /\ z + P <= w
      BY <1>2, <1>3
    <2> HIDE DEF z, w
    <2>2. z + lo \in 0..(w - 1)
      BY <2>1
    <2>3. QED
      BY <2>2 DEF z, w
  <1>5. P * (B * hi + v) = P * (B * hi) + P * v
    <2>1. B * hi \in Int /\ v \in Int /\ P \in Int
      BY <1>1
    <2>2. QED
      BY <2>1, Distributed
  <1>6. P * (B * hi) = (P * B) * hi /\ P * (B * hi) \in Nat
    OBVIOUS
  <1>7. QED
    BY <1>3, <1>4, <1>5, <1>6

\* A packet that encode_text_packets can make.
Sendable ==
    {p \in Packets : Len(p.chunk) <= PayloadChars /\ p.sequence <= LastSequence}

\* A packet fits its word, and the word gives it back.
LEMMA PacketComesBack ==
    ASSUME NEW packet \in Sendable
    PROVE  Word(packet) \in Words /\ FromWord(Word(packet)) = packet
  <1> DEFINE len   == Len(packet.chunk)
             pay   == PackChunk(packet.chunk)
             fin   == IF packet.final_packet THEN 1 ELSE 0
             seq   == packet.sequence
             P1    == Power(2, LenShift)
             P2    == Power(2, FinalShift)
             P3    == Power(2, SequenceShift)
             P4    == Power(2, VersionShift)
             P5    == Power(2, ChecksumShift)
             L     == Power(2, LenBits)
             S     == Power(2, SequenceBits)
             V     == Power(2, VersionBits)
             C     == Power(2, ChecksumBits)
             low2  == P1 * len + pay
             low3  == P2 * fin + low2
             low4  == P3 * seq + low3
             low5  == P4 * 0 + low4
             sum   == Checksum(low4)
             word  == P5 * sum + low5
  <1>1. /\ LenShift \in Nat /\ FinalShift \in Nat /\ SequenceShift \in Nat
        /\ VersionShift \in Nat /\ ChecksumShift \in Nat
        /\ LenBits \in Nat /\ SequenceBits \in Nat /\ VersionBits \in Nat /\ ChecksumBits \in Nat
        /\ FinalShift = LenShift + LenBits /\ SequenceShift = FinalShift + 1
        /\ VersionShift = SequenceShift + SequenceBits
        /\ ChecksumShift = VersionShift + VersionBits
        /\ 2 * HalfBits = ChecksumShift + ChecksumBits
        /\ LenShift = PayloadBits
    BY WidthsAre, WidthAssumption
       DEF LenShift, FinalShift, SequenceShift, VersionShift, ChecksumShift
  <1>2. /\ P1 \in Nat \ {0} /\ P2 \in Nat \ {0} /\ P3 \in Nat \ {0}
        /\ P4 \in Nat \ {0} /\ P5 \in Nat \ {0}
    BY <1>1, PowersOfTwo
  <1>3. L \in Nat \ {0} /\ S \in Nat \ {0} /\ V \in Nat \ {0} /\ C \in Nat \ {0}
    BY <1>1, PowersOfTwo
  <1>4. P2 = P1 * L /\ P4 = P3 * S /\ P5 = P4 * V /\ Power(2, 2 * HalfBits) = P5 * C
    <2>1. \A m, n \in Nat : Power(2, m + n) = Power(2, m) * Power(2, n)
      BY PowerOfSum
    <2>2. P2 = P1 * L
      BY <1>1, <2>1
    <2>3. P4 = P3 * S
      BY <1>1, <2>1
    <2>4. P5 = P4 * V
      BY <1>1, <2>1
    <2>5. Power(2, 2 * HalfBits) = P5 * C
      BY <1>1, <2>1
    <2>6. QED
      BY <2>2, <2>3, <2>4, <2>5
  <1>5. P3 = P2 * 2
    BY <1>1, <1>2, PowerNext
  <1>6. /\ packet.chunk \in Seq(Letters) /\ len \in Nat /\ len <= PayloadChars
        /\ packet.final_packet \in BOOLEAN /\ seq \in Nat /\ seq <= LastSequence
    BY DEF Sendable, Packets, Letters
  <1>7. pay \in 0..(Power(Radix, len) - 1) /\ UnpackChunk(pay, len) = packet.chunk
    BY <1>6, ChunkUnpacked
  <1>8. Power(Radix, len) \in Nat /\ Power(Radix, len) <= P1
    <2>1. Power(Radix, len) <= Power(Radix, PayloadChars)
      BY <1>6, WidthsAre, PowersRise
    <2>2. Power(Radix, len) \in Nat /\ Power(Radix, PayloadChars) \in Nat
      BY <1>6, WidthsAre, PowerNext
    <2>3. Power(Radix, PayloadChars) <= P1
      BY <1>1, WidthsAre
    <2>4. QED
      BY <1>2, <2>1, <2>2, <2>3
  <1>9. pay \in 0..(P1 - 1) /\ len \in 0..(L - 1) /\ fin \in 0..1 /\ seq \in 0..(S - 1)
    <2>1. len < L
      <3>1. PayloadChars \in Nat /\ PayloadChars < L
        BY WidthsAre
      <3> HIDE DEF len, L
      <3>2. QED
        BY <1>3, <1>6, <3>1
    <2>2. LastSequence = S - 1
      BY DEF LastSequence
    <2>3. pay \in 0..(P1 - 1)
      <3> DEFINE top == Power(Radix, len)
      <3>1. top \in Nat /\ top <= P1 /\ pay \in 0..(top - 1)
        BY <1>7, <1>8
      <3> HIDE DEF top, pay, P1
      <3>2. QED
        BY <1>2, <3>1
    <2>4. len \in 0..(L - 1) /\ seq \in 0..(S - 1)
      <3> HIDE DEF len, L, seq, S
      <3>1. QED
        BY <1>3, <1>6, <2>1, <2>2
    <2>5. fin \in 0..1
      OBVIOUS
    <2>6. QED
      BY <2>3, <2>4, <2>5
  <1>10. /\ low2 \in 0..(P2 - 1)
         /\ \A hi \in Nat : P1 * (L * hi + len) + pay = P2 * hi + low2
    <2> HIDE DEF P1, L, len, pay, P2
    <2>1. QED
      BY <1>2, <1>3, <1>4, <1>9, FieldAbove
  <1>11. /\ low3 \in 0..(P3 - 1)
         /\ \A hi \in Nat : P2 * (2 * hi + fin) + low2 = P3 * hi + low3
    <2>1. low2 \in 0..(P2 - 1) /\ 2 \in Nat \ {0} /\ fin \in 0..(2 - 1)
      BY <1>9, <1>10
    <2> HIDE DEF P2, low2, fin, P3
    <2>2. /\ P2 * fin + low2 \in 0..(P2 * 2 - 1)
          /\ \A hi \in Nat : P2 * (2 * hi + fin) + low2 = (P2 * 2) * hi + (P2 * fin + low2)
      BY <1>2, <2>1, FieldAbove
    <2>3. QED
      BY <1>5, <2>2
  <1>12. /\ low4 \in 0..(P4 - 1)
         /\ \A hi \in Nat : P3 * (S * hi + seq) + low3 = P4 * hi + low4
    <2>1. low3 \in 0..(P3 - 1)
      BY <1>11
    <2> HIDE DEF P3, S, low3, seq, P4
    <2>2. /\ P3 * seq + low3 \in 0..(P3 * S - 1)
          /\ \A hi \in Nat : P3 * (S * hi + seq) + low3 = (P3 * S) * hi + (P3 * seq + low3)
      BY <1>2, <1>3, <1>9, <2>1, FieldAbove
    <2>3. QED
      BY <1>4, <2>2
  <1>13. /\ low5 \in 0..(P5 - 1)
         /\ \A hi \in Nat : P4 * (V * hi + 0) + low4 = P5 * hi + low5
    <2>1. 0 \in 0..(V - 1) /\ low4 \in 0..(P4 - 1)
      BY <1>3, <1>12
    <2> HIDE DEF P4, V, low4, P5
    <2>2. /\ P4 * 0 + low4 \in 0..(P4 * V - 1)
          /\ \A hi \in Nat : P4 * (V * hi + 0) + low4 = (P4 * V) * hi + (P4 * 0 + low4)
      BY <1>2, <1>3, <2>1, FieldAbove
    <2>3. QED
      BY <1>4, <2>2
  <1>14. low5 = low4
    <2> HIDE DEF P4, low4
    <2>1. QED
      BY <1>2, <1>12
  <1>15. sum \in 0..(C - 1)
    <2>1. low4 \in 0..(P5 - 1)
      BY <1>13, <1>14
    <2>2. \A bare \in 0..(P5 - 1) : Checksum(bare) \in 0..(C - 1)
      BY ChecksumAssumption
    <2> HIDE DEF low4, P5, C
    <2>3. QED
      BY <2>1, <2>2
  <1>16. word \in Words
    <2>1. word \in 0..(P5 * C - 1)
      <3> HIDE DEF P5, C, sum, low5
      <3>1. QED
        BY <1>2, <1>3, <1>13, <1>15, FieldAbove
    <2>2. QED
      BY <1>4, <2>1 DEF Words
  <1>17. Word(packet) = word
    <2> DEFINE bare == pay + len * P1 + (IF packet.final_packet THEN P2 ELSE 0) + seq * P3
    <2>1. Word(packet) = bare + Checksum(bare) * P5
      BY DEF Word
    <2>2. bare = low4
      <3>1. len * P1 = P1 * len /\ P1 * len \in Nat
        <4> HIDE DEF len, P1
        <4>1. QED
          BY <1>2, <1>6
      <3>2. seq * P3 = P3 * seq /\ P3 * seq \in Nat
        <4> HIDE DEF seq, P3
        <4>1. QED
          BY <1>2, <1>6
      <3>3. (IF packet.final_packet THEN P2 ELSE 0) = P2 * fin /\ P2 * fin \in Nat
        <4> HIDE DEF P2
        <4>1. QED
          BY <1>2
      <3>4. pay \in Nat
        <4> HIDE DEF P1, pay
        <4>1. QED
          BY <1>2, <1>9
      <3> DEFINE u == P1 * len
                 w == P3 * seq
                 z == P2 * fin
      <3>5. bare = pay + u + z + w /\ low4 = w + (z + (u + pay))
        BY <3>1, <3>2, <3>3
      <3>6. u \in Nat /\ w \in Nat /\ z \in Nat
        BY <3>1, <3>2, <3>3
      <3> HIDE DEF u, w, z, pay, bare, low4
      <3>7. QED
        BY <3>4, <3>5, <3>6
    <2> HIDE DEF bare
    <2>3. Word(packet) = low4 + sum * P5
      BY <2>1, <2>2
    <2> HIDE DEF low4, low5, sum, P5, P4
    <2>4. sum * P5 = P5 * sum /\ sum * P5 \in Nat
      BY <1>2, <1>3, <1>15
    <2>5. low4 \in Nat
      BY <1>2, <1>12
    <2>6. QED
      BY <1>14, <2>3, <2>4, <2>5
  <1> DEFINE x4 == V * sum + 0
             x3 == S * x4 + seq
             x2 == 2 * x3 + fin
             x1 == L * x2 + len
  <1>18. sum \in Nat /\ x4 \in Nat /\ x3 \in Nat /\ x2 \in Nat /\ x1 \in Nat
    <2>1. sum \in Nat
      <3> HIDE DEF sum, C
      <3>1. QED
        BY <1>3, <1>15
    <2>2. x4 \in Nat
      <3> HIDE DEF V, sum
      <3>1. QED
        BY <1>3, <2>1
    <2>3. x3 \in Nat
      <3> HIDE DEF S, x4, seq
      <3>1. QED
        BY <1>3, <1>6, <2>2
    <2>4. x2 \in Nat
      <3> HIDE DEF x3, fin
      <3>1. QED
        BY <1>9, <2>3
    <2>5. x1 \in Nat
      <3> HIDE DEF L, x2, len
      <3>1. QED
        BY <1>3, <1>6, <2>4
    <2>6. QED
      BY <2>1, <2>2, <2>3, <2>4, <2>5
  <1>19. /\ word = P4 * (V * sum + 0) + low4
         /\ word = P3 * (S * x4 + seq) + low3
         /\ word = P2 * (2 * x3 + fin) + low2
         /\ word = P1 * (L * x2 + len) + pay
    <2> HIDE DEF P1, P2, P3, P4, P5, L, S, V, C, sum, len, pay, fin, seq, low2, low3, low4, low5
    <2>1. word = P4 * x4 + low4
      BY <1>13, <1>18
    <2> HIDE DEF word
    <2>2. word = P3 * x3 + low3
      <3> HIDE DEF x4
      <3>1. QED
        BY <1>12, <1>18, <2>1
    <2>3. word = P2 * x2 + low2
      <3> HIDE DEF x3
      <3>1. QED
        BY <1>11, <1>18, <2>2
    <2>4. word = P1 * x1 + pay
      <3> HIDE DEF x2
      <3>1. QED
        BY <1>10, <1>18, <2>3
    <2>5. QED
      BY <2>1, <2>2, <2>3, <2>4
  <1>20. Field(word, ChecksumShift, ChecksumBits) = sum
    <2>1. word = P5 * (C * 0 + sum) + low5
      <3> HIDE DEF P5, C, sum, low5
      <3>1. C * 0 + sum = sum
        BY <1>3, <1>15
      <3>2. QED
        BY <3>1
    <2> HIDE DEF sum, low5, word
    <2>2. QED
      BY <1>1, <1>13, <1>15, <2>1, FieldAt
  <1>21. Field(word, VersionShift, VersionBits) = 0
    <2> HIDE DEF word, low4, sum
    <2>1. 0 \in 0..(V - 1)
      BY <1>3
    <2>2. QED
      BY <1>1, <1>12, <1>18, <1>19, <2>1, FieldAt
  <1>22. Field(word, SequenceShift, SequenceBits) = seq
    <2>1. low3 \in 0..(P3 - 1) /\ word = P3 * (S * x4 + seq) + low3
      BY <1>11, <1>19
    <2> HIDE DEF word, low3, seq, x4
    <2>2. QED
      BY <1>1, <1>9, <1>18, <2>1, FieldAt
  <1>23. Field(word, FinalShift, 1) = fin
    <2>1. Power(2, 1) = 2
      <3>1. Power(2, 0 + 1) = 2 * Power(2, 0) /\ Power(2, 0) = 1
        BY PowerNext
      <3>2. QED
        BY <3>1
    <2> HIDE DEF word, low2, fin, x3
    <2>2. fin \in 0..(Power(2, 1) - 1) /\ word = P2 * (Power(2, 1) * x3 + fin) + low2
      BY <1>9, <1>19, <2>1
    <2>3. QED
      BY <1>1, <1>10, <1>18, <2>2, FieldAt
  <1>24. Field(word, LenShift, LenBits) = len
    <2> HIDE DEF word, pay, len, x2
    <2>1. QED
      BY <1>1, <1>9, <1>18, <1>19, FieldAt
  <1>25. Field(word, 0, PayloadBits) = pay
    <2>1. Power(2, 0) = 1
      BY PowerNext
    <2>2. word = Power(2, 0) * (P1 * x1 + pay) + 0
      <3> HIDE DEF word, P1, pay, L, x2, len
      <3>1. word = P1 * x1 + pay
        BY <1>19
      <3>2. P1 * x1 + pay \in Int
        <4> HIDE DEF x1
        <4>1. QED
          BY <1>2, <1>9, <1>18
      <3> HIDE DEF x1
      <3>3. QED
        BY <2>1, <3>1, <3>2
    <2> HIDE DEF word, pay, x1
    <2>3. 0 \in 0..(Power(2, 0) - 1) /\ 0 \in Nat /\ PayloadBits = LenShift
      BY <1>1, <2>1
    <2>4. QED
      BY <1>1, <1>9, <1>18, <2>2, <2>3, FieldAt
  <1>26. word % P5 = low4
    <2> HIDE DEF P5, sum, low5, low4
    <2>1. (P5 * sum + low5) % P5 = low5
      BY <1>2, <1>13, <1>18, DividedOnce
    <2>2. QED
      BY <1>14, <2>1
  <1>27. FromWord(word) = [sequence |-> seq, final_packet |-> fin = 1, chunk |-> UnpackChunk(pay, len)]
    <2>1. pay < Power(Radix, len) /\ ~ pay >= Power(Radix, len) /\ ~ len > PayloadChars
      <3> HIDE DEF pay, len
      <3>1. PayloadChars \in Nat
        BY WidthsAre
      <3>2. QED
        BY <1>6, <1>7, <1>8, <3>1
    <2> HIDE DEF word, pay, len, fin, low4, seq
    <2>2. QED
      BY <1>20, <1>21, <1>22, <1>23, <1>24, <1>25, <1>26, <2>1 DEF FromWord
  <1>28. packet = [sequence |-> seq, final_packet |-> fin = 1, chunk |-> packet.chunk]
    <2>1. packet = [sequence |-> packet.sequence, final_packet |-> packet.final_packet,
                    chunk |-> packet.chunk]
      BY DEF Sendable, Packets
    <2>2. packet.final_packet = (fin = 1)
      <3>1. CASE packet.final_packet = TRUE
        BY <3>1
      <3>2. CASE packet.final_packet = FALSE
        <4>1. fin = 0
          BY <3>2
        <4>2. (fin = 1) = FALSE
          BY <4>1
        <4>3. QED
          BY <3>2, <4>2
      <3>3. QED
        BY <1>6, <3>1, <3>2
    <2>3. QED
      BY <2>1, <2>2
  <1>29. QED
    <2> HIDE DEF word, pay, len, fin, seq
    <2>1. QED
      BY <1>7, <1>16, <1>17, <1>27, <1>28

-----------------------------------------------------------------------------
(* A text and its packets.                                                 *)

\* A prefix and what follows it.
LEMMA PiecesJoin ==
    ASSUME NEW S, NEW t \in Seq(S), NEW a \in Nat, NEW b \in Nat, a <= b, b <= Len(t)
    PROVE  SubSeq(t, 1, a) \o SubSeq(t, a + 1, b) = SubSeq(t, 1, b)
  <1> DEFINE x == SubSeq(t, 1, a)
             y == SubSeq(t, a + 1, b)
             z == SubSeq(t, 1, b)
  <1>1. /\ x \in Seq(S) /\ Len(x) = a /\ \A j \in 1..a : x[j] = t[j]
    OBVIOUS
  <1>2. /\ y \in Seq(S) /\ Len(y) = b - a /\ \A j \in 1..(b - a) : y[j] = t[a + j]
    OBVIOUS
  <1>3. /\ z \in Seq(S) /\ Len(z) = b /\ \A j \in 1..b : z[j] = t[j]
    OBVIOUS
  <1> HIDE DEF x, y, z
  <1>4. x \o y \in Seq(S) /\ Len(x \o y) = b
    <2>1. x \o y \in Seq(S) /\ Len(x \o y) = Len(x) + Len(y)
      <3>1. x \in Seq(S) /\ y \in Seq(S)
        BY <1>1, <1>2
      <3>2. x \o y \in Seq(S)
        BY <3>1
      <3>3. Len(x \o y) = Len(x) + Len(y)
        BY <3>1
      <3>4. QED
        BY <3>2, <3>3
    <2>2. a + (b - a) = b
      OBVIOUS
    <2>3. QED
      BY <1>1, <1>2, <2>1, <2>2
  <1>5. ASSUME NEW j \in 1..b PROVE (x \o y)[j] = z[j]
    <2>1. CASE j <= a
      BY <1>1, <1>2, <1>3, <2>1
    <2>2. CASE j > a
      <3>1. j - a \in 1..(b - a) /\ a + (j - a) = j
        BY <2>2
      <3>2. (x \o y)[j] = y[j - a]
        BY <1>1, <1>2, <2>2
      <3>3. y[j - a] = t[a + (j - a)]
        BY <1>2, <3>1
      <3>4. QED
        BY <1>3, <3>1, <3>2, <3>3
    <2>3. j <= a \/ j > a
      OBVIOUS
    <2>4. QED
      BY <2>1, <2>2, <2>3
  <1>6. x \o y = z
    BY <1>3, <1>4, <1>5
  <1>7. QED
    BY <1>6 DEF x, y, z

\* f joins the pieces one by one.
Joins(f, pieces) ==
    f = [i \in 1..Len(pieces) |-> IF i = 1 THEN pieces[i] ELSE f[i - 1] \o pieces[i]]

\* The pieces of t, each up to its end.
Cuts(pieces, t, end, k) == pieces = [i \in 1..k |-> SubSeq(t, end[i - 1] + 1, end[i])]

\* The pieces of a sequence, joined, are the sequence.
LEMMA PiecesAreWhole ==
    ASSUME NEW S, NEW t \in Seq(S), NEW k \in Nat \ {0}, NEW end \in [0..k -> Nat],
           end[0] = 0, end[k] = Len(t),
           \A i \in 1..k : end[i - 1] <= end[i] /\ end[i] <= Len(t),
           NEW pieces, Cuts(pieces, t, end, k)
    PROVE  FlattenSeq(pieces) = t
  <1> DEFINE g == [i \in 1..k |-> SubSeq(t, 1, end[i])]
             F == CHOOSE f : Joins(f, pieces)
  <1>0. pieces = [i \in 1..k |-> SubSeq(t, end[i - 1] + 1, end[i])]
    BY DEF Cuts
  <1>1. pieces = [i \in 1..k |-> pieces[i]]
    BY <1>0
  <1>2. Len(pieces) = k
    BY <1>1, LengthOf
  <1>3. ASSUME NEW i \in 1..k
        PROVE  SubSeq(t, 1, end[i]) =
                   IF i = 1 THEN pieces[i] ELSE SubSeq(t, 1, end[i - 1]) \o pieces[i]
    <2>1. i \in 0..k /\ i - 1 \in 0..k /\ end[i] \in Nat /\ end[i - 1] \in Nat
      OBVIOUS
    <2>2. pieces[i] = SubSeq(t, end[i - 1] + 1, end[i])
      BY <1>0
    <2>3. CASE i = 1
      <3>1. end[i - 1] + 1 = 1
        BY <2>3
      <3>2. QED
        BY <2>2, <2>3, <3>1
    <2>4. CASE i # 1
      <3> DEFINE a == end[i - 1]
                 b == end[i]
      <3>1. a \in Nat /\ b \in Nat /\ a <= b /\ b <= Len(t)
        BY <2>1
      <3> HIDE DEF a, b
      <3>2. SubSeq(t, 1, a) \o SubSeq(t, a + 1, b) = SubSeq(t, 1, b)
        BY <3>1, PiecesJoin
      <3>3. QED
        BY <2>2, <2>4, <3>2 DEF a, b
    <2>5. QED
      BY <2>3, <2>4
  <1>4. Joins(g, pieces)
    <2>1. \A i \in 1..k : i # 1 => i - 1 \in 1..k
      OBVIOUS
    <2>2. \A i \in 1..k : g[i] = IF i = 1 THEN pieces[i] ELSE g[i - 1] \o pieces[i]
      <3>1. SUFFICES ASSUME NEW i \in 1..k
                     PROVE  g[i] = IF i = 1 THEN pieces[i] ELSE g[i - 1] \o pieces[i]
        OBVIOUS
      <3>2. g[i] = SubSeq(t, 1, end[i]) /\ (i # 1 => g[i - 1] = SubSeq(t, 1, end[i - 1]))
        BY <2>1
      <3> HIDE DEF g
      <3>3. QED
        BY <1>3, <3>2
    <2>3. g = [i \in 1..k |-> g[i]]
      OBVIOUS
    <2> HIDE DEF g
    <2>4. QED
      BY <1>2, <2>2, <2>3 DEF Joins
  <1>5. Joins(F, pieces)
    <2> HIDE DEF g
    <2>1. QED
      BY <1>4
  <1>6. FlattenSeq(pieces) = F[k]
    BY <1>2 DEF FlattenSeq, Joins
  <1> HIDE DEF F
  <1> DEFINE A == {m \in 0..(k - 1) : F[m + 1] = g[m + 1]}
  <1>7. k - 1 \in Nat
    OBVIOUS
  <1>8. 0 \in A
    <2>1. 1 \in 1..k /\ 0 + 1 = 1
      OBVIOUS
    <2> HIDE DEF g
    <2>2. F[1] = pieces[1] /\ g[1] = pieces[1]
      BY <1>2, <1>4, <1>5, <2>1 DEF Joins
    <2>3. 0 \in 0..(k - 1)
      BY <1>7
    <2> HIDE DEF F
    <2>4. QED
      BY <2>1, <2>2, <2>3
  <1>9. ASSUME NEW m \in 0..((k - 1) - 1), m \in A PROVE m + 1 \in A
    <2> DEFINE i == (m + 1) + 1
    <2>1. i \in 1..k /\ i # 1 /\ i - 1 = m + 1 /\ m + 1 \in 0..(k - 1)
      OBVIOUS
    <2> HIDE DEF g
    <2>2. F[m + 1] = g[m + 1]
      BY <1>9
    <2>3. F[i] = F[i - 1] \o pieces[i] /\ g[i] = g[i - 1] \o pieces[i]
      <3> HIDE DEF i
      <3>1. QED
        BY <1>2, <1>4, <1>5, <2>1 DEF Joins
    <2>4. QED
      BY <2>1, <2>2, <2>3
  <1>10. 0..(k - 1) \subseteq A
    <2> HIDE DEF A
    <2>1. QED
      BY <1>7, <1>8, <1>9, CountUp
  <1>11. F[k] = g[k]
    <2>1. k - 1 \in 0..(k - 1) /\ (k - 1) + 1 = k
      OBVIOUS
    <2> HIDE DEF g
    <2>2. QED
      BY <1>10, <2>1
  <1>12. g[k] = SubSeq(t, 1, Len(t))
    OBVIOUS
  <1>13. SubSeq(t, 1, Len(t)) = t
    OBVIOUS
  <1>14. QED
    BY <1>6, <1>11, <1>12, <1>13

\* How many packets a text takes, and where each of them ends.
CountOf(t) == IF t = <<>> THEN 1 ELSE (Len(t) + PayloadChars - 1) \div PayloadChars

EndOf(t, i) == IF i < CountOf(t) THEN i * PayloadChars ELSE Len(t)

\* Each packet but the last is full, and none but the last reaches the end.
LEMMA TextIsCut ==
    ASSUME NEW S, NEW t \in Seq(S)
    PROVE  /\ CountOf(t) \in Nat \ {0}
           /\ \A i \in 1..CountOf(t) :
                 LET from == (i - 1) * PayloadChars
                     to   == EndOf(t, i)
                 IN  /\ from \in Nat /\ to \in Nat /\ from <= to /\ to <= Len(t)
                     /\ to - from <= PayloadChars
                     /\ i * PayloadChars >= Len(t) <=> i = CountOf(t)
  <1> DEFINE n == Len(t)
             c == PayloadChars
             k == CountOf(t)
  <1>1. n \in Nat /\ c \in Nat \ {0}
    BY WidthsAre
  <1>2. /\ k \in Nat \ {0} /\ n <= k * c
        /\ \A i \in 1..k : i = 1 \/ (i - 1) * c < n
    <2>1. CASE t = <<>>
      <3>1. k = 1 /\ n = 0
        BY <2>1 DEF CountOf
      <3> HIDE DEF k, n, c
      <3>2. QED
        BY <1>1, <3>1
    <2>2. CASE t # <<>>
      <3>1. k = ChunksOf(n, c) /\ n # 0
        BY <2>2 DEF CountOf, ChunksOf
      <3> HIDE DEF k, n, c
      <3>2. k \in Nat /\ k # 0 /\ Reach(n, c, k) = n /\ \A i \in 1..k : (i - 1) * c < n
        <4>1. /\ ChunksOf(n, c) \in Nat
              /\ \A j \in Nat : ChunksOf(n, c) <= j => Reach(n, c, j) = n
              /\ \A i \in 1..ChunksOf(n, c) : (i - 1) * c < n
              /\ n # 0 => ChunksOf(n, c) # 0
          BY <1>1, ChunksCover
        <4>2. Reach(n, c, k) = n
          BY <3>1, <4>1
        <4>3. QED
          BY <3>1, <4>1, <4>2
      <3>3. n <= k * c
        <4>1. k * c \in Nat
          BY <1>1, <3>2
        <4>2. QED
          BY <1>1, <3>2, <4>1 DEF Reach
      <3>4. QED
        BY <3>2, <3>3
    <2>3. QED
      BY <2>1, <2>2
  <1>3. ASSUME NEW i \in 1..k
        PROVE  LET from == (i - 1) * c
                   to   == EndOf(t, i)
               IN  /\ from \in Nat /\ to \in Nat /\ from <= to /\ to <= n
                   /\ to - from <= c
                   /\ i * c >= n <=> i = k
    <2> DEFINE from == (i - 1) * c
               to   == EndOf(t, i)
    <2>1. to = IF i < k THEN i * c ELSE n
      BY DEF EndOf
    <2> HIDE DEF k, n, c, to
    <2>2. i \in Nat /\ i <= k /\ i - 1 \in Nat
      BY <1>2
    <2>3. from \in Nat /\ i * c = from + c
      BY <1>1, <2>2
    <2>4. i < k => i * c < n
      <3>1. i < k => i + 1 \in 1..k /\ (i + 1) - 1 = i /\ i + 1 # 1
        BY <1>2, <2>2
      <3>2. QED
        BY <1>2, <3>1
    <2>5. from <= n
      <3>1. i = 1 => from = 0
        BY <1>1
      <3>2. QED
        BY <1>1, <1>2, <2>3, <3>1
    <2> HIDE DEF from
    <2>6. i * c >= n <=> i = k
      <3>1. i = k => i * c >= n
        BY <1>1, <1>2, <2>3
      <3>2. i # k => ~ (i * c >= n)
        BY <1>1, <1>2, <2>2, <2>3, <2>4
      <3>3. QED
        BY <3>1, <3>2
    <2>7. to \in Nat /\ from <= to /\ to <= n /\ to - from <= c
      <3>1. CASE i < k
        BY <1>1, <2>1, <2>3, <2>4, <3>1
      <3>2. CASE ~ i < k
        <4>1. i = k /\ to = n
          BY <1>2, <2>1, <2>2, <3>2
        <4>2. n <= from + c
          BY <1>2, <2>3, <4>1
        <4>3. QED
          BY <1>1, <2>3, <2>5, <4>1, <4>2
      <3>3. QED
        BY <3>1, <3>2
    <2>8. QED
      BY <2>3, <2>6, <2>7 DEF from, to
  <1>4. QED
    BY <1>2, <1>3

\* The packets of t, k of them.
Numbered(packets, t, k) ==
    /\ packets \in [1..k -> Sendable]
    /\ \A i \in 1..k : packets[i].sequence = i - 1 /\ (packets[i].final_packet <=> i = k)
    /\ FlattenSeq([i \in 1..k |-> packets[i].chunk]) = t

\* The packets of a text that can be sent.
LEMMA TextIsSendable ==
    ASSUME NEW t \in Seq(0..Radix),
           ~ (CountOf(t) - 1 > LastSequence \/ \E i \in DOMAIN t : t[i] = Radix)
    PROVE  /\ Numbered(EncodeTextPackets(t), t, CountOf(t))
           /\ EncodeTextPackets(t) # Refused
  <1> DEFINE k == CountOf(t)
             n == Len(t)
             c == PayloadChars
             piece(i) == SubSeq(t, (i - 1) * c + 1, EndOf(t, i))
             packet(i) == [sequence |-> i - 1, final_packet |-> i * c >= n, chunk |-> piece(i)]
             packets == EncodeTextPackets(t)
  <1>1. packets = [i \in 1..k |-> packet(i)]
    BY DEF EncodeTextPackets, CountOf, EndOf
  <1>2. t \in Seq(Letters) /\ Radix \in Nat
    <2>1. Radix \in Nat
      BY WidthsAre
    <2>2. \A i \in 1..Len(t) : t[i] \in Letters
      BY <2>1 DEF Letters
    <2>3. QED
      BY <2>1, <2>2
  <1>3. /\ k \in Nat \ {0}
        /\ \A i \in 1..k : /\ (i - 1) * c \in Nat /\ EndOf(t, i) \in Nat
                           /\ (i - 1) * c <= EndOf(t, i) /\ EndOf(t, i) <= n
                           /\ EndOf(t, i) - (i - 1) * c <= c
                           /\ i * c >= n <=> i = k
    BY TextIsCut
  <1>4. k - 1 <= LastSequence /\ LastSequence \in Int /\ c \in Nat /\ n \in Nat
    <2>1. SequenceBits \in Nat /\ c \in Nat
      BY WidthsAre
    <2>2. Power(2, SequenceBits) \in Nat
      BY <2>1, PowersOfTwo
    <2>3. LastSequence \in Int
      BY <2>2 DEF LastSequence
    <2> HIDE DEF k
    <2>4. QED
      BY <1>3, <2>1, <2>3 DEF k
  <1>5. ASSUME NEW i \in 1..k PROVE packet(i) \in Sendable /\ (packet(i).final_packet <=> i = k)
    <2> DEFINE from == (i - 1) * c
               to == EndOf(t, i)
    <2>1. from \in Nat /\ to \in Nat /\ from <= to /\ to <= n /\ to - from <= c
          /\ (i * c >= n <=> i = k)
      BY <1>3
    <2>2. i - 1 \in Nat /\ i - 1 <= LastSequence
      BY <1>3, <1>4
    <2>3. piece(i) = SubSeq(t, from + 1, to)
      OBVIOUS
    <2> HIDE DEF from, to, k, piece
    <2>4. piece(i) \in Seq(Letters) /\ Len(piece(i)) = to - from
      BY <1>2, <2>1, <2>3
    <2>5. packet(i) \in Packets
      BY <2>2, <2>4 DEF Packets, Letters
    <2>6. QED
      BY <1>4, <2>1, <2>2, <2>4, <2>5 DEF Sendable
  <1>6. packets \in [1..k -> Sendable]
    <2> HIDE DEF packet, k, packets
    <2>1. QED
      BY <1>1, <1>5
  <1>7. packets # Refused
    <2>1. packets \in Seq(Packets)
      <3> HIDE DEF packets, k
      <3>1. packets \in [1..k -> Packets]
        BY <1>6 DEF Sendable
      <3>2. QED
        BY <1>3, <3>1
    <2> HIDE DEF packets
    <2>2. QED
      BY <2>1, RefusedAssumption
  <1>8. \A i \in 1..k : packets[i].sequence = i - 1 /\ (packets[i].final_packet <=> i = k)
    <2>1. \A i \in 1..k : packets[i] = packet(i) /\ packet(i).sequence = i - 1
      <3> HIDE DEF packets, k
      <3>1. QED
        BY <1>1
    <2> HIDE DEF packets, k, packet
    <2>2. QED
      BY <1>5, <2>1
  <1>9. FlattenSeq([i \in 1..k |-> packets[i].chunk]) = t
    <2> DEFINE end == [i \in 0..k |-> IF i = 0 THEN 0 ELSE EndOf(t, i)]
               pieces == [i \in 1..k |-> packets[i].chunk]
    <2>1. \A i \in 1..k : i \in 0..k /\ i # 0 /\ i - 1 \in 0..k
      BY <1>3
    <2>2. end \in [0..k -> Nat] /\ end[0] = 0
      BY <1>3, <2>1
    <2>3. \A i \in 1..k : end[i] = EndOf(t, i)
      BY <2>1
    <2>4. end[k] = Len(t)
      <3>1. k \in 1..k
        BY <1>3
      <3>2. EndOf(t, k) = Len(t)
        BY <1>3 DEF EndOf
      <3>3. QED
        BY <2>3, <3>1, <3>2
    <2>5. \A i \in 1..k : end[i - 1] = (i - 1) * c
      <3>1. SUFFICES ASSUME NEW i \in 1..k PROVE end[i - 1] = (i - 1) * c
        OBVIOUS
      <3>2. CASE i = 1
        <4>1. (i - 1) * c = 0
          BY <1>4, <3>2
        <4>2. QED
          BY <2>2, <3>2, <4>1
      <3>3. CASE i # 1
        <4>1. i - 1 \in 1..k /\ i - 1 < k
          BY <1>3, <3>3
        <4>2. EndOf(t, i - 1) = (i - 1) * c
          BY <4>1 DEF EndOf
        <4> HIDE DEF end
        <4>3. QED
          BY <2>3, <4>1, <4>2
      <3>4. QED
        BY <3>2, <3>3
    <2> HIDE DEF end
    <2>6. \A i \in 1..k : end[i - 1] <= end[i] /\ end[i] <= Len(t)
      BY <1>3, <2>3, <2>5
    <2>7. Cuts(pieces, t, end, k)
      <3>1. \A i \in 1..k : packets[i].chunk = piece(i)
        <4> HIDE DEF packets, k, piece
        <4>1. QED
          BY <1>1
      <3>2. \A i \in 1..k : piece(i) = SubSeq(t, end[i - 1] + 1, end[i])
        BY <2>3, <2>5
      <3> HIDE DEF packets, k, piece
      <3>3. QED
        BY <3>1, <3>2 DEF Cuts
    <2> HIDE DEF pieces, k
    <2>8. FlattenSeq(pieces) = t
      <3>1. k \in Nat \ {0} /\ end \in [0..k -> Nat] /\ end[0] = 0 /\ end[k] = Len(t)
        BY <1>3, <2>2, <2>4
      <3>2. QED
        BY <2>6, <2>7, <3>1, PiecesAreWhole
    <2>9. QED
      BY <2>8 DEF pieces, k
  <1>10. QED
    BY <1>6, <1>7, <1>8, <1>9 DEF Numbered

-----------------------------------------------------------------------------
(* What is sent is read again, and nothing else.                           *)

\* Under its nonce, an amount gives back its packet.
LEMMA AmountComesBack ==
    ASSUME NEW packet \in Sendable, NEW nonce, ToAmount(packet, nonce) # Refused
    PROVE  ToPacket(ToAmount(packet, nonce), nonce) = packet
  <1> DEFINE word == Word(packet)
             amount == Permute(word, nonce)
  <1>1. word \in Words /\ FromWord(word) = packet
    BY PacketComesBack
  <1>2. Unpermute(amount, nonce) = word
    BY <1>1, PermutedBack
  <1>3. ToAmount(packet, nonce) = IF amount = 0 THEN Refused ELSE amount
    BY DEF ToAmount
  <1>4. \A x : ToPacket(x, nonce) = IF x = 0 THEN Refused ELSE FromWord(Unpermute(x, nonce))
    BY DEF ToPacket
  <1> HIDE DEF amount, word
  <1>5. amount # 0 /\ ToAmount(packet, nonce) = amount
    BY <1>3
  <1>6. QED
    BY <1>1, <1>2, <1>4, <1>5

\* What arrives: of n packets, each is one of these.
Streams(stream, packets, s, n) == stream = [i \in 1..n |-> packets[s[i]]]

\* decode_packets takes the whole stream in its order, and no other.
LEMMA OnlyTheWholeStream ==
    ASSUME NEW t, NEW k \in Nat \ {0}, NEW packets, Numbered(packets, t, k),
           NEW n \in Nat, NEW s \in [1..n -> 1..k], NEW stream, Streams(stream, packets, s, n)
    PROVE  DecodePackets(stream) =
               IF n = k /\ \A i \in 1..n : s[i] = i THEN t ELSE Refused
  <1> DEFINE Whole == n = k /\ \A i \in 1..n : s[i] = i
             Follows == \A i \in DOMAIN stream :
                           /\ stream[i].sequence = i - 1
                           /\ stream[i].final_packet <=> i = Len(stream)
             Chunks == [i \in DOMAIN stream |-> stream[i].chunk]
  <1>1. stream = [i \in 1..n |-> stream[i]] /\ \A i \in 1..n : stream[i] = packets[s[i]]
    BY DEF Streams
  <1>2. Len(stream) = n /\ DOMAIN stream = 1..n
    BY <1>1, LengthOf
  <1>3. ASSUME NEW i \in 1..n
        PROVE  /\ s[i] \in 1..k /\ s[i] \in Int /\ stream[i] = packets[s[i]]
               /\ stream[i].sequence = s[i] - 1
               /\ stream[i].final_packet <=> s[i] = k
    <2>1. s[i] \in 1..k /\ s[i] \in Int
      OBVIOUS
    <2>2. stream[i] = packets[s[i]]
      BY <1>1
    <2>3. packets[s[i]].sequence = s[i] - 1 /\ (packets[s[i]].final_packet <=> s[i] = k)
      BY <2>1 DEF Numbered
    <2>4. QED
      BY <2>1, <2>2, <2>3
  <1>4. stream = <<>> <=> n = 0
    <2>1. stream = <<>> => Len(stream) = 0
      OBVIOUS
    <2>2. n = 0 => stream = <<>>
      <3>1. n = 0 => stream = [i \in {} |-> stream[i]]
        <4>1. n = 0 => 1..n = {}
          OBVIOUS
        <4>2. QED
          BY <1>1, <4>1
      <3>2. [i \in {} |-> stream[i]] = <<>>
        OBVIOUS
      <3>3. QED
        BY <3>1, <3>2
    <2>3. QED
      BY <1>2, <2>1, <2>2
  <1>5. DecodePackets(stream) = IF stream # <<>> /\ Follows THEN FlattenSeq(Chunks) ELSE Refused
    BY DEF DecodePackets
  <1>6. (stream # <<>> /\ Follows) <=> Whole
    <2>1. ASSUME stream # <<>>, Follows PROVE Whole
      <3>1. n # 0
        BY <1>4, <2>1
      <3>2. ASSUME NEW i \in 1..n PROVE s[i] = i /\ (s[i] = k <=> i = n)
        <4>1. stream[i].sequence = i - 1 /\ (stream[i].final_packet <=> i = n)
          BY <1>2, <2>1
        <4>2. stream[i].sequence = s[i] - 1 /\ (stream[i].final_packet <=> s[i] = k) /\ s[i] \in Int
          BY <1>3
        <4>3. QED
          BY <4>1, <4>2
      <3>3. n \in 1..n
        BY <3>1
      <3>4. s[n] = n /\ s[n] = k
        BY <3>2, <3>3
      <3>5. QED
        BY <3>2, <3>4
    <2>2. ASSUME Whole PROVE stream # <<>> /\ Follows
      <3>1. n # 0
        BY <2>2
      <3>2. ASSUME NEW i \in 1..n
            PROVE  stream[i].sequence = i - 1 /\ (stream[i].final_packet <=> i = n)
        BY <1>3, <2>2
      <3>3. QED
        BY <1>2, <1>4, <3>1, <3>2
    <2>3. QED
      BY <2>1, <2>2
  <1>7. ASSUME Whole PROVE FlattenSeq(Chunks) = t
    <2>1. \A i \in 1..k : stream[i].chunk = packets[i].chunk
      BY <1>3, <1>7
    <2>2. n = k
      BY <1>7
    <2>3. Chunks = [i \in 1..k |-> packets[i].chunk]
      BY <1>2, <2>1, <2>2
    <2> HIDE DEF Chunks
    <2>4. QED
      BY <2>3 DEF Numbered
  <1>8. DecodePackets(stream) = IF Whole THEN t ELSE Refused
    <2> HIDE DEF Follows, Chunks, Whole
    <2>1. CASE Whole
      BY <1>5, <1>6, <1>7, <2>1
    <2>2. CASE ~ Whole
      BY <1>5, <1>6, <2>2
    <2>3. QED
      BY <2>1, <2>2
  <1>9. QED
    BY <1>8

\* The rows of a text, unless one of them is refused, give it back.
LEMMA RowsComeBack ==
    ASSUME NEW t, NEW nonce, NEW k \in Nat \ {0}, Numbered(EncodeTextPackets(t), t, k),
           EncodeTextPackets(t) # Refused, EncodeAmountRows(t, nonce) # Refused
    PROVE  DecodeAmountRows(EncodeAmountRows(t, nonce), nonce) = t
  <1> DEFINE packets == EncodeTextPackets(t)
             sent == [i \in DOMAIN packets |-> ToAmount(packets[i], nonce + i - 1)]
             back == [i \in DOMAIN sent |-> ToPacket(sent[i], nonce + i - 1)]
  <1>1. packets \in [1..k -> Sendable] /\ DOMAIN sent = 1..k /\ DOMAIN packets = 1..k
    BY DEF Numbered
  <1>2. EncodeAmountRows(t, nonce) = OrRefused(sent)
    BY DEF EncodeAmountRows
  <1>3. OrRefused(sent) = sent /\ \A i \in 1..k : sent[i] # Refused
    <2> HIDE DEF sent
    <2>1. Refused \notin ToSet(sent)
      BY <1>2 DEF OrRefused
    <2>2. QED
      BY <1>1, <2>1 DEF OrRefused, ToSet
  <1>4. \A i \in 1..k : back[i] = packets[i]
    <2>1. SUFFICES ASSUME NEW i \in 1..k PROVE back[i] = packets[i]
      OBVIOUS
    <2>2. sent[i] = ToAmount(packets[i], nonce + i - 1) /\ packets[i] \in Sendable
      <3> HIDE DEF packets
      <3>1. QED
        BY <1>1
    <2>3. sent[i] # Refused /\ back[i] = ToPacket(sent[i], nonce + i - 1)
      <3> HIDE DEF sent
      <3>1. QED
        BY <1>1, <1>3
    <2> HIDE DEF sent, back, packets
    <2>4. QED
      BY <2>2, <2>3, AmountComesBack
  <1>5. back = packets
    <2>1. back = [i \in 1..k |-> back[i]]
      <3> HIDE DEF sent
      <3>1. QED
        BY <1>1
    <2> HIDE DEF back, packets, sent
    <2>2. packets = [i \in 1..k |-> packets[i]]
      BY <1>1
    <2>3. QED
      BY <1>4, <2>1, <2>2
  <1>6. OrRefused(packets) = packets
    <2> HIDE DEF packets
    <2>1. \A i \in 1..k : packets[i] # Refused
      BY <1>1, RefusedAssumption DEF Sendable
    <2>2. Refused \notin ToSet(packets)
      BY <1>1, <2>1 DEF ToSet
    <2>3. QED
      BY <2>2 DEF OrRefused
  <1>7. DecodeAmountRows(sent, nonce) = DecodePackets(packets)
    <2>1. DecodeAmountRows(sent, nonce) =
              IF OrRefused(back) = Refused THEN Refused ELSE DecodePackets(OrRefused(back))
      BY DEF DecodeAmountRows
    <2> HIDE DEF packets, sent, back
    <2>2. packets # Refused
      BY DEF packets
    <2>3. QED
      BY <1>5, <1>6, <2>1, <2>2
  <1>8. DecodePackets(packets) = t
    <2> HIDE DEF packets
    <2> DEFINE same == [i \in 1..k |-> i]
    <2>1. same \in [1..k -> 1..k] /\ \A i \in 1..k : same[i] = i
      OBVIOUS
    <2> HIDE DEF same
    <2>2. Streams(packets, packets, same, k)
      BY <1>1, <2>1 DEF Streams
    <2>3. Numbered(packets, t, k)
      BY DEF packets
    <2>4. QED
      BY <2>1, <2>2, <2>3, OnlyTheWholeStream
  <1>9. QED
    <2> HIDE DEF sent, packets
    <2>1. QED
      BY <1>2, <1>3, <1>7, <1>8

LEMMA TextDecodes == text \in Seq(0..Radix) => OnlyWholeTextsDecode
  <1>1. SUFFICES ASSUME text \in Seq(0..Radix) PROVE OnlyWholeTextsDecode
    OBVIOUS
  <1> DEFINE packets == EncodeTextPackets(text)
             k == CountOf(text)
             Refusal == k - 1 > LastSequence \/ \E i \in DOMAIN text : text[i] = Radix
  <1>2. CASE Refusal
    <2>1. packets = Refused
      BY <1>2 DEF EncodeTextPackets, CountOf
    <2>2. Len(text) > PayloadChars * Power(2, SequenceBits) \/ Radix \in ToSet(text)
      <3>1. CASE \E i \in DOMAIN text : text[i] = Radix
        BY <3>1 DEF ToSet
      <3>2. CASE k - 1 > LastSequence
        <4> DEFINE P == Power(2, SequenceBits)
                   n == Len(text)
                   c == PayloadChars
        <4>1. SequenceBits \in Nat /\ c \in Nat \ {0} /\ n \in Nat
          BY <1>1, WidthsAre
        <4>2. P \in Nat \ {0} /\ LastSequence = P - 1
          BY <4>1, PowersOfTwo DEF LastSequence
        <4>3. k \in Nat \ {0} /\ k - 1 > P - 1
          BY <1>1, <3>2, <4>2, TextIsCut
        <4>4. k \in 1..k /\ k >= P + 1
          <5> HIDE DEF k, P
          <5>1. QED
            BY <4>2, <4>3
        <4>5. (k - 1) * c < n
          <5>1. text # <<>> /\ n # 0
            <6>1. text = <<>> => k = 1
              BY DEF CountOf
            <6>2. k # 1
              <7> HIDE DEF k, P
              <7>1. QED
                BY <4>2, <4>4
            <6>3. text # <<>>
              BY <6>1, <6>2
            <6>4. QED
              BY <1>1, <6>3
          <5>2. k = ChunksOf(n, c)
            BY <5>1 DEF CountOf, ChunksOf
          <5> HIDE DEF k, n, c
          <5>3. QED
            BY <4>1, <4>4, <5>2, ChunksCover
        <4> HIDE DEF P, n, c, k
        <4>6. P * c <= (k - 1) * c /\ P * c \in Nat /\ (k - 1) * c \in Nat
          <5>1. k - 1 \in Nat /\ P <= k - 1 /\ P \in Nat /\ c \in Nat
            BY <4>1, <4>2, <4>3
          <5>2. QED
            BY <5>1, Products
        <4>7. c * P = P * c
          BY <4>1, <4>2
        <4>8. n > c * P
          BY <4>1, <4>5, <4>6, <4>7
        <4>9. QED
          BY <4>8 DEF n, c, P
      <3>3. QED
        BY <1>2, <3>1, <3>2
    <2> HIDE DEF packets
    <2>3. QED
      BY <2>1, <2>2 DEF OnlyWholeTextsDecode, packets
  <1>3. CASE ~ Refusal
    <2>1. Numbered(packets, text, k) /\ packets # Refused
      BY <1>1, <1>3, TextIsSendable
    <2>2. k \in Nat \ {0}
      BY <1>1, TextIsCut
    <2> HIDE DEF packets, k
    <2>3. packets \in [1..k -> Sendable]
      BY <2>1 DEF Numbered
    <2>4. Len(packets) = k /\ DOMAIN packets = 1..k
      <3>1. packets = [i \in 1..k |-> packets[i]]
        BY <2>3
      <3>2. QED
        BY <2>2, <3>1, LengthOf
    <2>5. ASSUME NEW i \in DOMAIN packets
          PROVE  /\ FromWord(Word(packets[i])) = packets[i]
                 /\ \A nonce \in Nonces :
                       LET amount == ToAmount(packets[i], nonce)
                       IN  amount /= Refused => ToPacket(amount, nonce) = packets[i]
      <3>1. packets[i] \in Sendable
        BY <2>3, <2>4
      <3>2. QED
        BY <3>1, PacketComesBack, AmountComesBack
    <2>6. ASSUME NEW nonce \in Nonces
          PROVE  LET amounts == EncodeAmountRows(text, nonce)
                 IN  amounts /= Refused => DecodeAmountRows(amounts, nonce) = text
      BY <2>1, <2>2, RowsComeBack DEF packets
    <2>7. ASSUME NEW n \in 0..(Len(packets) + 1), NEW s \in [1..n -> DOMAIN packets]
          PROVE  DecodePackets([i \in 1..n |-> packets[s[i]]])
                     = IF n = Len(packets) /\ \A i \in 1..n : s[i] = i
                       THEN text ELSE Refused
      <3>1. n \in Nat /\ s \in [1..n -> 1..k]
        BY <2>2, <2>4
      <3> DEFINE stream == [i \in 1..n |-> packets[s[i]]]
      <3>2. Streams(stream, packets, s, n)
        BY DEF Streams
      <3> HIDE DEF stream
      <3>3. DecodePackets(stream) = IF n = k /\ \A i \in 1..n : s[i] = i THEN text ELSE Refused
        BY <2>1, <2>2, <3>1, <3>2, OnlyTheWholeStream
      <3>4. QED
        BY <2>4, <3>3 DEF stream
    <2>8. QED
      BY <2>1, <2>5, <2>6, <2>7 DEF OnlyWholeTextsDecode, packets
  <1>4. QED
    BY <1>2, <1>3

\* For any widths of the fields, any text and any nonces: a text is refused for
\* a letter or its length only, a packet survives its word and its amount, a
\* text its rows, and of all streams of its packets only the whole one, in its
\* order, is taken (encode_text_packets, decode_packets, permute64).
THEOREM TextsComeBack == TextSpec => []OnlyWholeTextsDecode
  <1> DEFINE TextInv == text \in Seq(0..Radix)
  <1>1. TextInit => TextInv
    BY DEF TextInit
  <1>2. TextInv /\ [AddLetter]_text => TextInv'
    <2>1. CASE AddLetter
      BY <2>1 DEF AddLetter
    <2>2. CASE UNCHANGED text
      BY <2>2
    <2>3. QED
      BY <2>1, <2>2
  <1>3. TextInv => OnlyWholeTextsDecode
    BY TextDecodes
  <1>4. QED
    BY <1>1, <1>2, <1>3, PTL DEF TextSpec
=============================================================================
