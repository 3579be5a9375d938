---------------------------- MODULE AgentFaucet ----------------------------
(***************************************************************************)
(* The agent faucet (programs/agent-faucet), for one carrier mint: its     *)
(* configuration, the records of the agents that the authority registers,  *)
(* and the quota each of them may mint per faucet epoch.                   *)
(*                                                                         *)
(* An instruction is an action; a check that fails aborts it, which is the *)
(* stuttering step.  Whether the mint's supply has room is Token-2022's    *)
(* affair and left out.                                                    *)
(***************************************************************************)
EXTENDS Integers

CONSTANTS
    Agents,
    FaucetArgs,    \* the arguments that somebody may bring
    ClaimAmounts,  \* amounts an agent may ask for
    MaxU64,
    LastSlot,      \* bound: slots of the clock
    NoConfig,      \* the config PDA does not exist
    NoRecord       \* an agent's record does not exist

\* InitializeFaucetArgs, and what FaucetConfig keeps of them.
FaucetConfig == [quota_per_epoch : Nat, epoch_slots : Nat, start_slot : Nat]

AgentRecord == [last_claim_epoch : Nat, claimed_in_epoch : Nat, active : BOOLEAN]

ASSUME FaucetAssumption ==
    /\ MaxU64 \in Nat
    /\ LastSlot \in Nat
    /\ FaucetArgs \subseteq FaucetConfig
    /\ ClaimAmounts \subseteq Nat
    /\ NoConfig \notin FaucetConfig
    /\ NoRecord \notin AgentRecord

VARIABLES
    slot,     \* Clock
    config,   \* FaucetConfig
    record,   \* record[a]: AgentRecord
    minter,   \* the mint's authority is the config PDA
    given     \* history: minted to a in this epoch, since a was last registered

faucetVars == <<slot, config, record, minter, given>>

FaucetInit ==
    /\ slot = 0
    /\ config = NoConfig
    /\ record = [a \in Agents |-> NoRecord]
    /\ minter = FALSE
    /\ given = [a \in Agents |-> 0]

\* saturating_sub
Since(start, s) == IF s > start THEN s - start ELSE 0

EpochAt(c, s) == Since(c.start_slot, s) \div c.epoch_slots

\* Anybody may be the first to do it for a mint, and becomes the authority.
Initialize(args) ==
    /\ config = NoConfig
    /\ args.epoch_slots > 0 /\ args.quota_per_epoch > 0
    /\ config' = args
    /\ UNCHANGED <<slot, record, minter, given>>

\* init_if_needed: a record that is there starts over.
RegisterAgent(a) ==
    /\ config # NoConfig
    /\ record' = [record EXCEPT ![a] =
          [last_claim_epoch |-> 0, claimed_in_epoch |-> 0, active |-> TRUE]]
    /\ given' = [given EXCEPT ![a] = 0]
    /\ UNCHANGED <<slot, config, minter>>

UnregisterAgent(a) ==
    /\ record[a] # NoRecord
    /\ record' = [record EXCEPT ![a].active = FALSE]
    /\ UNCHANGED <<slot, config, minter, given>>

\* Mutant: the epoch of the last claim is not moved on.
StartedOver(r, epoch) ==
    IF r.last_claim_epoch # epoch THEN [r EXCEPT !.claimed_in_epoch = 0] ELSE r

\* apply_quota_claim: the first claim of an epoch starts from zero.
RolledOver(r, epoch) ==
    IF r.last_claim_epoch # epoch
    THEN [r EXCEPT !.last_claim_epoch = epoch, !.claimed_in_epoch = 0]
    ELSE r

Claim(a, amount) ==
    /\ config # NoConfig /\ record[a] # NoRecord
    /\ amount > 0
    /\ record[a].active
    /\ LET r == RolledOver(record[a], EpochAt(config, slot))
       IN  /\ r.claimed_in_epoch + amount <= MaxU64   \* checked_add
           /\ r.claimed_in_epoch + amount <= config.quota_per_epoch
           /\ record' = [record EXCEPT ![a] =
                            [r EXCEPT !.claimed_in_epoch = r.claimed_in_epoch + amount]]
    /\ minter
    /\ given' = [given EXCEPT ![a] = @ + amount]
    /\ UNCHANGED <<slot, config, minter>>

\* The mint's authority hands it to the config PDA, which never gives it back.
SetMintAuthority ==
    /\ ~minter
    /\ minter' = TRUE
    /\ UNCHANGED <<slot, config, record, given>>

\* Mints of an epoch that is over do not count any more.
NextSlot ==
    /\ slot < LastSlot
    /\ slot' = slot + 1
    /\ given' = IF config # NoConfig /\ EpochAt(config, slot) # EpochAt(config, slot + 1)
                THEN [a \in Agents |-> 0] ELSE given
    /\ UNCHANGED <<config, record, minter>>

FaucetNext ==
    \/ \E args \in FaucetArgs : Initialize(args)
    \/ \E a \in Agents : RegisterAgent(a) \/ UnregisterAgent(a)
    \/ \E a \in Agents, amount \in ClaimAmounts : Claim(a, amount)
    \/ SetMintAuthority
    \/ NextSlot

FaucetSpec == FaucetInit /\ [][FaucetNext]_faucetVars

-----------------------------------------------------------------------------
(* Properties *)

\* "Each registered agent can claim a fixed per-epoch quota" (lib.rs:4): from
\* one registration to the next no agent is given more than the quota in an
\* epoch, the one that began before start_slot included; and of what it was
\* given in the present one its record says no less and no more.
QuotaHolds ==
    \A a \in Agents :
        /\ given[a] = 0 \/ (config # NoConfig /\ given[a] <= config.quota_per_epoch)
        /\ record[a] # NoRecord =>
              given[a] = IF record[a].last_claim_epoch = EpochAt(config, slot)
                         THEN record[a].claimed_in_epoch ELSE 0
=============================================================================
