-------------------------- MODULE GenesisPartition --------------------------
(***************************************************************************)
(* The genesis partition rule (genesis/src/partition.rs) and what the      *)
(* genesis builder and composer derive from it: the claimable leaves that  *)
(* go under claimable_root and the lamports the treasury PDA starts with.  *)
(*                                                                         *)
(* A snapshot is a set of records with fields pubkey, owner, data_len and  *)
(* lamports, with distinct pubkeys.                                        *)
(***************************************************************************)
EXTENDS Integers, FiniteSets, FiniteSetsExt

CONSTANTS
    SystemProgramId,   \* owner of every plain wallet
    MaxU64             \* u64::MAX, at the scale of the model

\* "Claimable" iff system-owned with no data, "Treasury" otherwise.
Disposition(account) ==
    IF account.owner = SystemProgramId /\ account.data_len = 0
    THEN "Claimable" ELSE "Treasury"

ClaimableAccounts(snapshot) == {x \in snapshot : Disposition(x) = "Claimable"}
TreasuryAccounts(snapshot) == {x \in snapshot : Disposition(x) = "Treasury"}

LamportsOf(accounts) == MapThenSumSet(LAMBDA x : x.lamports, accounts)

\* ClaimableLeaf: pubkey and lamports only.
LeafOf(snapshot) ==
    [p \in {x.pubkey : x \in ClaimableAccounts(snapshot)} |->
        (CHOOSE x \in snapshot : x.pubkey = p).lamports]

\* Treasury::lamports_for_pda, the balance compose() hands to genesis-bake.
LamportsForPda(snapshot) ==
    LET total == LamportsOf(TreasuryAccounts(snapshot))
    IN  IF total < MaxU64 THEN total ELSE MaxU64
=============================================================================
