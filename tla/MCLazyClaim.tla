---------------------------- MODULE MCLazyClaim ----------------------------
(***************************************************************************)
(* Two claimants of a five-account snapshot, one of them also a payer, and *)
(* a relayer.  The two proofs share their upper sibling.                   *)
(***************************************************************************)
EXTENDS LazyClaim, GenesisPartition

CONSTANTS alice, bob, relay, vault, tokenProgram, sLeft, sRight, sTop

McAccount(p, o, len, lamports) ==
    [pubkey |-> p, owner |-> o, data_len |-> len, lamports |-> lamports]

\* Bob's ATA and a vault PDA fall to the treasury; alice and bob are leaves.
McSnapshot(treasuryLamports) ==
    {McAccount(alice, SystemProgramId, 0, 2),
     McAccount(bob, SystemProgramId, 0, 1),
     McAccount("ata", tokenProgram, 165, 1),
     McAccount("pda", tokenProgram, 0, treasuryLamports - 2),
     McAccount("nonce", SystemProgramId, 80, 1)}

\* A treasury partition that covers the claims, and one that does not.
McCovered == McSnapshot(4)
McUncovered == McSnapshot(2)

McLeaf == LeafOf(McCovered)
McTreasury == LamportsForPda(McCovered)
McTreasuryUncovered == LamportsForPda(McUncovered)

McPath == [p \in {alice, bob} |-> IF p = alice THEN <<sRight, sTop>> ELSE <<sLeft, sTop>>]
McGenesisWallet == [w \in {alice, bob, relay, vault} |-> IF w = relay THEN 4 ELSE IF w = bob THEN 1 ELSE 0]
McRent == [n \in {1, 2} |-> n]
McChunks == {<<>>, <<sRight>>, <<sTop>>, <<sLeft, sTop>>}
=============================================================================
