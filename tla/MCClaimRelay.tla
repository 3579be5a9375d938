---------------------------- MODULE MCClaimRelay ----------------------------
(***************************************************************************)
(* Two claimants whose proofs of three siblings go through the buffered    *)
(* route, two siblings to a write, so that a request runs a full chunk, a  *)
(* partial one and the claim; and one whose proof goes inline.  In one tab *)
(* the wallet is changed twice.  A stranger overwrites a part of a buffer. *)
(***************************************************************************)
EXTENDS ClaimPage

CONSTANTS alice, bob, carol, relay, friend, r1, r2, s1, s2, s3

McLeaf == [p \in {alice, bob, carol} |-> IF p = alice THEN 2 ELSE 1]
McPath ==
    [p \in {alice, bob, carol} |->
        IF p = alice THEN <<s1, s2, s3>>
        ELSE IF p = bob THEN <<s2, s2, s3>> ELSE <<s3>>]
McGenesisWallet ==
    [w \in {alice, bob, carol, relay, friend} |->
        IF w = relay THEN 8 ELSE IF w = friend THEN 1 ELSE 0]
\* What a stranger writes: siblings, of which some are those of the proof.
McChunks == {<<s1, s1>>}
McRent == [n \in {3} |-> 2]

McVisits == [r \in {r1, r2} |->
    IF r = r1 THEN <<alice>> ELSE <<carol, bob, alice>>]
TwiceAlice == [r \in {r1, r2} |-> <<alice>>]
=============================================================================
