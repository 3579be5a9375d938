----------------------------- MODULE LazyClaim -----------------------------
(***************************************************************************)
(* The lazy-claim program (programs/lazy-claim): claims against the        *)
(* genesis Merkle root, the staged proof buffers that carry proofs too     *)
(* deep for one transaction, and the admin's custody of the treasury.      *)
(*                                                                         *)
(* A transaction is atomic, so each instruction is one action; a guard     *)
(* that fails aborts the transaction and leaves every account unchanged,   *)
(* which is the stuttering step.  The runtime rules the handlers rely on   *)
(* are conjuncts of the actions: only the owner program may debit an       *)
(* account, create_account needs an account without lamports and a payer   *)
(* that can afford the rent, and lamports must balance at every CPI.       *)
(*                                                                         *)
(* SHA-256 is injective: the only proof that leads from p's leaf to        *)
(* claimable_root is Path[p].                                              *)
(***************************************************************************)
EXTENDS ProofBuffer, FiniteSets, Functions

CONSTANTS
    Wallets,         \* system accounts: claimants, fee payers, the vault
    Claimants,       \* pubkeys with a leaf under claimable_root
    Payers,          \* accounts that sign as fee payer (users and relayers)
    Leaf,            \* Leaf[p]: the lamports p's leaf commits to
    Path,            \* Path[p]: the sibling hashes of p's inclusion proof
    GenesisTreasury, \* treasury_pda_lamports of the composed genesis
    GenesisWallet,   \* lamports of each wallet before the first claim
    MarkerRent,      \* rent-exempt minimum of a claimed marker
    Rent,            \* Rent[n]: rent-exempt minimum of a buffer of n siblings
    NoMarker,        \* a marker PDA that does not exist
    LazyClaimId,     \* this program's id
    Owners,          \* programs that may own the treasury
    Amounts,         \* lamport amounts a claimant may sign for
    WriteChunks,     \* the byte strings a write may carry
    DrainAmounts,    \* the amounts the admin may drain
    DrainTo,         \* recipients of drains
    FeePayers,       \* traders whose secret-pump fees go to the treasury
    FeeAmounts,      \* the fees they may pay
    MaxBuffers       \* bound: buffers open at the same time

ASSUME WalletAssumption ==
    /\ IsFiniteSet(Wallets)
    /\ Claimants \subseteq Wallets
    /\ Payers \subseteq Wallets
    /\ DrainTo \subseteq Wallets
    /\ FeePayers \subseteq Wallets
ASSUME LeafAssumption == Leaf \in [Claimants -> Nat]
ASSUME PathAssumption == Path \in [Claimants -> Seq(Siblings)]
ASSUME RentAssumption ==
    /\ MarkerRent \in Nat
    /\ Rent \in [BufferLens -> Nat]
ASSUME GenesisAssumption ==
    /\ GenesisTreasury \in Nat
    /\ GenesisWallet \in [Wallets -> Nat]
ASSUME AmountAssumption ==
    /\ Amounts \subseteq Nat
    /\ DrainAmounts \subseteq Nat
    /\ FeeAmounts \subseteq Nat
ASSUME NoMarkerAssumption == NoMarker \notin Nat
ASSUME ChunkAssumption == WriteChunks \subseteq Seq(Siblings)
ASSUME OwnerAssumption == LazyClaimId \in Owners

VARIABLES
    treasury,        \* lamports of the treasury PDA
    treasuryOwner,   \* the program that owns the treasury PDA
    wallet,          \* wallet[w]: lamports of system account w
    marker,          \* marker[p]: lamports field of p's claimed marker
    buffer,          \* buffer[<<p, y>>]: the proof buffer payer y staged for p
    signed,          \* <<p, a>>: p signed the claim message for a lamports
    paid,            \* history: lamports claims have credited to p
    drained,         \* history: lamports drains have moved out
    collected        \* history: lamports fees have moved in

vars == <<treasury, treasuryOwner, wallet, marker, buffer, signed, paid, drained, collected>>

Keys == Claimants \X Payers

OpenBuffers == {k \in Keys : buffer[k] # NoBuffer}
Claimed == {p \in Claimants : marker[p] # NoMarker}

-----------------------------------------------------------------------------
Init ==
    /\ treasury = GenesisTreasury
    /\ treasuryOwner = LazyClaimId
    /\ wallet = GenesisWallet
    /\ marker = [p \in Claimants |-> NoMarker]
    /\ buffer = [k \in Keys |-> NoBuffer]
    /\ signed = {}
    /\ paid = [p \in Claimants |-> 0]
    /\ drained = 0
    /\ collected = 0

\* The claimant's wallet signs the claim message: prefix, pubkey, lamports
\* and program id.  The signature can be replayed by any payer afterwards.
SignClaimMessage(p, a) ==
    /\ <<p, a>> \notin signed
    /\ signed' = signed \cup {<<p, a>>}
    /\ UNCHANGED <<treasury, treasuryOwner, wallet, marker, buffer, paid, drained, collected>>

\* Mutant: the leaf hash does not cover the lamports.
InclusionOfPubkey(p, a, proof) == proof = Path[p]

VerifyInclusion(p, a, proof) == a = Leaf[p] /\ proof = Path[p]

\* Mutant: the owner rule is missing.
CreditByAnyone(a) == a <= treasury

\* credit_lamports: the runtime lets only the owner debit the treasury.
CanCredit(a) == treasuryOwner = LazyClaimId /\ a <= treasury

Credited(p, a) == [wallet EXCEPT ![p] = @ + a]

\* The runtime checks at a CPI that the lamports of the caller's accounts sum
\* up as before.  create_account is handed the payer but not the treasury: if
\* the payer is the recipient just credited, the CPI is UnbalancedInstruction.
BalancedAtCpi(p, a, payer) == payer = p => a = 0

\* Mutant: the claimed-marker check is missing.
CanFinalizeAgain(p, a, payer, proof) ==
    /\ VerifyInclusion(p, a, proof)
    /\ <<p, a>> \in signed
    /\ CanCredit(a)
    /\ BalancedAtCpi(p, a, payer)
    /\ MarkerRent <= Credited(p, a)[payer]

\* Mutant: the ed25519 precompile check is missing.
CanFinalizeUnsigned(p, a, payer, proof) ==
    /\ VerifyInclusion(p, a, proof)
    /\ marker[p] = NoMarker
    /\ CanCredit(a)
    /\ BalancedAtCpi(p, a, payer)
    /\ MarkerRent <= Credited(p, a)[payer]

\* The guards of finalize_claim, in the order of the code.
CanFinalize(p, a, payer, proof) ==
    /\ VerifyInclusion(p, a, proof)
    /\ <<p, a>> \in signed
    /\ marker[p] = NoMarker
    /\ CanCredit(a)
    /\ BalancedAtCpi(p, a, payer)
    /\ MarkerRent <= Credited(p, a)[payer]

\* Mutant: the payer is not charged the marker's rent.
SettledRentFree(p, a, payer) == Credited(p, a)

\* What finalize_claim leaves in the wallets: the credit, then the rent.
Settled(p, a, payer) == [Credited(p, a) EXCEPT ![payer] = @ - MarkerRent]

FinalizeClaim(p, a, payer, proof) ==
    /\ CanFinalize(p, a, payer, proof)
    /\ treasury' = treasury - a
    /\ marker' = [marker EXCEPT ![p] = a]
    /\ paid' = [paid EXCEPT ![p] = @ + a]
    /\ UNCHANGED <<treasuryOwner, signed, drained, collected>>

Claim(p, a, payer, proof) ==
    /\ FinalizeClaim(p, a, payer, proof)
    /\ wallet' = Settled(p, a, payer)
    /\ UNCHANGED buffer

InitProofBuffer(p, payer, n) ==
    /\ Cardinality(OpenBuffers) < MaxBuffers
    /\ buffer[<<p, payer>>] = NoBuffer
    /\ Rent[n] <= wallet[payer]
    /\ buffer' = [buffer EXCEPT ![<<p, payer>>] = NewBuffer(n)]
    /\ wallet' = [wallet EXCEPT ![payer] = @ - Rent[n]]
    /\ UNCHANGED <<treasury, treasuryOwner, marker, signed, paid, drained, collected>>

\* No signer is required: anyone may write to anyone's buffer.
WriteProofBuffer(p, payer, off, bytes) ==
    /\ buffer[<<p, payer>>] # NoBuffer
    /\ off + Len(bytes) <= buffer[<<p, payer>>].total_len
    /\ buffer' = [buffer EXCEPT ![<<p, payer>>] = WriteInto(@, off, bytes)]
    /\ UNCHANGED <<treasury, treasuryOwner, wallet, marker, signed, paid, drained, collected>>

\* close_proof_buffer returns the buffer's rent to the payer.
ClaimFromBuffer(p, a, payer, proofLen) ==
    LET b == buffer[<<p, payer>>]
    IN  /\ b # NoBuffer
        /\ BufferReady(b, proofLen)
        /\ FinalizeClaim(p, a, payer, StagedProof(b, proofLen))
        /\ buffer' = [buffer EXCEPT ![<<p, payer>>] = NoBuffer]
        /\ wallet' = [Settled(p, a, payer) EXCEPT ![payer] = @ + Rent[b.total_len]]

\* Signed by ADMIN_AUTHORITY.
DrainTreasury(amount, to) ==
    /\ treasuryOwner = LazyClaimId
    /\ amount <= treasury
    /\ treasury' = treasury - amount
    /\ wallet' = [wallet EXCEPT ![to] = @ + amount]
    /\ drained' = drained + amount
    /\ UNCHANGED <<treasuryOwner, marker, buffer, signed, paid, collected>>

\* Signed by ADMIN_AUTHORITY; the treasury has no data, so assign succeeds.
AssignTreasuryOwner(newOwner) ==
    /\ treasuryOwner = LazyClaimId
    /\ treasuryOwner' = newOwner
    /\ UNCHANGED <<treasury, wallet, marker, buffer, signed, paid, drained, collected>>

\* The fee of a secret-pump trade: a transfer in needs no owner's consent.
PayFee(w, amount) ==
    /\ amount <= wallet[w]
    /\ wallet' = [wallet EXCEPT ![w] = @ - amount]
    /\ treasury' = treasury + amount
    /\ collected' = collected + amount
    /\ UNCHANGED <<treasuryOwner, marker, buffer, signed, paid, drained>>

ClaimInline ==
    \E p \in Claimants, a \in Amounts, payer \in Payers, q \in Claimants :
        Claim(p, a, payer, Path[q])

ClaimBuffered ==
    \E p \in Claimants, a \in Amounts, payer \in Payers, n \in BufferLens :
        ClaimFromBuffer(p, a, payer, n)

StageBuffer ==
    \E p \in Claimants, payer \in Payers :
        \/ \E n \in BufferLens : InitProofBuffer(p, payer, n)
        \/ \E off \in BufferLens \cup {0}, bytes \in WriteChunks :
               WriteProofBuffer(p, payer, off, bytes)

Administer ==
    \/ \E amount \in DrainAmounts, to \in DrainTo : DrainTreasury(amount, to)
    \/ \E o \in Owners : AssignTreasuryOwner(o)

Next ==
    \/ \E p \in Claimants, a \in Amounts : SignClaimMessage(p, a)
    \/ ClaimInline
    \/ ClaimBuffered
    \/ StageBuffer
    \/ Administer
    \/ \E w \in FeePayers, amount \in FeeAmounts : PayFee(w, amount)

Spec == Init /\ [][Next]_vars

-----------------------------------------------------------------------------
(* Properties *)

TypeOK ==
    /\ treasury \in Nat
    /\ treasuryOwner \in Owners
    /\ wallet \in [Wallets -> Nat]
    /\ marker \in [Claimants -> Nat \cup {NoMarker}]
    /\ buffer \in [Keys -> Buffers \cup {NoBuffer}]
    /\ signed \subseteq Claimants \X Amounts
    /\ paid \in [Claimants -> Nat]
    /\ drained \in Nat
    /\ collected \in Nat

\* However many relayers replay a signed claim, inline or through buffers, a
\* claimant is paid once and for the lamports of its leaf, and the marker says so
\* (finalize_claim, SPEC I2).
PaidOnceForLeaf ==
    \A p \in Claimants :
        paid[p] = IF marker[p] = NoMarker THEN 0 ELSE Leaf[p]

\* A marker exists only for a claimant who signed for exactly the amount it
\* records: no payer can settle a claim its owner did not ask for.
ClaimedWithConsent ==
    \A p \in Claimants : marker[p] # NoMarker => <<p, marker[p]>> \in signed

\* Every lamport that left the treasury was either paid to a claimant under
\* its leaf or drained by the admin, and every one that came in was a fee.
TreasuryAccounted ==
    treasury + drained + SumFunctionOnSet(Leaf, Claimed)
      = GenesisTreasury + collected

\* The lamports of the open buffers.
BufferRent == [k \in OpenBuffers |-> Rent[buffer[k].total_len]]

\* Across treasury, wallets, markers and buffers no instruction creates or
\* destroys lamports: rent taken at init comes back at close.
LamportsConserved ==
    treasury
      + SumFunction(wallet)
      + MarkerRent * Cardinality(Claimed)
      + SumFunction(BufferRent)
      = GenesisTreasury + SumFunction(GenesisWallet)

\* The high-water mark bounds what was written: past bytes_written a buffer
\* still holds the zero bytes it was created with (process_write_proof_buffer).
UnwrittenIsBlank ==
    \A k \in OpenBuffers : \A i \in 1..buffer[k].total_len :
        buffer[k].bytes_written < i => buffer[k].data[i] = Blank

\* Once custody is handed over, no instruction of this program debits the
\* treasury, takes custody back or pays another claim.
HandoffFreezesClaims ==
    [][treasuryOwner # LazyClaimId =>
         /\ treasury' >= treasury
         /\ UNCHANGED <<treasuryOwner, marker, paid, drained>>]_vars

\* A buffer is closed only by the claim it was staged for.  One that is still
\* open when its claimant is paid through another payer, or that is staged
\* after that, can never be closed again: its rent is locked for good
\* (process_claim_from_buffer, close_proof_buffer).
ClosedOnlyByItsClaim ==
    [][\A p \in Claimants, y \in Payers :
         buffer[<<p, y>>] # NoBuffer /\ buffer'[<<p, y>>] = NoBuffer
           => marker[p] = NoMarker /\ marker'[p] = Leaf[p]]_vars

\* The implemented ledger: markers are the claimed set, the treasury the pool.
Ledger == INSTANCE ClaimLedger
    WITH claimed <- Claimed, pool <- treasury, withdrawn <- drained,
         open <- treasuryOwner = LazyClaimId, Supply <- GenesisTreasury
LedgerSpec == Ledger!LedgerSpec

\* credit_lamports says it debits "a pre-credited treasury PDA that holds
\* sum(claimable.lamports) from genesis": as long as the admin has drained
\* nothing, a claim that is still to come finds its lamports in the treasury.
ClaimsNeverLackFunds ==
    drained = 0 => \A p \in Claimants \ Claimed : Leaf[p] <= treasury

\* The CLI submits the claim with the claimant's own keypair as recipient, signer
\* and fee payer: with the signature, the funds and the rent there, it goes through.
OwnKeypairClaims ==
    \A p \in Claimants \cap Payers :
        /\ p \notin Claimed
        /\ <<p, Leaf[p]>> \in signed
        /\ CanCredit(Leaf[p])
        /\ MarkerRent <= wallet[p]
        => CanFinalize(p, Leaf[p], p, Path[p])
=============================================================================
