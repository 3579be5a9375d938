---------------------------- MODULE ClaimProofs ----------------------------
(***************************************************************************)
(* Proofs about the claims.  First of the program, LazyClaim: for every    *)
(* snapshot, tree and set of payers, its types, its books and what it pays.*)
(* Then of the sponsored claims, for any number of tabs, claimants, proofs *)
(* and chunks: what a buffered request has staged when it comes to its     *)
(* claim (RelayInv), and whether what is answered is true (AnswerInv).     *)
(***************************************************************************)
EXTENDS ClaimPage, SharedLemmas, TLAPS

-----------------------------------------------------------------------------
(* Proof buffers.                                                          *)

\* Staging bytes keeps a buffer well formed, whatever the offset and however
\* the writes are ordered (write_proof_buffer).
LEMMA WriteKeepsBuffer ==
    ASSUME NEW b \in Buffers, NEW off \in Nat, NEW bytes \in Seq(Siblings),
           off + Len(bytes) <= b.total_len
    PROVE  /\ WriteInto(b, off, bytes) \in Buffers
           /\ WriteInto(b, off, bytes).total_len = b.total_len
  <1> DEFINE S == Siblings \cup {Blank}
  <1>1. PICK n \in BufferLens :
          b \in [total_len : {n}, bytes_written : 0..n, data : [1..n -> S]]
    BY DEF Buffers
  <1>2. n \in Nat /\ b.total_len = n /\ Len(bytes) \in Nat /\ bytes \in Seq(S)
    BY <1>1, LengthAssumption
  <1> HIDE DEF S
  <1>3. WriteInto(b, off, bytes).data \in [1..n -> S]
    BY <1>1, <1>2, Overwritten DEF WriteInto
  <1>4. WriteInto(b, off, bytes) \in
          [total_len : {n}, bytes_written : 0..n, data : [1..n -> S]]
    BY <1>1, <1>2, <1>3 DEF WriteInto
  <1>5. QED
    BY <1>1, <1>2, <1>4 DEF Buffers, WriteInto, S

\* A buffer fresh from init_proof_buffer is well formed.
LEMMA NewBufferIsBuffer ==
    ASSUME NEW n \in BufferLens
    PROVE  NewBuffer(n) \in Buffers
  BY LengthAssumption DEF NewBuffer, Buffers

\* What a claim that passes every check of finalize_claim does to the types.
LEMMA FinalizeTypes ==
    ASSUME TypeOK, NEW p \in Claimants, NEW a \in Amounts, NEW payer \in Payers,
           NEW proof, FinalizeClaim(p, a, payer, proof)
    PROVE  /\ a \in Nat /\ a = Leaf[p] /\ marker[p] = NoMarker
           /\ <<p, a>> \in signed /\ treasuryOwner = LazyClaimId
           /\ treasury' \in Nat
           /\ marker' \in [Claimants -> Nat \cup {NoMarker}]
           /\ paid' \in [Claimants -> Nat]
           /\ Settled(p, a, payer) \in [Wallets -> Nat]
  <1>1. a \in Nat /\ MarkerRent \in Nat /\ p \in Wallets /\ payer \in Wallets
    BY AmountAssumption, RentAssumption, WalletAssumption
  <1>2. a = Leaf[p] /\ marker[p] = NoMarker /\ <<p, a>> \in signed
        /\ treasuryOwner = LazyClaimId /\ a <= treasury
        /\ MarkerRent <= Credited(p, a)[payer]
    BY DEF FinalizeClaim, CanFinalize, VerifyInclusion, CanCredit
  <1>3. treasury' \in Nat
    BY <1>1, <1>2 DEF FinalizeClaim, TypeOK
  <1>4. /\ marker' \in [Claimants -> Nat \cup {NoMarker}]
        /\ paid' \in [Claimants -> Nat]
    BY <1>1 DEF FinalizeClaim, TypeOK
  <1>5. Settled(p, a, payer) \in [Wallets -> Nat]
    <2>1. Credited(p, a) \in [Wallets -> Nat]
      BY <1>1 DEF TypeOK, Credited
    <2>2. Credited(p, a)[payer] \in Nat
      BY <1>1, <2>1
    <2>3. Credited(p, a)[payer] - MarkerRent \in Nat
      BY <1>1, <1>2, <2>2
    <2>4. QED
      BY <1>1, <2>1, <2>3 DEF Settled
  <1>6. QED
    BY <1>1, <1>2, <1>3, <1>4, <1>5

\* The buffers that a claim or a write acts on are well formed.
LEMMA OpenBufferIsBuffer ==
    ASSUME TypeOK, NEW p \in Claimants, NEW payer \in Payers,
           buffer[<<p, payer>>] # NoBuffer
    PROVE  /\ buffer[<<p, payer>>] \in Buffers
           /\ buffer[<<p, payer>>].total_len \in BufferLens
  <1>1. <<p, payer>> \in Keys
    BY DEF Keys
  <1>2. buffer[<<p, payer>>] \in Buffers
    BY <1>1 DEF TypeOK
  <1>3. QED
    BY <1>2 DEF Buffers

\* Type correctness is inductive: no account goes below zero and no buffer
\* is written outside its allocation.
LEMMA TypeStep == TypeOK /\ [Next]_vars => TypeOK'
  <1> SUFFICES ASSUME TypeOK, [Next]_vars PROVE TypeOK'
    OBVIOUS
  <1>1. ASSUME NEW p \in Claimants, NEW a \in Amounts, SignClaimMessage(p, a)
        PROVE  TypeOK'
    BY <1>1 DEF SignClaimMessage, TypeOK
  <1>2. ASSUME NEW p \in Claimants, NEW a \in Amounts, NEW payer \in Payers,
               NEW proof, Claim(p, a, payer, proof)
        PROVE  TypeOK'
    <2>1. FinalizeClaim(p, a, payer, proof)
      BY <1>2 DEF Claim
    <2>2. treasury' \in Nat /\ marker' \in [Claimants -> Nat \cup {NoMarker}]
          /\ paid' \in [Claimants -> Nat] /\ Settled(p, a, payer) \in [Wallets -> Nat]
      BY <2>1, FinalizeTypes
    <2>3. QED
      BY <1>2, <2>1, <2>2 DEF Claim, FinalizeClaim, TypeOK
  <1>3. ASSUME NEW p \in Claimants, NEW a \in Amounts, NEW payer \in Payers,
               NEW n \in BufferLens, ClaimFromBuffer(p, a, payer, n)
        PROVE  TypeOK'
    <2> DEFINE b == buffer[<<p, payer>>]
    <2>1. b # NoBuffer /\ FinalizeClaim(p, a, payer, StagedProof(b, n))
          /\ buffer' = [buffer EXCEPT ![<<p, payer>>] = NoBuffer]
          /\ wallet' = [Settled(p, a, payer) EXCEPT ![payer] = @ + Rent[b.total_len]]
      BY <1>3 DEF ClaimFromBuffer
    <2>2. treasury' \in Nat /\ marker' \in [Claimants -> Nat \cup {NoMarker}]
          /\ paid' \in [Claimants -> Nat] /\ Settled(p, a, payer) \in [Wallets -> Nat]
      BY <2>1, FinalizeTypes
    <2>3. Rent[b.total_len] \in Nat
      BY <2>1, OpenBufferIsBuffer, RentAssumption, LengthAssumption
    <2>4. wallet' \in [Wallets -> Nat]
      <3> HIDE DEF b
      <3>1. payer \in Wallets
        BY WalletAssumption
      <3>2. QED
        BY <2>1, <2>2, <2>3, <3>1
    <2>5. QED
      BY <2>1, <2>2, <2>4 DEF FinalizeClaim, TypeOK
  <1>4. ASSUME NEW p \in Claimants, NEW payer \in Payers, NEW n \in BufferLens,
               InitProofBuffer(p, payer, n)
        PROVE  TypeOK'
    <2>1. NewBuffer(n) \in Buffers /\ payer \in Wallets /\ Rent[n] \in Nat
      BY NewBufferIsBuffer, WalletAssumption, RentAssumption
    <2>2. wallet' \in [Wallets -> Nat]
      BY <1>4, <2>1 DEF InitProofBuffer, TypeOK
    <2>3. buffer' \in [Keys -> Buffers \cup {NoBuffer}]
      BY <1>4, <2>1 DEF InitProofBuffer, TypeOK
    <2>4. QED
      BY <1>4, <2>2, <2>3 DEF InitProofBuffer, TypeOK
  <1>5. ASSUME NEW p \in Claimants, NEW payer \in Payers, NEW off \in BufferLens \cup {0},
               NEW bytes \in WriteChunks, WriteProofBuffer(p, payer, off, bytes)
        PROVE  TypeOK'
    <2> DEFINE b == buffer[<<p, payer>>]
    <2>1. b \in Buffers
      BY <1>5, OpenBufferIsBuffer DEF WriteProofBuffer
    <2>2. off \in Nat /\ off + Len(bytes) <= b.total_len
      BY <1>5, LengthAssumption DEF WriteProofBuffer
    <2>3. WriteInto(b, off, bytes) \in Buffers
      BY <2>1, <2>2, WriteKeepsBuffer, ChunkAssumption
    <2>4. buffer' \in [Keys -> Buffers \cup {NoBuffer}]
      BY <1>5, <2>3 DEF WriteProofBuffer, TypeOK
    <2>5. QED
      BY <1>5, <2>4 DEF WriteProofBuffer, TypeOK
  <1>6. ASSUME NEW amount \in DrainAmounts, NEW to \in DrainTo, DrainTreasury(amount, to)
        PROVE  TypeOK'
    BY <1>6, AmountAssumption, WalletAssumption DEF DrainTreasury, TypeOK
  <1>7. ASSUME NEW o \in Owners, AssignTreasuryOwner(o)
        PROVE  TypeOK'
    BY <1>7 DEF AssignTreasuryOwner, TypeOK
  <1>8. ASSUME NEW w \in FeePayers, NEW amount \in FeeAmounts, PayFee(w, amount)
        PROVE  TypeOK'
    <2>1. w \in Wallets /\ amount \in Nat
      BY AmountAssumption, WalletAssumption
    <2>2. QED
      BY <1>8, <2>1 DEF PayFee, TypeOK
  <1>9. CASE UNCHANGED vars
    BY <1>9 DEF vars, TypeOK
  <1>10. QED
    BY <1>1, <1>2, <1>3, <1>4, <1>5, <1>6, <1>7, <1>8, <1>9
       DEF Next, ClaimInline, ClaimBuffered, StageBuffer, Administer

\* The initial state is of the right shape.
LEMMA TypeInit == Init => TypeOK
  BY GenesisAssumption, OwnerAssumption DEF Init, TypeOK

\* Every account of the program keeps a value the code can hold: balances do
\* not underflow and buffers stay within the length they were allocated with.
THEOREM TypeCorrect == Spec => []TypeOK
  BY TypeInit, TypeStep, PTL DEF Spec

-----------------------------------------------------------------------------
(* What any step does to the ledger: one claim, one admin act, or nothing. *)

SettlesClaim(p) ==
    /\ marker[p] = NoMarker
    /\ <<p, Leaf[p]>> \in signed
    /\ treasuryOwner = LazyClaimId
    /\ Leaf[p] <= treasury
    /\ treasury' = treasury - Leaf[p]
    /\ marker' = [marker EXCEPT ![p] = Leaf[p]]
    /\ paid' = [paid EXCEPT ![p] = @ + Leaf[p]]
    /\ UNCHANGED <<treasuryOwner, signed, drained, collected>>

Drains ==
    /\ treasuryOwner = LazyClaimId
    /\ \E amount \in 0..treasury : /\ treasury' = treasury - amount
                                   /\ drained' = drained + amount
    /\ UNCHANGED <<treasuryOwner, marker, paid, signed, collected>>

Funds ==
    /\ \E amount \in Nat : /\ treasury' = treasury + amount
                           /\ collected' = collected + amount
    /\ UNCHANGED <<treasuryOwner, marker, paid, signed, drained>>

HandsOver ==
    /\ treasuryOwner = LazyClaimId
    /\ treasuryOwner' # LazyClaimId
    /\ UNCHANGED <<treasury, marker, paid, signed, drained, collected>>

LeavesLedger ==
    /\ UNCHANGED <<treasury, treasuryOwner, marker, paid, drained, collected>>
    /\ signed \subseteq signed'

\* Settling changes one account and the treasury.
LEMMA FinalizeSettles ==
    ASSUME TypeOK, NEW p \in Claimants, NEW a \in Amounts, NEW payer \in Payers,
           NEW proof, FinalizeClaim(p, a, payer, proof)
    PROVE  SettlesClaim(p)
  BY DEF FinalizeClaim, CanFinalize, VerifyInclusion, CanCredit, SettlesClaim

\* A step settles one claim, drains the pool, funds it, hands the treasury over,
\* or leaves all that alone.
LEMMA StepShape ==
    ASSUME TypeOK, [Next]_vars
    PROVE  \/ \E p \in Claimants : SettlesClaim(p)
           \/ Drains
           \/ Funds
           \/ HandsOver
           \/ LeavesLedger
  <1>1. ASSUME NEW p \in Claimants, NEW a \in Amounts, SignClaimMessage(p, a)
        PROVE  LeavesLedger
    BY <1>1 DEF SignClaimMessage, LeavesLedger
  <1>2. ASSUME NEW p \in Claimants, NEW a \in Amounts, NEW payer \in Payers,
               NEW proof, Claim(p, a, payer, proof)
        PROVE  SettlesClaim(p)
    BY <1>2, FinalizeSettles DEF Claim
  <1>3. ASSUME NEW p \in Claimants, NEW a \in Amounts, NEW payer \in Payers,
               NEW n \in BufferLens, ClaimFromBuffer(p, a, payer, n)
        PROVE  SettlesClaim(p)
    BY <1>3, FinalizeSettles DEF ClaimFromBuffer
  <1>4. ASSUME NEW p \in Claimants, NEW payer \in Payers, NEW n \in BufferLens,
               InitProofBuffer(p, payer, n)
        PROVE  LeavesLedger
    BY <1>4 DEF InitProofBuffer, LeavesLedger
  <1>5. ASSUME NEW p \in Claimants, NEW payer \in Payers, NEW off \in BufferLens \cup {0},
               NEW bytes \in WriteChunks, WriteProofBuffer(p, payer, off, bytes)
        PROVE  LeavesLedger
    BY <1>5 DEF WriteProofBuffer, LeavesLedger
  <1>6. ASSUME NEW amount \in DrainAmounts, NEW to \in DrainTo, DrainTreasury(amount, to)
        PROVE  Drains
    <2>1. amount \in Nat /\ treasury \in Nat /\ amount <= treasury
      BY <1>6, AmountAssumption DEF TypeOK, DrainTreasury
    <2>2. amount \in 0..treasury
      BY <2>1
    <2>3. QED
      BY <1>6, <2>2 DEF DrainTreasury, Drains
  <1>7. ASSUME NEW o \in Owners, AssignTreasuryOwner(o)
        PROVE  HandsOver \/ LeavesLedger
    BY <1>7 DEF AssignTreasuryOwner, HandsOver, LeavesLedger
  <1>8. ASSUME NEW w \in FeePayers, NEW amount \in FeeAmounts, PayFee(w, amount)
        PROVE  Funds
    <2>1. amount \in Nat /\ treasury \in Nat
      BY AmountAssumption DEF TypeOK
    <2>2. QED
      BY <1>8, <2>1 DEF PayFee, Funds
  <1>9. CASE UNCHANGED vars
    BY <1>9 DEF vars, LeavesLedger
  <1>10. QED
    BY <1>1, <1>2, <1>3, <1>4, <1>5, <1>6, <1>7, <1>8, <1>9
       DEF Next, ClaimInline, ClaimBuffered, StageBuffer, Administer

-----------------------------------------------------------------------------
(* One payment per claimant, for its leaf and with its signature.          *)

\* A leaf that was claimed is not claimed again.
LEMMA PaidOnceStep ==
    ASSUME TypeOK, PaidOnceForLeaf, [Next]_vars
    PROVE  PaidOnceForLeaf'
  <1>1. ASSUME NEW p \in Claimants, SettlesClaim(p)
        PROVE  PaidOnceForLeaf'
    <2>1. Leaf[p] \in Nat /\ Leaf[p] # NoMarker
      BY LeafAssumption, NoMarkerAssumption
    <2>2. paid[p] = 0
      BY <1>1 DEF PaidOnceForLeaf, SettlesClaim
    <2>3. paid'[p] = Leaf[p] /\ marker'[p] = Leaf[p]
      BY <1>1, <2>1, <2>2 DEF SettlesClaim, TypeOK
    <2>4. \A q \in Claimants \ {p} : paid'[q] = paid[q] /\ marker'[q] = marker[q]
      BY <1>1 DEF SettlesClaim, TypeOK
    <2>5. QED
      BY <2>1, <2>3, <2>4 DEF PaidOnceForLeaf
  <1>2. CASE UNCHANGED <<marker, paid>>
    BY <1>2 DEF PaidOnceForLeaf
  <1>3. QED
    BY <1>1, <1>2, StepShape DEF Drains, Funds, HandsOver, LeavesLedger

\* Nobody is paid without its own signature.
LEMMA ConsentStep ==
    ASSUME TypeOK, ClaimedWithConsent, [Next]_vars
    PROVE  ClaimedWithConsent'
  <1>1. ASSUME NEW p \in Claimants, SettlesClaim(p)
        PROVE  ClaimedWithConsent'
    BY <1>1 DEF ClaimedWithConsent, SettlesClaim, TypeOK
  <1>2. CASE marker' = marker /\ signed \subseteq signed'
    BY <1>2 DEF ClaimedWithConsent
  <1>3. QED
    BY <1>1, <1>2, StepShape DEF Drains, Funds, HandsOver, LeavesLedger

\* Nothing is claimed at first.
LEMMA LedgerInvInit == Init => PaidOnceForLeaf /\ ClaimedWithConsent
  BY DEF Init, PaidOnceForLeaf, ClaimedWithConsent

\* A signed claim pays its owner once and for its leaf, whoever relays it, how
\* often it is replayed and whichever of the two claim instructions carries it.
THEOREM PaidOnce == Spec => []PaidOnceForLeaf
  BY TypeInit, TypeStep, LedgerInvInit, PaidOnceStep, PTL DEF Spec

\* No claim settles without its owner's signature over the amount paid.
THEOREM Consent == Spec => []ClaimedWithConsent
  BY TypeInit, TypeStep, LedgerInvInit, ConsentStep, PTL DEF Spec

\* After the custody handoff this program never debits the treasury again.
THEOREM HandoffIsFinal == Spec => HandoffFreezesClaims
  <1>1. ASSUME TypeOK, [Next]_vars, treasuryOwner # LazyClaimId
        PROVE  /\ treasury' >= treasury
               /\ UNCHANGED <<treasuryOwner, marker, paid, drained>>
    <2>1. Funds \/ LeavesLedger
      BY <1>1, StepShape DEF SettlesClaim, Drains, HandsOver
    <2>2. treasury \in Nat
      BY <1>1 DEF TypeOK
    <2>3. QED
      BY <2>1, <2>2 DEF Funds, LeavesLedger
  <1>2. TypeOK /\ [Next]_vars =>
          [treasuryOwner # LazyClaimId =>
             /\ treasury' >= treasury
             /\ UNCHANGED <<treasuryOwner, marker, paid, drained>>]_vars
    BY <1>1
  <1>3. QED
    BY <1>2, TypeInit, TypeStep, PTL DEF Spec, HandoffFreezesClaims

-----------------------------------------------------------------------------
(* The program implements the one-shot ledger.                             *)

\* Every step is a step of the ledger, or none.
LEMMA LedgerStep ==
    ASSUME TypeOK, [Next]_vars
    PROVE  [Ledger!LedgerNext]_(Ledger!ledgerVars)
  <1>1. ASSUME NEW p \in Claimants, SettlesClaim(p)
        PROVE  Ledger!Materialize(p)
    <2>1. Leaf[p] # NoMarker
      BY LeafAssumption, NoMarkerAssumption
    <2>2. marker' = [marker EXCEPT ![p] = Leaf[p]] /\ marker \in [Claimants -> Nat \cup {NoMarker}]
      BY <1>1 DEF SettlesClaim, TypeOK
    <2>3. Claimed' = Claimed \cup {p} /\ p \notin Claimed
      BY <1>1, <2>1, <2>2 DEF Claimed, SettlesClaim
    <2>4. QED
      BY <1>1, <2>3 DEF SettlesClaim, Ledger!Materialize
  <1>2. ASSUME Drains PROVE Ledger!Withdraw
    BY <1>2 DEF Drains, Ledger!Withdraw, Claimed
  <1>3. ASSUME HandsOver PROVE Ledger!Close
    BY <1>3 DEF HandsOver, Ledger!Close, Claimed
  <1>4. ASSUME Funds PROVE Ledger!Deposit \/ UNCHANGED Ledger!ledgerVars
    BY <1>4 DEF Funds, Ledger!Deposit, Ledger!ledgerVars, Claimed, TypeOK
  <1>5. ASSUME LeavesLedger PROVE UNCHANGED Ledger!ledgerVars
    BY <1>5 DEF LeavesLedger, Ledger!ledgerVars, Claimed
  <1>6. QED
    BY <1>1, <1>2, <1>3, <1>4, <1>5, StepShape DEF Ledger!LedgerNext

\* Both claim instructions, the buffers and the admin's acts together are an
\* implementation of the one-shot ledger: a step materializes one claim for
\* its leaf, withdraws, closes, or leaves the ledger alone.
THEOREM ImplementsLedger == Spec => LedgerSpec
  <1>1. Init => Ledger!LedgerInit
    BY DEF Init, Ledger!LedgerInit, Claimed
  <1>2. QED
    BY <1>1, TypeInit, TypeStep, LedgerStep, PTL
       DEF Spec, LedgerSpec, Ledger!LedgerSpec

-----------------------------------------------------------------------------
(* Buffers: what a step may do to one.                                     *)

\* A step leaves a buffer alone, allocates it, writes into it, or closes it
\* with the claim it was staged for.
BufferFate(k) ==
    \/ buffer'[k] = buffer[k]
    \/ \E n \in BufferLens : buffer'[k] = NewBuffer(n)
    \/ /\ buffer[k] # NoBuffer
       /\ \E off \in Nat, bytes \in WriteChunks :
            /\ off + Len(bytes) <= buffer[k].total_len
            /\ buffer'[k] = WriteInto(buffer[k], off, bytes)
    \/ buffer'[k] = NoBuffer /\ SettlesClaim(k[1])

\* Only the claim it proves closes a buffer.
LEMMA BufferStep ==
    ASSUME TypeOK, [Next]_vars, NEW k \in Keys
    PROVE  BufferFate(k)
  <1>0. buffer \in [Keys -> Buffers \cup {NoBuffer}]
    BY DEF TypeOK
  <1>1. CASE UNCHANGED buffer
    BY <1>1 DEF BufferFate
  <1>2. ASSUME NEW p \in Claimants, NEW a \in Amounts, NEW payer \in Payers,
               NEW n \in BufferLens, ClaimFromBuffer(p, a, payer, n)
        PROVE  BufferFate(k)
    <2>1. SettlesClaim(p) /\ buffer' = [buffer EXCEPT ![<<p, payer>>] = NoBuffer]
      BY <1>2, FinalizeSettles DEF ClaimFromBuffer
    <2>2. CASE k = <<p, payer>>
      BY <1>0, <2>1, <2>2 DEF BufferFate
    <2>3. CASE k # <<p, payer>>
      BY <1>0, <2>1, <2>3 DEF BufferFate
    <2>4. QED
      BY <2>2, <2>3
  <1>3. ASSUME NEW p \in Claimants, NEW payer \in Payers, NEW n \in BufferLens,
               InitProofBuffer(p, payer, n)
        PROVE  BufferFate(k)
    BY <1>0, <1>3 DEF InitProofBuffer, BufferFate
  <1>4. ASSUME NEW p \in Claimants, NEW payer \in Payers, NEW off \in BufferLens \cup {0},
               NEW bytes \in WriteChunks, WriteProofBuffer(p, payer, off, bytes)
        PROVE  BufferFate(k)
    <2>1. off \in Nat
      BY LengthAssumption
    <2>2. CASE k = <<p, payer>>
      BY <1>0, <1>4, <2>1, <2>2 DEF WriteProofBuffer, BufferFate
    <2>3. CASE k # <<p, payer>>
      BY <1>0, <1>4, <2>3 DEF WriteProofBuffer, BufferFate
    <2>4. QED
      BY <2>2, <2>3
  <1>5. QED
    BY <1>1, <1>2, <1>3, <1>4
       DEF Next, ClaimInline, ClaimBuffered, StageBuffer, Administer, vars,
           SignClaimMessage, Claim, DrainTreasury, AssignTreasuryOwner, PayFee

\* A buffer goes away only with the claim it was staged for, and that claim
\* happens once: a buffer that outlives it keeps its rent for good.
THEOREM OnlyItsClaimCloses == Spec => ClosedOnlyByItsClaim
  <1>1. ASSUME TypeOK, [Next]_vars, NEW p \in Claimants, NEW y \in Payers,
               buffer[<<p, y>>] # NoBuffer, buffer'[<<p, y>>] = NoBuffer
        PROVE  marker[p] = NoMarker /\ marker'[p] = Leaf[p]
    <2> DEFINE k == <<p, y>>
    <2>1. k \in Keys /\ k[1] = p
      BY DEF Keys
    <2>2. BufferFate(k)
      BY <1>1, <2>1, BufferStep
    <2>3. \A n \in BufferLens : NewBuffer(n) # NoBuffer
      BY NewBufferIsBuffer, NoBufferAssumption
    <2>4. \A off \in Nat, bytes \in WriteChunks :
            off + Len(bytes) <= buffer[k].total_len => WriteInto(buffer[k], off, bytes) # NoBuffer
      BY <1>1, OpenBufferIsBuffer, WriteKeepsBuffer, ChunkAssumption, NoBufferAssumption
    <2>5. SettlesClaim(p)
      BY <1>1, <2>1, <2>2, <2>3, <2>4 DEF BufferFate
    <2>6. QED
      BY <1>1, <2>5 DEF SettlesClaim, TypeOK
  <1>2. TypeOK /\ [Next]_vars =>
          [\A p \in Claimants, y \in Payers :
             buffer[<<p, y>>] # NoBuffer /\ buffer'[<<p, y>>] = NoBuffer
               => marker[p] = NoMarker /\ marker'[p] = Leaf[p]]_vars
    BY <1>1
  <1>3. QED
    BY <1>2, TypeInit, TypeStep, PTL DEF Spec, ClosedOnlyByItsClaim

\* The tail of a buffer past its high-water mark is blank.
BlankTail(b) == \A i \in 1..b.total_len : b.bytes_written < i => b.data[i] = Blank

\* A write blanks nothing and skips nothing.
LEMMA WriteKeepsTail ==
    ASSUME NEW b \in Buffers, BlankTail(b), NEW off \in Nat, NEW bytes \in WriteChunks,
           off + Len(bytes) <= b.total_len
    PROVE  BlankTail(WriteInto(b, off, bytes))
  <1>1. PICK n \in Nat : b.total_len = n /\ b.bytes_written \in 0..n
    BY LengthAssumption DEF Buffers
  <1>2. Len(bytes) \in Nat
    BY ChunkAssumption, BlankAssumption
  <1>3. QED
    BY <1>1, <1>2 DEF WriteInto, BlankTail

\* What was not written stays blank.
LEMMA BlankTailStep ==
    ASSUME TypeOK, UnwrittenIsBlank, [Next]_vars
    PROVE  UnwrittenIsBlank'
  <1>1. SUFFICES ASSUME NEW k \in Keys, buffer'[k] # NoBuffer
                 PROVE  BlankTail(buffer'[k])
    BY DEF UnwrittenIsBlank, OpenBuffers, BlankTail
  <1>2. BufferFate(k)
    BY BufferStep
  <1>3. buffer[k] # NoBuffer => buffer[k] \in Buffers /\ BlankTail(buffer[k])
    BY DEF TypeOK, UnwrittenIsBlank, OpenBuffers, BlankTail
  <1>4. \A n \in BufferLens : BlankTail(NewBuffer(n))
    BY DEF BlankTail, NewBuffer
  <1>5. QED
    BY <1>1, <1>2, <1>3, <1>4, WriteKeepsTail DEF BufferFate

\* Whoever writes to a buffer, and in whatever order the chunks land, the
\* bytes past the high-water mark are still the zeros it was created with.
THEOREM TailIsBlank == Spec => []UnwrittenIsBlank
  <1>1. Init => UnwrittenIsBlank
    BY DEF Init, UnwrittenIsBlank, OpenBuffers
  <1>2. QED
    BY <1>1, TypeInit, TypeStep, BlankTailStep, PTL DEF Spec

-----------------------------------------------------------------------------
(* Every lamport is accounted for.                                         *)

\* There are finitely many accounts of each kind.
LEMMA FiniteAccounts ==
    /\ IsFiniteSet(Wallets) /\ IsFiniteSet(Claimants) /\ IsFiniteSet(Keys)
    /\ IsFiniteSet(Claimed) /\ Cardinality(Claimed) \in Nat
    /\ IsFiniteSet(OpenBuffers)
  <1>1. IsFiniteSet(Wallets) /\ IsFiniteSet(Claimants) /\ IsFiniteSet(Payers)
    BY WalletAssumption, FS_Subset
  <1>2. IsFiniteSet(Keys)
    BY <1>1, FS_Product DEF Keys
  <1>3. Claimed \in SUBSET Claimants /\ OpenBuffers \in SUBSET Keys
    BY DEF Claimed, OpenBuffers
  <1>4. QED
    BY <1>1, <1>2, <1>3, FS_Subset, FS_CardinalityType

\* A claim that settles adds its claimant to the claimed ones.
LEMMA SettlingClaims ==
    ASSUME TypeOK, NEW p \in Claimants, SettlesClaim(p)
    PROVE  p \notin Claimed /\ Claimed' = Claimed \cup {p}
  <1>1. Leaf[p] # NoMarker
    BY LeafAssumption, NoMarkerAssumption
  <1>2. marker' = [marker EXCEPT ![p] = Leaf[p]] /\ marker \in [Claimants -> Nat \cup {NoMarker}]
    BY DEF SettlesClaim, TypeOK
  <1>3. QED
    BY <1>1, <1>2 DEF Claimed, SettlesClaim

Owed == SumFunctionOnSet(Leaf, Claimed)

\* The treasury stays what it was funded with, less what was drained and less the
\* leaves of those who claimed.
LEMMA AccountedStep ==
    ASSUME TypeOK, TreasuryAccounted, [Next]_vars
    PROVE  TreasuryAccounted'
  <1>1. treasury \in Nat /\ drained \in Nat /\ collected \in Nat /\ GenesisTreasury \in Nat
    BY GenesisAssumption DEF TypeOK
  <1>2. \A p \in Claimants : Leaf[p] \in Int
    BY LeafAssumption
  <1>3. Owed \in Int
    BY <1>2, FiniteAccounts, SumInt DEF Claimed, Owed
  <1>4. treasury + drained + Owed = GenesisTreasury + collected
    BY DEF TreasuryAccounted, Owed
  <1>5. ASSUME NEW p \in Claimants, SettlesClaim(p)
        PROVE  TreasuryAccounted'
    <2>1. p \notin Claimed /\ Claimed' = Claimed \cup {p}
      BY <1>5, SettlingClaims
    <2>2. \A q \in Claimed \cup {p} : Leaf[q] \in Int
      BY <1>2 DEF Claimed
    <2>3. SumFunctionOnSet(Leaf, Claimed \cup {p}) = Owed + Leaf[p]
      BY <2>1, <2>2, FiniteAccounts, SumAdd DEF Owed
    <2>4. PICK due \in Int : due = Leaf[p]
      BY <1>2
    <2>5. /\ treasury' = treasury - due /\ Owed' = Owed + due
          /\ drained' = drained /\ collected' = collected
      BY <1>5, <2>1, <2>3, <2>4 DEF SettlesClaim, Owed
    <2>6. treasury' + drained' + Owed' = GenesisTreasury + collected'
      BY <1>1, <1>3, <1>4, <2>5
    <2>7. QED
      BY <2>6 DEF Owed, TreasuryAccounted
  <1>6. ASSUME UNCHANGED marker
        PROVE  Owed' = Owed
    BY <1>6 DEF Claimed, Owed
  <1>7. CASE Drains
    <2>1. PICK amount \in Nat :
            treasury' = treasury - amount /\ drained' = drained + amount
      BY <1>1, <1>7 DEF Drains
    <2>2. Owed' = Owed /\ collected' = collected
      BY <1>6, <1>7 DEF Drains
    <2>3. treasury' + drained' + Owed' = GenesisTreasury + collected'
      BY <1>1, <1>3, <1>4, <2>1, <2>2
    <2>4. QED
      BY <2>3 DEF Owed, TreasuryAccounted
  <1>8. CASE Funds
    <2>1. PICK amount \in Nat :
            treasury' = treasury + amount /\ collected' = collected + amount
      BY <1>8 DEF Funds
    <2>2. Owed' = Owed /\ drained' = drained
      BY <1>6, <1>8 DEF Funds
    <2>3. treasury' + drained' + Owed' = GenesisTreasury + collected'
      BY <1>1, <1>3, <1>4, <2>1, <2>2
    <2>4. QED
      BY <2>3 DEF Owed, TreasuryAccounted
  <1>9. CASE HandsOver \/ LeavesLedger
    BY <1>4, <1>6, <1>9 DEF HandsOver, LeavesLedger, Owed, TreasuryAccounted
  <1>10. QED
    BY <1>5, <1>7, <1>8, <1>9, StepShape

\* The treasury balances: what claims have paid under their leaves and drains
\* have taken is what genesis put in and fees have added.
THEOREM TreasuryBalances == Spec => []TreasuryAccounted
  <1>1. Init => TreasuryAccounted
    <2>1. Init => Claimed = {}
      BY DEF Init, Claimed
    <2>2. QED
      BY <2>1, SumEmpty, GenesisAssumption DEF Init, TreasuryAccounted
  <1>2. QED
    BY <1>1, TypeInit, TypeStep, AccountedStep, PTL DEF Spec

-----------------------------------------------------------------------------
(* No instruction creates or destroys lamports.                            *)

InWallets == SumFunction(wallet)
InMarkers == MarkerRent * Cardinality(Claimed)
InBuffers == SumFunction(BufferRent)

\* What LamportsConserved adds up, part by part.
LEMMA Conserved ==
    LamportsConserved
      <=> treasury + InWallets + InMarkers + InBuffers
            = GenesisTreasury + SumFunction(GenesisWallet)
  BY DEF LamportsConserved, InWallets, InMarkers, InBuffers

\* Everyone holds a number of lamports.
LEMMA HoldingTypes ==
    ASSUME TypeOK
    PROVE  /\ treasury \in Int /\ InWallets \in Int /\ InMarkers \in Int /\ InBuffers \in Int
           /\ \A k \in OpenBuffers : BufferRent[k] \in Int
  <1>1. InWallets \in Int
    <2>1. DOMAIN wallet = Wallets /\ \A w \in Wallets : wallet[w] \in Int
      BY DEF TypeOK
    <2>2. QED
      BY <2>1, FiniteAccounts, SumInt DEF InWallets, SumFunction
  <1>2. InMarkers \in Int
    BY FiniteAccounts, RentAssumption DEF InMarkers
  <1>3. \A k \in OpenBuffers : BufferRent[k] \in Int
    BY OpenBufferIsBuffer, RentAssumption DEF BufferRent, OpenBuffers, Keys
  <1>4. InBuffers \in Int
    <2>1. DOMAIN BufferRent = OpenBuffers
      BY DEF BufferRent
    <2>2. QED
      BY <1>3, <2>1, FiniteAccounts, SumInt DEF InBuffers, SumFunction
  <1>5. QED
    BY <1>1, <1>2, <1>3, <1>4 DEF TypeOK

\* One wallet changes by an amount.
LEMMA WalletMoves ==
    ASSUME NEW f \in [Wallets -> Nat], NEW w \in Wallets, NEW amount \in Int,
           NEW g, DOMAIN g = Wallets, g[w] = f[w] + amount,
           \A v \in Wallets \ {w} : g[v] = f[v]
    PROVE  SumFunction(g) = SumFunction(f) + amount
  <1>0. IsFiniteSet(Wallets)
    BY WalletAssumption
  <1>1. DOMAIN f = Wallets /\ DOMAIN g = Wallets
    OBVIOUS
  <1>2. \A v \in Wallets : f[v] \in Int
    OBVIOUS
  <1>3. g[w] = f[w] + amount /\ \A v \in Wallets \ {w} : g[v] = f[v]
    OBVIOUS
  <1>4. g[w] \in Int
    BY <1>2, <1>3
  <1>5. SumFunctionOnSet(g, Wallets) = SumFunctionOnSet(f, Wallets) - f[w] + g[w]
    BY <1>0, <1>2, <1>3, <1>4, SumChange
  <1>6. SumFunctionOnSet(f, Wallets) \in Int
    BY <1>0, <1>2, SumInt
  <1>7. PICK before \in Int, total \in Int :
          before = f[w] /\ total = SumFunctionOnSet(f, Wallets)
    BY <1>2, <1>6
  <1>8. SumFunctionOnSet(g, Wallets) = total - before + (before + amount)
    BY <1>3, <1>5, <1>7
  <1>9. total - before + (before + amount) = total + amount
    OBVIOUS
  <1>10. QED
    BY <1>1, <1>7, <1>8, <1>9 DEF SumFunction

\* A claim moves its leaf out of the treasury into the claimant's wallet, and
\* the marker's rent from the payer's wallet into the marker.
LEMMA SettlingMoves ==
    ASSUME TypeOK, NEW p \in Claimants, NEW a \in Amounts, NEW payer \in Payers,
           NEW proof, FinalizeClaim(p, a, payer, proof)
    PROVE  /\ a \in Int
           /\ treasury' = treasury - a
           /\ SumFunction(Settled(p, a, payer)) = InWallets + a - MarkerRent
           /\ InMarkers' = InMarkers + MarkerRent
  <1>1. /\ a \in Int /\ MarkerRent \in Int /\ p \in Wallets /\ payer \in Wallets
        /\ SettlesClaim(p) /\ treasury' = treasury - a
    <2>1. a \in Int /\ MarkerRent \in Int /\ p \in Wallets /\ payer \in Wallets
      BY AmountAssumption, RentAssumption, WalletAssumption
    <2>2. SettlesClaim(p)
      BY FinalizeSettles
    <2>3. treasury' = treasury - a
      BY DEF FinalizeClaim
    <2>4. QED
      BY <2>1, <2>2, <2>3
  <1>2. wallet \in [Wallets -> Nat] /\ a \in Nat
    BY AmountAssumption DEF TypeOK
  <1>3. Credited(p, a) \in [Wallets -> Nat]
    BY <1>1, <1>2 DEF Credited
  <1>4. SumFunction(Credited(p, a)) = InWallets + a
    <2>1. /\ DOMAIN Credited(p, a) = Wallets
          /\ Credited(p, a)[p] = wallet[p] + a
          /\ \A v \in Wallets \ {p} : Credited(p, a)[v] = wallet[v]
      BY <1>1, <1>2 DEF Credited
    <2>2. QED
      BY <1>1, <1>2, <2>1, WalletMoves DEF InWallets
  <1>5. SumFunction(Settled(p, a, payer)) = SumFunction(Credited(p, a)) + (0 - MarkerRent)
    <2> DEFINE c == Credited(p, a)
    <2>1. PICK rent \in Int : rent = 0 - MarkerRent
      BY <1>1
    <2>2. c[payer] \in Nat
      BY <1>1, <1>3
    <2>3. c[payer] - MarkerRent = c[payer] + rent
      BY <1>1, <2>1, <2>2
    <2>4. /\ DOMAIN Settled(p, a, payer) = Wallets
          /\ Settled(p, a, payer)[payer] = c[payer] + rent
          /\ \A v \in Wallets \ {payer} : Settled(p, a, payer)[v] = c[v]
      BY <1>1, <1>3, <2>3 DEF Settled
    <2>5. c \in [Wallets -> Nat]
      BY <1>3
    <2> HIDE DEF c
    <2>6. SumFunction(Settled(p, a, payer)) = SumFunction(c) + rent
      BY <1>1, <2>1, <2>4, <2>5, WalletMoves
    <2>7. QED
      BY <2>1, <2>6 DEF c
  <1>6. SumFunction(Settled(p, a, payer)) = InWallets + a - MarkerRent
    <2>1. PICK rent \in Int : rent = MarkerRent
      BY <1>1
    <2>2. InWallets \in Int
      BY HoldingTypes
    <2>3. QED
      BY <1>1, <1>4, <1>5, <2>1, <2>2
  <1>7. InMarkers' = InMarkers + MarkerRent
    <2>1. p \notin Claimed /\ Claimed' = Claimed \cup {p}
      BY <1>1, SettlingClaims
    <2>2. Cardinality(Claimed') = Cardinality(Claimed) + 1
      BY <2>1, FiniteAccounts, FS_AddElement
    <2>3. PICK n \in Int, rent \in Int : n = Cardinality(Claimed) /\ rent = MarkerRent
      BY <1>1, FiniteAccounts
    <2>4. rent * (n + 1) = rent * n + rent
      OBVIOUS
    <2>5. QED
      BY <2>2, <2>3, <2>4 DEF InMarkers
  <1>8. QED
    BY <1>1, <1>6, <1>7

\* The rent in the buffers, as a sum over the open ones.
LEMMA InBuffersSum == InBuffers = SumFunctionOnSet(BufferRent, OpenBuffers)
  BY DEF InBuffers, SumFunction, BufferRent

\* Allocating a buffer puts its rent into it.
LEMMA OpeningMoves ==
    ASSUME TypeOK, NEW p \in Claimants, NEW payer \in Payers, NEW n \in BufferLens,
           InitProofBuffer(p, payer, n)
    PROVE  InBuffers' = InBuffers + Rent[n]
  <1> DEFINE k == <<p, payer>>
  <1>1. k \in Keys /\ k \notin OpenBuffers /\ buffer' = [buffer EXCEPT ![k] = NewBuffer(n)]
    BY DEF Keys, OpenBuffers, InitProofBuffer
  <1>2. NewBuffer(n) # NoBuffer /\ NewBuffer(n).total_len = n
    BY NewBufferIsBuffer, NoBufferAssumption DEF NewBuffer
  <1> HIDE DEF k
  <1>3. /\ OpenBuffers' = OpenBuffers \cup {k}
        /\ \A j \in OpenBuffers : buffer'[j] = buffer[j]
        /\ buffer'[k] = NewBuffer(n)
    BY <1>1, <1>2 DEF OpenBuffers, TypeOK
  <1>4. /\ \A j \in OpenBuffers : BufferRent'[j] = BufferRent[j]
        /\ BufferRent'[k] = Rent[n]
    BY <1>2, <1>3 DEF BufferRent
  <1>5. \A j \in OpenBuffers \cup {k} : BufferRent'[j] \in Int
    <2>1. Rent[n] \in Int
      BY RentAssumption
    <2>2. QED
      BY <1>4, <2>1, HoldingTypes
  <1>6. SumFunctionOnSet(BufferRent', OpenBuffers \cup {k})
          = SumFunctionOnSet(BufferRent', OpenBuffers) + Rent[n]
    BY <1>1, <1>4, <1>5, FiniteAccounts, SumAdd
  <1>7. SumFunctionOnSet(BufferRent', OpenBuffers) = SumFunctionOnSet(BufferRent, OpenBuffers)
    BY <1>4, FiniteAccounts, SumSame
  <1>8. InBuffers' = SumFunctionOnSet(BufferRent', OpenBuffers')
    BY DEF InBuffers, SumFunction, BufferRent
  <1>9. QED
    BY <1>3, <1>6, <1>7, <1>8, InBuffersSum

\* Closing a buffer takes its rent out of it.
LEMMA ClosingMoves ==
    ASSUME TypeOK, NEW p \in Claimants, NEW payer \in Payers,
           buffer[<<p, payer>>] # NoBuffer,
           buffer' = [buffer EXCEPT ![<<p, payer>>] = NoBuffer]
    PROVE  /\ InBuffers' \in Int
           /\ InBuffers = InBuffers' + Rent[buffer[<<p, payer>>].total_len]
  <1> DEFINE k == <<p, payer>>
  <1>1. k \in Keys /\ k \in OpenBuffers /\ buffer' = [buffer EXCEPT ![k] = NoBuffer]
    BY DEF Keys, OpenBuffers
  <1>2. BufferRent[k] = Rent[buffer[<<p, payer>>].total_len]
    BY <1>1 DEF BufferRent
  <1> HIDE DEF k
  <1>3. /\ OpenBuffers' = OpenBuffers \ {k}
        /\ \A j \in OpenBuffers \ {k} : buffer'[j] = buffer[j]
    BY <1>1 DEF OpenBuffers, TypeOK
  <1>4. \A j \in OpenBuffers \ {k} : BufferRent'[j] = BufferRent[j]
    BY <1>3 DEF BufferRent
  <1>5. SumFunctionOnSet(BufferRent, OpenBuffers)
          = BufferRent[k] + SumFunctionOnSet(BufferRent, OpenBuffers \ {k})
    BY <1>1, HoldingTypes, FiniteAccounts, SumTake
  <1>6. IsFiniteSet(OpenBuffers \ {k})
    BY FiniteAccounts, FS_RemoveElement
  <1>7. SumFunctionOnSet(BufferRent', OpenBuffers \ {k})
          = SumFunctionOnSet(BufferRent, OpenBuffers \ {k})
    BY <1>4, <1>6, SumSame
  <1>8. InBuffers' = SumFunctionOnSet(BufferRent', OpenBuffers')
    BY DEF InBuffers, SumFunction, BufferRent
  <1>9. InBuffers' \in Int /\ BufferRent[k] \in Int
    <2>1. SumFunctionOnSet(BufferRent, OpenBuffers \ {k}) \in Int
      BY <1>6, HoldingTypes, SumInt
    <2>2. QED
      BY <1>1, <1>3, <1>7, <1>8, <2>1, HoldingTypes
  <1>10. InBuffers = BufferRent[k] + InBuffers'
    BY <1>3, <1>5, <1>7, <1>8, InBuffersSum
  <1>11. QED
    BY <1>2, <1>9, <1>10

\* Writing into a buffer leaves its rent where it is.
LEMMA WritingMoves ==
    ASSUME TypeOK, NEW p \in Claimants, NEW payer \in Payers, NEW off \in BufferLens \cup {0},
           NEW bytes \in WriteChunks, WriteProofBuffer(p, payer, off, bytes)
    PROVE  InBuffers' = InBuffers
  <1> DEFINE k == <<p, payer>>
             b == WriteInto(buffer[k], off, bytes)
  <1>1. k \in OpenBuffers /\ buffer' = [buffer EXCEPT ![k] = b]
    BY DEF Keys, OpenBuffers, WriteProofBuffer
  <1>2. b # NoBuffer /\ b.total_len = buffer[k].total_len
    <2>1. buffer[k] \in Buffers
      BY OpenBufferIsBuffer DEF WriteProofBuffer
    <2>2. off \in Nat /\ off + Len(bytes) <= buffer[k].total_len
      BY LengthAssumption DEF WriteProofBuffer
    <2>3. QED
      BY <2>1, <2>2, WriteKeepsBuffer, ChunkAssumption, NoBufferAssumption
  <1> HIDE DEF k, b
  <1>3. /\ OpenBuffers' = OpenBuffers
        /\ \A j \in OpenBuffers : buffer'[j].total_len = buffer[j].total_len
    BY <1>1, <1>2 DEF OpenBuffers, TypeOK
  <1>4. BufferRent' = BufferRent
    BY <1>3 DEF BufferRent
  <1>5. QED
    BY <1>4 DEF InBuffers

\* Lamports move, and none appear.
LEMMA ConservedStep ==
    ASSUME TypeOK, LamportsConserved, [Next]_vars
    PROVE  LamportsConserved'
  <1> DEFINE total == GenesisTreasury + SumFunction(GenesisWallet)
  <1>1. /\ treasury \in Int /\ InWallets \in Int /\ InMarkers \in Int /\ InBuffers \in Int
        /\ treasury + InWallets + InMarkers + InBuffers = total
    BY HoldingTypes, Conserved
  <1>2. LamportsConserved' <=> treasury' + InWallets' + InMarkers' + InBuffers' = total
    BY DEF LamportsConserved, InWallets, InMarkers, InBuffers
  <1>3. ASSUME UNCHANGED marker PROVE InMarkers' = InMarkers
    BY <1>3 DEF InMarkers, Claimed
  <1>4. ASSUME UNCHANGED buffer PROVE InBuffers' = InBuffers
    BY <1>4 DEF InBuffers, BufferRent, OpenBuffers
  <1>5. ASSUME UNCHANGED wallet PROVE InWallets' = InWallets
    BY <1>5 DEF InWallets
  <1> HIDE DEF total
  <1>6. ASSUME NEW p \in Claimants, NEW a \in Amounts, NEW payer \in Payers,
               NEW proof, Claim(p, a, payer, proof)
        PROVE  LamportsConserved'
    <2>1. FinalizeClaim(p, a, payer, proof) /\ wallet' = Settled(p, a, payer)
          /\ UNCHANGED buffer
      BY <1>6 DEF Claim
    <2>2. PICK due \in Int, rent \in Int :
            /\ treasury' = treasury - due
            /\ InWallets' = InWallets + due - rent
            /\ InMarkers' = InMarkers + rent
      BY <2>1, SettlingMoves, RentAssumption DEF InWallets
    <2>3. InBuffers' = InBuffers
      BY <1>4, <2>1
    <2>4. treasury' + InWallets' + InMarkers' + InBuffers' = total
      BY <1>1, <2>2, <2>3
    <2>5. QED
      BY <1>2, <2>4
  <1>7. ASSUME NEW p \in Claimants, NEW a \in Amounts, NEW payer \in Payers,
               NEW n \in BufferLens, ClaimFromBuffer(p, a, payer, n)
        PROVE  LamportsConserved'
    <2> DEFINE b == buffer[<<p, payer>>]
               settled == Settled(p, a, payer)
    <2>1. /\ b # NoBuffer /\ FinalizeClaim(p, a, payer, StagedProof(b, n))
          /\ buffer' = [buffer EXCEPT ![<<p, payer>>] = NoBuffer]
          /\ wallet' = [settled EXCEPT ![payer] = @ + Rent[b.total_len]]
      BY <1>7 DEF ClaimFromBuffer
    <2>2. PICK back \in Int : back = Rent[b.total_len]
      BY <2>1, OpenBufferIsBuffer, RentAssumption
    <2>3. InBuffers = InBuffers' + back
      BY <2>1, <2>2, ClosingMoves
    <2>4. settled \in [Wallets -> Nat] /\ payer \in Wallets
      BY <2>1, FinalizeTypes, WalletAssumption
    <2>5. SumFunction(wallet') = SumFunction(settled) + back
      <3>1. /\ DOMAIN wallet' = Wallets
            /\ wallet'[payer] = settled[payer] + back
            /\ \A v \in Wallets \ {payer} : wallet'[v] = settled[v]
        <4> HIDE DEF b, settled
        <4>1. QED
          BY <2>1, <2>2, <2>4
      <3> HIDE DEF settled
      <3>2. QED
        BY <2>4, <3>1, WalletMoves
    <2>6. PICK due \in Int, rent \in Int :
            /\ treasury' = treasury - due
            /\ SumFunction(settled) = InWallets + due - rent
            /\ InMarkers' = InMarkers + rent
      BY <2>1, SettlingMoves, RentAssumption
    <2>7. InWallets' = InWallets + due - rent + back
      BY <2>5, <2>6 DEF InWallets
    <2>8. PICK left \in Int : left = InBuffers'
      BY <2>1, ClosingMoves
    <2>9. treasury' + InWallets' + InMarkers' + InBuffers' = total
      BY <1>1, <2>3, <2>6, <2>7, <2>8
    <2>10. QED
      BY <1>2, <2>9
  <1>8. ASSUME NEW p \in Claimants, NEW payer \in Payers, NEW n \in BufferLens,
               InitProofBuffer(p, payer, n)
        PROVE  LamportsConserved'
    <2>1. PICK rent \in Int : rent = Rent[n]
      BY RentAssumption
    <2>2. InBuffers' = InBuffers + rent
      BY <1>8, <2>1, OpeningMoves
    <2>3. InWallets' = InWallets + (0 - rent)
      <3>1. payer \in Wallets /\ wallet \in [Wallets -> Nat]
        BY WalletAssumption DEF TypeOK
      <3>2. PICK debit \in Int : debit = 0 - rent
        OBVIOUS
      <3>3. /\ DOMAIN wallet' = Wallets
            /\ wallet'[payer] = wallet[payer] + debit
            /\ \A v \in Wallets \ {payer} : wallet'[v] = wallet[v]
        BY <1>8, <2>1, <3>1, <3>2 DEF InitProofBuffer
      <3>4. SumFunction(wallet') = SumFunction(wallet) + debit
        BY <3>1, <3>3, WalletMoves
      <3>5. QED
        BY <3>2, <3>4 DEF InWallets
    <2>4. treasury' = treasury /\ InMarkers' = InMarkers
      BY <1>3, <1>8 DEF InitProofBuffer
    <2>5. treasury' + InWallets' + InMarkers' + InBuffers' = total
      BY <1>1, <2>2, <2>3, <2>4
    <2>6. QED
      BY <1>2, <2>5
  <1>9. ASSUME NEW p \in Claimants, NEW payer \in Payers, NEW off \in BufferLens \cup {0},
               NEW bytes \in WriteChunks, WriteProofBuffer(p, payer, off, bytes)
        PROVE  LamportsConserved'
    <2>1. InBuffers' = InBuffers
      BY <1>9, WritingMoves
    <2>2. treasury' = treasury /\ InWallets' = InWallets /\ InMarkers' = InMarkers
      BY <1>3, <1>5, <1>9 DEF WriteProofBuffer
    <2>3. QED
      BY <1>1, <1>2, <2>1, <2>2
  <1>10. ASSUME NEW amount \in DrainAmounts, NEW to \in DrainTo, DrainTreasury(amount, to)
         PROVE  LamportsConserved'
    <2>1. PICK moved \in Int : moved = amount
      BY AmountAssumption
    <2>2. InWallets' = InWallets + moved
      <3>1. to \in Wallets /\ wallet \in [Wallets -> Nat]
        BY WalletAssumption DEF TypeOK
      <3>2. /\ DOMAIN wallet' = Wallets
            /\ wallet'[to] = wallet[to] + moved
            /\ \A v \in Wallets \ {to} : wallet'[v] = wallet[v]
        BY <1>10, <2>1, <3>1 DEF DrainTreasury
      <3>3. QED
        BY <3>1, <3>2, WalletMoves DEF InWallets
    <2>3. treasury' = treasury - moved /\ InMarkers' = InMarkers /\ InBuffers' = InBuffers
      BY <1>3, <1>4, <1>10, <2>1 DEF DrainTreasury
    <2>4. treasury' + InWallets' + InMarkers' + InBuffers' = total
      BY <1>1, <2>2, <2>3
    <2>5. QED
      BY <1>2, <2>4
  <1>11. ASSUME NEW w \in FeePayers, NEW amount \in FeeAmounts, PayFee(w, amount)
         PROVE  LamportsConserved'
    <2>1. PICK fee \in Int : fee = amount
      BY AmountAssumption
    <2>2. InWallets' = InWallets + (0 - fee)
      <3>1. w \in Wallets /\ wallet \in [Wallets -> Nat]
        BY WalletAssumption DEF TypeOK
      <3>2. PICK debit \in Int : debit = 0 - fee
        OBVIOUS
      <3>3. /\ DOMAIN wallet' = Wallets
            /\ wallet'[w] = wallet[w] + debit
            /\ \A v \in Wallets \ {w} : wallet'[v] = wallet[v]
        BY <1>11, <2>1, <3>1, <3>2 DEF PayFee
      <3>4. SumFunction(wallet') = SumFunction(wallet) + debit
        BY <3>1, <3>3, WalletMoves
      <3>5. QED
        BY <3>2, <3>4 DEF InWallets
    <2>3. treasury' = treasury + fee /\ InMarkers' = InMarkers /\ InBuffers' = InBuffers
      BY <1>3, <1>4, <1>11, <2>1 DEF PayFee
    <2>4. treasury' + InWallets' + InMarkers' + InBuffers' = total
      BY <1>1, <2>2, <2>3
    <2>5. QED
      BY <1>2, <2>4
  <1>12. CASE UNCHANGED <<treasury, wallet, marker, buffer>>
    BY <1>1, <1>2, <1>3, <1>4, <1>5, <1>12
  <1>13. QED
    BY <1>6, <1>7, <1>8, <1>9, <1>10, <1>11, <1>12
       DEF Next, ClaimInline, ClaimBuffered, StageBuffer, Administer, vars,
           SignClaimMessage, AssignTreasuryOwner

\* Lamports move between the treasury, the wallets, the markers and the proof
\* buffers, and none is created or destroyed, whatever instructions run.
THEOREM LamportsAreConserved == Spec => []LamportsConserved
  <1>1. Init => LamportsConserved
    <2>1. ASSUME Init
          PROVE  LamportsConserved
      <3>1. Claimed = {} /\ OpenBuffers = {}
        BY <2>1 DEF Init, Claimed, OpenBuffers
      <3>2. InMarkers = 0
        BY <3>1, FS_EmptySet, RentAssumption DEF InMarkers
      <3>3. InBuffers = 0
        BY <3>1, SumEmpty, InBuffersSum
      <3>4. treasury = GenesisTreasury /\ InWallets = SumFunction(GenesisWallet)
        BY <2>1 DEF Init, InWallets
      <3>5. treasury \in Int /\ InWallets \in Int
        BY <2>1, TypeInit, HoldingTypes
      <3>6. QED
        BY <3>2, <3>3, <3>4, <3>5, Conserved
    <2>2. QED
      BY <2>1
  <1>2. QED
    BY <1>1, TypeInit, TypeStep, ConservedStep, PTL DEF Spec

-----------------------------------------------------------------------------
(* Chunks.                                                                 *)

\* How many siblings of q's proof the first k chunks hold.
Upto(q, k) == Reach(Len(Path[q]), ChunkLen, k)

\* A proof is a sequence of siblings; one too long for an inline claim has a
\* length some buffer has.
LEMMA PathTypes ==
    ASSUME NEW q \in Claimants
    PROVE  /\ Path[q] \in Seq(Siblings)
           /\ Len(Path[q]) \in Nat
           /\ ChunkLen \in Nat \ {0}
           /\ ~Inline(q) => Len(Path[q]) \in BufferLens \ {0}
  BY PathAssumption, RelayAssumption

\* The chunks of a plan cover the proof and none of them starts past its end.
LEMMA ChunkCount ==
    ASSUME NEW q \in Claimants
    PROVE  /\ NumChunks(q) \in Nat
           /\ \A k \in Nat : NumChunks(q) <= k => Upto(q, k) = Len(Path[q])
           /\ \A i \in 1..NumChunks(q) : (i - 1) * ChunkLen < Len(Path[q])
           /\ Len(Path[q]) # 0 => NumChunks(q) # 0
  <1>1. NumChunks(q) = ChunksOf(Len(Path[q]), ChunkLen)
    BY DEF NumChunks, ChunksOf
  <1>2. QED
    BY <1>1, PathTypes, ChunksCover DEF Upto

\* Chunk i holds the siblings after those of the chunks before it.
LEMMA ChunkIs ==
    ASSUME NEW q \in Claimants, NEW i \in 1..NumChunks(q)
    PROVE  /\ (i - 1) * ChunkLen \in Nat
           /\ Chunk(q, i) \in Seq(Siblings)
           /\ (i - 1) * ChunkLen + Len(Chunk(q, i)) = Upto(q, i)
           /\ Upto(q, i - 1) = (i - 1) * ChunkLen
           /\ Upto(q, i) \in Nat /\ Upto(q, i) <= Len(Path[q])
           /\ Upto(q, i - 1) <= Upto(q, i)
           /\ \A j \in Nat : Upto(q, i - 1) < j /\ j <= Upto(q, i) =>
                 Chunk(q, i)[j - Upto(q, i - 1)] = Path[q][j]
  <1>1. Path[q] \in Seq(Siblings) /\ ChunkLen \in Nat \ {0}
    BY PathTypes
  <1>2. i \in 1..ChunksOf(Len(Path[q]), ChunkLen)
    BY DEF NumChunks, ChunksOf
  <1>3. Chunk(q, i) = ChunkAt(Path[q], ChunkLen, i)
    BY DEF Chunk, ChunkAt
  <1>4. QED
    BY <1>1, <1>2, <1>3, ChunkHolds DEF Upto

-----------------------------------------------------------------------------
(* Buffers.                                                                *)

\* The buffer b holds the first k chunks of q's proof, but for the siblings F.
Filled(b, q, k, F) ==
    /\ b.total_len = Len(Path[q])
    /\ Upto(q, k) <= b.bytes_written
    /\ \A j \in Nat \ {0} : j <= Upto(q, k) => j \in F \/ b.data[j] = Path[q][j]

\* What the first k chunks are filled with stays when chunk i is written
\* again, and chunk i on top of those before it fills i of them.
LEMMA WriteFills ==
    ASSUME NEW q \in Claimants, NEW b \in Buffers, NEW i \in 1..NumChunks(q), NEW F,
           b.total_len = Len(Path[q])
    PROVE  LET w == WriteInto(b, (i - 1) * ChunkLen, Chunk(q, i))
           IN  /\ w \in Buffers
               /\ w.total_len = Len(Path[q])
               /\ Filled(b, q, i - 1, F) => Filled(w, q, i, F)
               /\ \A k \in Nat : Filled(b, q, k, F) => Filled(w, q, k, F)
  <1> DEFINE off == (i - 1) * ChunkLen
             bytes == Chunk(q, i)
             end == Upto(q, i)
             n == Len(Path[q])
             w == WriteInto(b, off, bytes)
  <1>1. /\ off \in Nat /\ bytes \in Seq(Siblings) /\ off + Len(bytes) = end
        /\ Upto(q, i - 1) = off /\ end \in Nat /\ end <= n /\ off <= end
        /\ \A j \in Nat : off < j /\ j <= end => bytes[j - off] = Path[q][j]
    BY ChunkIs
  <1>2. n \in Nat /\ ChunkLen \in Nat \ {0}
    BY PathTypes
  <1>3. b.bytes_written \in Nat
    <2>1. PICK m \in BufferLens :
            b \in [total_len : {m}, bytes_written : 0..m,
                   data : [1..m -> Siblings \cup {Blank}]]
      BY DEF Buffers
    <2>2. QED
      BY <2>1, LengthAssumption
  <1> HIDE DEF off, bytes, end, n
  <1>4. w \in Buffers /\ w.total_len = n
    BY <1>1, WriteKeepsBuffer DEF n
  <1>5. /\ w.bytes_written \in Nat
        /\ b.bytes_written <= w.bytes_written /\ end <= w.bytes_written
    BY <1>1, <1>3 DEF WriteInto
  <1>6. \A j \in Nat \ {0} : j <= n =>
            w.data[j] = IF off < j /\ j <= end THEN Path[q][j] ELSE b.data[j]
    <2>1. SUFFICES ASSUME NEW j \in Nat \ {0}, j <= n
                   PROVE  w.data[j] = IF off < j /\ j <= end THEN Path[q][j] ELSE b.data[j]
      OBVIOUS
    <2>2. j \in 1..b.total_len
      BY <1>2, <2>1 DEF n
    <2>3. w.data[j] = IF off < j /\ j <= off + Len(bytes) THEN bytes[j - off] ELSE b.data[j]
      BY <2>2 DEF WriteInto
    <2>4. QED
      BY <1>1, <2>1, <2>3
  <1> HIDE DEF w
  <1>7. ASSUME Filled(b, q, i - 1, F) PROVE Filled(w, q, i, F)
    <2>1. \A j \in Nat \ {0} : j <= end => j \in F \/ w.data[j] = Path[q][j]
      BY <1>1, <1>2, <1>6, <1>7 DEF Filled
    <2>2. QED
      BY <1>4, <1>5, <2>1 DEF Filled, end, n
  <1>8. ASSUME NEW k \in Nat, Filled(b, q, k, F) PROVE Filled(w, q, k, F)
    <2>1. Upto(q, k) \in Nat /\ Upto(q, k) <= n
      BY <1>2 DEF Upto, Reach, n
    <2>2. \A j \in Nat \ {0} : j <= Upto(q, k) => j \in F \/ w.data[j] = Path[q][j]
      BY <1>1, <1>2, <1>6, <1>8, <2>1 DEF Filled
    <2>3. QED
      BY <1>3, <1>4, <1>5, <1>8, <2>1, <2>2 DEF Filled, n
  <1>9. QED
    BY <1>4, <1>7, <1>8 DEF w, off, bytes, n

\* A fresh buffer has the proof's length.
LEMMA FreshIsBuffer ==
    ASSUME NEW q \in Claimants, ~Inline(q)
    PROVE  /\ NewBuffer(Len(Path[q])) \in Buffers
           /\ NewBuffer(Len(Path[q])).total_len = Len(Path[q])
  BY PathTypes, NewBufferIsBuffer DEF NewBuffer

\* A buffer filled with every chunk is ready, and what it has staged is the
\* proof, but for the siblings F.
LEMMA FilledIsReady ==
    ASSUME NEW q \in Claimants, NEW b \in Buffers, NEW k \in Nat, NEW F,
           NumChunks(q) <= k, Filled(b, q, k, F)
    PROVE  /\ BufferReady(b, Len(Path[q]))
           /\ \A j \in 1..Len(Path[q]) :
                 j \in F \/ StagedProof(b, Len(Path[q]))[j] = Path[q][j]
  <1>1. Upto(q, k) = Len(Path[q]) /\ Len(Path[q]) \in Nat
    BY ChunkCount, PathTypes
  <1>2. BufferReady(b, Len(Path[q]))
    BY <1>1 DEF Filled, BufferReady
  <1>3. \A j \in 1..Len(Path[q]) : j \in F \/ b.data[j] = Path[q][j]
    BY <1>1 DEF Filled
  <1>4. QED
    BY <1>2, <1>3 DEF StagedProof

-----------------------------------------------------------------------------
(* The invariant.                                                          *)

Refusals == [phase : {"failed"}, claimant : Claimants, leaf : Claimants]
Started == [phase : {"sending", "polling", "submitted", "done", "failed"},
            claimant : Claimants, leaf : Claimants, stage : Nat \ {0}, exists : BOOLEAN]

\* The shape of requests, and what is about them in the other variables.
RequestTypes ==
    /\ request \in [Requests -> {Idle} \cup Refusals \cup Started]
    /\ tx \in [Requests -> {"none", "inflight", "ok", "err", "expired"}]
    /\ marker \in [Claimants -> Nat \cup {NoMarker}]
    /\ buffer \in [Keys -> Buffers \cup {NoBuffer}]
    /\ DOMAIN foreign = Claimants
    /\ foreign = [p \in Claimants |-> foreign[p]]
    /\ \A r \in Requests : tx[r] # "none" => request[r] \in Started
    /\ \A r \in Requests : request[r] \in Started =>
          /\ request[r].stage <= ClaimStage(request[r].leaf)
          /\ request[r].phase = "sending" => tx[r] = "none"

\* A buffer of the sponsor was allocated by a request for its claimant, with
\* the length of the proof that this request brought.
BufferOfRequest ==
    \A p \in Claimants : buffer[<<p, Sponsor>>] # NoBuffer =>
        \E o \in Requests :
            /\ request[o] # Idle /\ request[o].claimant = p
            /\ buffer[<<p, Sponsor>>].total_len = Len(Path[request[o].leaf])

\* The stages of r that have landed, while it runs.
Landed(r) == IF tx[r] = "ok" THEN request[r].stage ELSE request[r].stage - 1

\* What a running request has written is still there, but for what strangers
\* overwrote, if the claimant is not paid and no other proof was staged.
Progress ==
    \A r \in Requests :
        Running(r) /\ ~Inline(request[r].leaf) =>
            LET p == request[r].claimant
            IN  \/ Landed(r) = 0
                \/ p \in Claimed
                \/ ProofsMixed(r, p)
                \/ /\ buffer[<<p, Sponsor>>] # NoBuffer
                   /\ Filled(buffer[<<p, Sponsor>>], request[r].leaf, Landed(r), foreign[p])

RelayInv == RequestTypes /\ BufferOfRequest /\ Progress

\* The invariant is about what the property says: at the claim all chunks have landed.
LEMMA InvStaged == RelayInv => StagedBeforeClaim
  <1> SUFFICES ASSUME RelayInv, NEW r \in Requests,
                      Running(r), ~Inline(request[r].leaf),
                      request[r].stage = ClaimStage(request[r].leaf),
                      request[r].claimant \notin Claimed,
                      ~ProofsMixed(r, request[r].claimant)
               PROVE  LET b == buffer[<<request[r].claimant, Sponsor>>]
                          q == request[r].leaf
                      IN  /\ b # NoBuffer
                          /\ BufferReady(b, Len(Path[q]))
                          /\ \A i \in 1..Len(Path[q]) :
                                \/ i \in foreign[request[r].claimant]
                                \/ StagedProof(b, Len(Path[q]))[i] = Path[q][i]
    BY DEF StagedBeforeClaim
  <1> DEFINE q == request[r].leaf
             p == request[r].claimant
             b == buffer[<<p, Sponsor>>]
  <1>1. request[r] \in Started /\ q \in Claimants /\ p \in Claimants
    BY DEF RelayInv, RequestTypes, Running, Idle, Refusals, Started
  <1>2. NumChunks(q) \in Nat \ {0}
    BY <1>1, ChunkCount, PathTypes
  <1>3. Landed(r) \in Nat /\ Landed(r) # 0 /\ NumChunks(q) <= Landed(r)
    BY <1>1, <1>2 DEF Landed, ClaimStage
  <1>4. b # NoBuffer /\ Filled(b, q, Landed(r), foreign[p])
    BY <1>3 DEF RelayInv, Progress
  <1>5. b \in Buffers
    BY <1>1, <1>4, RelayAssumption DEF RelayInv, RequestTypes, Keys
  <1> HIDE DEF b, q
  <1>6. QED
    BY <1>1, <1>3, <1>4, <1>5, FilledIsReady DEF b, q

-----------------------------------------------------------------------------
(* What the steps have in common.                                          *)

\* Once taken up, a request keeps its claimant and its leaf.
Kept(o) ==
    request[o] # Idle =>
        /\ request'[o] # Idle
        /\ request'[o].claimant = request[o].claimant
        /\ request'[o].leaf = request[o].leaf

\* A request that runs after the step has landed what it had before it.
SameLanded(o) ==
    Running(o)' /\ ~Inline(request'[o].leaf) =>
        \/ Landed(o)' = 0
        \/ Running(o) /\ Landed(o)' = Landed(o)

\* While requests keep what they are about, a pair of mixed proofs stays one.
LEMMA MixedStaysMixed ==
    ASSUME \A o \in Requests : Kept(o), NEW r \in Requests, request[r] # Idle,
           NEW p \in Claimants, ProofsMixed(r, p)
    PROVE  ProofsMixed(r, p)'
  BY DEF Kept, ProofsMixed

\* A running request is a started one.
LEMMA RunningIsStarted ==
    ASSUME RequestTypes, NEW r \in Requests, Running(r)
    PROVE  /\ request[r] \in Started /\ request[r] # Idle
           /\ request[r].claimant \in Claimants /\ request[r].leaf \in Claimants
           /\ request[r].stage \in Nat \ {0}
           /\ <<request[r].claimant, Sponsor>> \in Keys
  BY RelayAssumption DEF RequestTypes, Running, Idle, Refusals, Started, Keys

\* What is known of strangers' writes is of open buffers.
ForeignKept ==
    \A p \in Claimants : buffer[<<p, Sponsor>>] # NoBuffer => foreign'[p] = foreign[p]

\* Steps that touch no buffer and finish no write.
LEMMA QuietStep ==
    ASSUME RelayInv, RequestTypes', UNCHANGED buffer, ForeignKept, Claimed \subseteq Claimed',
           \A o \in Requests : Kept(o) /\ SameLanded(o)
    PROVE  RelayInv'
  <1>1. BufferOfRequest'
    BY DEF RelayInv, BufferOfRequest, Kept
  <1>2. Progress'
    <2> SUFFICES ASSUME NEW r \in Requests, Running(r)', ~Inline(request'[r].leaf),
                        Landed(r)' # 0,
                        NEW p, p = request'[r].claimant
                 PROVE  \/ p \in Claimed'
                        \/ ProofsMixed(r, p)'
                        \/ /\ buffer'[<<p, Sponsor>>] # NoBuffer
                           /\ Filled(buffer'[<<p, Sponsor>>], request'[r].leaf, Landed(r)',
                                     foreign'[p])
      BY DEF Progress
    <2>1. Running(r) /\ Landed(r)' = Landed(r)
      BY DEF SameLanded
    <2>2. request[r] # Idle /\ request[r].claimant \in Claimants
      BY <2>1, RunningIsStarted DEF RelayInv
    <2>3. p = request[r].claimant /\ request'[r].leaf = request[r].leaf
      BY <2>2 DEF Kept
    <2>4. ProofsMixed(r, p) => ProofsMixed(r, p)'
      BY <2>2, <2>3, MixedStaysMixed
    <2>5. \/ p \in Claimed
          \/ ProofsMixed(r, p)
          \/ /\ buffer[<<p, Sponsor>>] # NoBuffer
             /\ Filled(buffer[<<p, Sponsor>>], request[r].leaf, Landed(r), foreign[p])
      BY <2>1, <2>3 DEF RelayInv, Progress
    <2>6. buffer[<<p, Sponsor>>] # NoBuffer => foreign'[p] = foreign[p]
      BY <2>2, <2>3 DEF ForeignKept
    <2>7. QED
      BY <2>1, <2>3, <2>4, <2>5, <2>6
  <1>3. QED
    BY <1>1, <1>2 DEF RelayInv

-----------------------------------------------------------------------------
(* The actions.                                                            *)

\* What a claim does to markers.
LEMMA FinalizeMarks ==
    ASSUME RequestTypes, NEW p \in Claimants, NEW payer, NEW proof,
           FinalizeClaim(p, Leaf[p], payer, proof)
    PROVE  /\ marker' \in [Claimants -> Nat \cup {NoMarker}]
           /\ Claimed' = Claimed \cup {p}
  <1>1. marker \in [Claimants -> Nat \cup {NoMarker}]
    BY DEF RequestTypes
  <1>2. marker' = [marker EXCEPT ![p] = Leaf[p]] /\ Leaf[p] \in Nat
    BY LeafAssumption DEF FinalizeClaim
  <1>3. QED
    BY <1>1, <1>2, NoMarkerAssumption DEF Claimed

\* The stage at which a request claims comes after at least one other.
LEMMA ClaimStageTypes ==
    ASSUME NEW q \in Claimants
    PROVE  ClaimStage(q) \in Nat \ {0}
  BY ChunkCount DEF ClaimStage

\* What the claimants do.
LEMMA ClaimantSteps ==
    ASSUME RelayInv, ClaimantActs
    PROVE  RelayInv'
  <1>1. /\ UNCHANGED <<buffer, request, tx, foreign>>
        /\ marker' \in [Claimants -> Nat \cup {NoMarker}]
        /\ Claimed \subseteq Claimed'
    <2>1. CASE \E p \in Claimants : SignClaimMessage(p, Leaf[p])
      BY <2>1 DEF SignClaimMessage, ClaimantActs, relayVars, RelayInv, RequestTypes, Claimed
    <2>2. CASE \E p \in Claimants, payer \in Payers \ {Sponsor} :
                  Claim(p, Leaf[p], payer, Path[p])
      BY <2>2, FinalizeMarks DEF Claim, ClaimantActs, relayVars, RelayInv
    <2>3. QED
      BY <2>1, <2>2 DEF ClaimantActs
  <1>2. RequestTypes'
    BY <1>1 DEF RelayInv, RequestTypes
  <1>3. \A o \in Requests : Kept(o) /\ SameLanded(o)
    BY <1>1 DEF Kept, SameLanded, Running, Landed
  <1>4. QED
    BY <1>1, <1>2, <1>3, QuietStep DEF ForeignKept

\* Where a stranger writes is no longer the requests' own.
LEMMA StrangerSteps ==
    ASSUME RelayInv, StrangerWrites
    PROVE  RelayInv'
  <1>1. PICK p \in Claimants, bytes \in WriteChunks, off \in Nat :
            /\ WriteProofBuffer(p, Sponsor, off, bytes)
            /\ foreign' = [foreign EXCEPT ![p] = @ \cup (off + 1)..(off + Len(bytes))]
    <2>1. PICK p \in Claimants, n \in BufferLens, bytes \in WriteChunks : \E off \in 0..n :
              /\ WriteProofBuffer(p, Sponsor, off, bytes)
              /\ foreign' = [foreign EXCEPT ![p] = @ \cup (off + 1)..(off + Len(bytes))]
      BY DEF StrangerWrites
    <2>2. 0..n \subseteq Nat
      OBVIOUS
    <2>3. QED
      BY <2>1, <2>2
  <1> DEFINE k == <<p, Sponsor>>
             b == buffer[k]
             w == WriteInto(b, off, bytes)
             F == (off + 1)..(off + Len(bytes))
  <1>2. UNCHANGED <<request, tx, marker>>
    BY <1>1 DEF StrangerWrites, WriteProofBuffer
  <1>3. k \in Keys /\ b \in Buffers /\ b # NoBuffer
        /\ off + Len(bytes) <= b.total_len /\ off \in Nat /\ bytes \in Seq(Siblings)
    BY <1>1, RelayAssumption, ChunkAssumption, LengthAssumption
       DEF WriteProofBuffer, RelayInv, RequestTypes, Keys
  <1>4. w \in Buffers /\ w # NoBuffer /\ w.total_len = b.total_len
    BY <1>3, WriteKeepsBuffer, NoBufferAssumption
  <1>5. b.bytes_written <= w.bytes_written
    <2>1. PICK m \in BufferLens :
            b \in [total_len : {m}, bytes_written : 0..m,
                   data : [1..m -> Siblings \cup {Blank}]]
      BY <1>3 DEF Buffers
    <2>2. b.bytes_written \in Nat
      BY <2>1, LengthAssumption
    <2>3. QED
      BY <1>3, <2>2 DEF WriteInto
  <1>6. \A j \in 1..b.total_len : j \in F \/ w.data[j] = b.data[j]
    BY <1>3 DEF WriteInto
  <1>7. /\ buffer'[k] = w /\ foreign'[p] = foreign[p] \cup F
        /\ \A y \in Claimants : y # p => /\ buffer'[<<y, Sponsor>>] = buffer[<<y, Sponsor>>]
                                       /\ foreign'[y] = foreign[y]
    BY <1>1, <1>3, RelayAssumption DEF WriteProofBuffer, RelayInv, RequestTypes, Keys
  <1>8. RequestTypes'
    <2>1. buffer' \in [Keys -> Buffers \cup {NoBuffer}]
      BY <1>1, <1>4 DEF WriteProofBuffer, RelayInv, RequestTypes
    <2>2. DOMAIN foreign' = Claimants /\ foreign' = [y \in Claimants |-> foreign'[y]]
      BY <1>1 DEF RelayInv, RequestTypes
    <2>3. QED
      BY <1>2, <2>1, <2>2 DEF RelayInv, RequestTypes
  <1> HIDE DEF w, F
  <1>9. BufferOfRequest'
    BY <1>2, <1>3, <1>4, <1>7 DEF RelayInv, BufferOfRequest
  <1>10. Progress'
    <2> SUFFICES ASSUME NEW o \in Requests, Running(o)', ~Inline(request[o].leaf),
                        Landed(o)' # 0,
                        request[o].claimant \notin Claimed,
                        ~ProofsMixed(o, request[o].claimant)
                 PROVE  LET y == request[o].claimant
                        IN  /\ buffer'[<<y, Sponsor>>] # NoBuffer
                            /\ Filled(buffer'[<<y, Sponsor>>], request[o].leaf,
                                      Landed(o)', foreign'[y])
      BY <1>2 DEF Progress, Claimed, ProofsMixed
    <2> DEFINE y == request[o].claimant
               q == request[o].leaf
    <2>1. Running(o) /\ Landed(o)' = Landed(o)
      BY <1>2 DEF Running, Landed
    <2>2. y \in Claimants /\ q \in Claimants /\ request[o].stage \in Nat \ {0}
      BY <2>1, RunningIsStarted DEF RelayInv
    <2>3. /\ buffer[<<y, Sponsor>>] # NoBuffer
          /\ Filled(buffer[<<y, Sponsor>>], q, Landed(o), foreign[y])
      BY <2>1 DEF RelayInv, Progress
    <2> HIDE DEF y, q
    <2>4. CASE y # p
      BY <1>7, <2>1, <2>2, <2>3, <2>4 DEF y, q
    <2>5. CASE y = p
      <3>1. Filled(b, q, Landed(o), foreign[p])
        BY <2>3, <2>5
      <3>2. Landed(o) \in Nat
        BY <2>2 DEF Landed, y, q
      <3>3. Upto(q, Landed(o)) \in Nat /\ Upto(q, Landed(o)) <= Len(Path[q])
        BY <2>2, <3>2, PathTypes DEF Upto, Reach
      <3>4. b.total_len = Len(Path[q]) /\ Len(Path[q]) \in Nat
        BY <2>2, <3>1, PathTypes DEF Filled
      <3>5. \A j \in Nat \ {0} : j <= Upto(q, Landed(o)) =>
                j \in foreign[p] \cup F \/ w.data[j] = Path[q][j]
        BY <1>6, <3>1, <3>3, <3>4 DEF Filled
      <3>6. Upto(q, Landed(o)) <= w.bytes_written
        <4>1. \A x \in Buffers : x.bytes_written \in Nat
          BY LengthAssumption DEF Buffers
        <4>2. QED
          BY <1>3, <1>4, <1>5, <3>1, <3>3, <4>1 DEF Filled
      <3>7. Filled(w, q, Landed(o), foreign[p] \cup F)
        BY <1>4, <3>4, <3>5, <3>6 DEF Filled
      <3>8. QED
        BY <1>4, <1>7, <2>1, <2>5, <3>7 DEF y, q
    <2>6. QED
      BY <2>4, <2>5
  <1>11. QED
    BY <1>8, <1>9, <1>10 DEF RelayInv

\* A request that only changes its phase, among those of a started one.
LEMMA PhaseSteps ==
    ASSUME RelayInv, NEW r \in Requests, Running(r),
           NEW phase \in {"polling", "submitted", "done", "failed"},
           request' = [request EXCEPT ![r] = [request[r] EXCEPT !.phase = phase]],
           tx' = tx \/ (tx[r] = "none" /\ tx' = [tx EXCEPT ![r] = "inflight"]),
           UNCHANGED <<buffer, marker, foreign>>
    PROVE  RelayInv'
  <1>1. request[r] \in Started
    BY RunningIsStarted DEF RelayInv
  <1>2. request'[r] \in Started /\ request'[r].phase = phase
        /\ request'[r].claimant = request[r].claimant /\ request'[r].leaf = request[r].leaf
        /\ request'[r].stage = request[r].stage
    BY <1>1 DEF RelayInv, RequestTypes, Started
  <1>3. \A o \in Requests \ {r} : request'[o] = request[o] /\ tx'[o] = tx[o]
    BY DEF RelayInv, RequestTypes
  <1>4. request' \in [Requests -> {Idle} \cup Refusals \cup Started]
    BY <1>2 DEF RelayInv, RequestTypes
  <1>5. tx' \in [Requests -> {"none", "inflight", "ok", "err", "expired"}]
    BY DEF RelayInv, RequestTypes
  <1>6. RequestTypes'
    BY <1>1, <1>2, <1>3, <1>4, <1>5 DEF RelayInv, RequestTypes
  <1>7. tx'[r] = "ok" <=> tx[r] = "ok"
    BY DEF RelayInv, RequestTypes
  <1>8. \A o \in Requests : Kept(o) /\ SameLanded(o)
    <2>1. Kept(r) /\ SameLanded(r)
      BY <1>2, <1>7 DEF Kept, SameLanded, Landed, Started, Idle
    <2>2. \A o \in Requests \ {r} : Kept(o) /\ SameLanded(o)
      BY <1>3 DEF Kept, SameLanded, Landed, Running
    <2>3. QED
      BY <2>1, <2>2
  <1>9. Claimed \subseteq Claimed'
    BY DEF Claimed
  <1>10. QED
    BY <1>6, <1>8, <1>9, QuietStep DEF ForeignKept

\* The poll that moves on to the next transaction.
LEMMA NextSteps ==
    ASSUME RelayInv, NEW r \in Requests, Running(r), tx[r] = "ok",
           request[r].stage # ClaimStage(request[r].leaf),
           request' = [request EXCEPT
               ![r] = [request[r] EXCEPT !.phase = "sending", !.stage = @ + 1]],
           tx' = [tx EXCEPT ![r] = "none"],
           UNCHANGED <<buffer, marker, foreign>>
    PROVE  RelayInv'
  <1>1. request[r] \in Started /\ request[r].leaf \in Claimants /\ request[r].stage \in Nat \ {0}
    BY RunningIsStarted DEF RelayInv
  <1>2. request'[r] \in Started /\ request'[r].phase = "sending"
        /\ request'[r].claimant = request[r].claimant /\ request'[r].leaf = request[r].leaf
        /\ request'[r].stage = request[r].stage + 1
    <2>1. request'[r] = [request[r] EXCEPT !.phase = "sending", !.stage = @ + 1]
      BY DEF RelayInv, RequestTypes
    <2>2. request[r].stage + 1 \in Nat \ {0}
      BY <1>1
    <2>3. \A x \in Started, k \in Nat \ {0} :
              LET y == [x EXCEPT !.phase = "sending", !.stage = k]
              IN  /\ y \in Started /\ y.phase = "sending" /\ y.stage = k
                  /\ y.claimant = x.claimant /\ y.leaf = x.leaf
      BY DEF Started
    <2>4. request'[r] = [request[r] EXCEPT !.phase = "sending", !.stage = request[r].stage + 1]
      BY <2>1
    <2> DEFINE y == [request[r] EXCEPT !.phase = "sending", !.stage = request[r].stage + 1]
    <2>5. /\ y \in Started /\ y.phase = "sending" /\ y.stage = request[r].stage + 1
          /\ y.claimant = request[r].claimant /\ y.leaf = request[r].leaf
      BY <1>1, <2>2, <2>3
    <2>6. request'[r] = y
      BY <2>4
    <2> HIDE DEF y
    <2>7. QED
      BY <2>5, <2>6
  <1>3. \A o \in Requests \ {r} : request'[o] = request[o] /\ tx'[o] = tx[o]
    BY DEF RelayInv, RequestTypes
  <1>4. request' \in [Requests -> {Idle} \cup Refusals \cup Started]
    BY <1>2 DEF RelayInv, RequestTypes
  <1>5. tx' \in [Requests -> {"none", "inflight", "ok", "err", "expired"}] /\ tx'[r] = "none"
    BY DEF RelayInv, RequestTypes
  <1>6. request'[r].stage <= ClaimStage(request'[r].leaf)
    <2>1. request[r].stage <= ClaimStage(request[r].leaf)
          /\ ClaimStage(request[r].leaf) \in Nat
      BY <1>1, ClaimStageTypes DEF RelayInv, RequestTypes
    <2>2. QED
      BY <1>1, <1>2, <2>1
  <1>7. RequestTypes'
    <2>1. \A o \in Requests : tx'[o] # "none" => request'[o] \in Started
      BY <1>2, <1>3, <1>5 DEF RelayInv, RequestTypes
    <2>2. \A o \in Requests : request'[o] \in Started =>
              /\ request'[o].stage <= ClaimStage(request'[o].leaf)
              /\ request'[o].phase = "sending" => tx'[o] = "none"
      BY <1>3, <1>5, <1>6 DEF RelayInv, RequestTypes
    <2>3. QED
      BY <1>4, <1>5, <2>1, <2>2 DEF RelayInv, RequestTypes
  <1>8. \A o \in Requests : Kept(o) /\ SameLanded(o)
    <2>1. Landed(r)' = Landed(r)
      BY <1>1, <1>2, <1>5 DEF Landed
    <2>2. Kept(r) /\ SameLanded(r)
      BY <1>2, <2>1 DEF Kept, SameLanded, Started, Idle
    <2>3. \A o \in Requests \ {r} : Kept(o) /\ SameLanded(o)
      BY <1>3 DEF Kept, SameLanded, Landed, Running
    <2>4. QED
      BY <2>2, <2>3
  <1>9. Claimed \subseteq Claimed'
    BY DEF Claimed
  <1>10. QED
    BY <1>7, <1>8, <1>9, QuietStep DEF ForeignKept

\* A transaction that is settled without having done anything.
LEMMA TxSteps ==
    ASSUME RelayInv, NEW r \in Requests, tx[r] = "inflight",
           NEW fate \in {"err", "expired"}, tx' = [tx EXCEPT ![r] = fate],
           UNCHANGED <<request, buffer, marker, foreign>>
    PROVE  RelayInv'
  <1>1. RequestTypes'
    BY DEF RelayInv, RequestTypes
  <1>2. \A o \in Requests : Kept(o) /\ SameLanded(o)
    <2>1. \A o \in Requests : Landed(o)' = Landed(o)
      BY DEF Landed, RelayInv, RequestTypes
    <2>2. QED
      BY <2>1 DEF Kept, SameLanded, Running
  <1>3. Claimed \subseteq Claimed'
    BY DEF Claimed
  <1>4. QED
    BY <1>1, <1>2, <1>3, QuietStep DEF ForeignKept

\* What the routes make of a request of the page.
LEMMA Received ==
    ASSUME NEW r \in Requests, OnClaim(r)
    PROVE  \E p \in Claimants, q \in Claimants, new \in Refusals \cup Started :
               /\ request[r] = Idle
               /\ request' = [request EXCEPT ![r] = new]
               /\ new = Refused(p, q) \/ \E found \in BOOLEAN : new = Taken(p, q, found)
  <1>1. ASSUME NEW p, NEW q
        PROVE  /\ Refused(p, q) = [phase |-> "failed", claimant |-> p, leaf |-> q]
               /\ p \in Claimants /\ q \in Claimants => Refused(p, q) \in Refusals
               /\ \A found \in BOOLEAN :
                     p \in Claimants /\ q \in Claimants => Taken(p, q, found) \in Started
    BY DEF Refused, Taken, Refusals, Started
  <1> DEFINE p == page[r].who
             q == page[r].shown
  <1>2. request[r] = Idle /\ p \in Claimants /\ q \in Claimants
    BY DEF OnClaim
  <1>3. CASE Inline(q)
    BY <1>1, <1>2, <1>3 DEF OnClaim, ReceiveInline, Move
  <1>4. CASE ~Inline(q)
    <2>1. ReceiveBuffered(r, p, q)
      BY <1>4 DEF OnClaim
    <2>2. CASE request' = [request EXCEPT ![r] = Refused(p, q)]
      BY <1>1, <1>2, <2>2
    <2>3. CASE \E found \in BOOLEAN : request' = [request EXCEPT ![r] = Taken(p, q, found)]
      <3>1. PICK found \in BOOLEAN : request' = [request EXCEPT ![r] = Taken(p, q, found)]
        BY <2>3
      <3>2. Taken(p, q, found) \in Refusals \cup Started
        BY <1>1, <1>2
      <3>3. QED
        BY <1>2, <3>1, <3>2
    <2>4. {FALSE, buffer[<<p, Sponsor>>] # NoBuffer} \subseteq BOOLEAN
      BY Zenon
    <2>5. \/ request' = [request EXCEPT ![r] = Refused(p, q)]
          \/ \E found \in {FALSE, buffer[<<p, Sponsor>>] # NoBuffer} :
                request' = [request EXCEPT ![r] = Taken(p, q, found)]
      BY <2>1, Zenon DEF ReceiveBuffered, Move
    <2>6. QED
      BY <2>2, <2>3, <2>4, <2>5, Zenon
  <1>5. QED
    BY <1>3, <1>4

\* The page sends a request.
LEMMA ClaimSteps ==
    ASSUME RelayInv, NEW r \in Requests, OnClaim(r)
    PROVE  RelayInv'
  <1>1. PICK p \in Claimants, q \in Claimants, new \in Refusals \cup Started :
            /\ request[r] = Idle
            /\ request' = [request EXCEPT ![r] = new]
            /\ new = Refused(p, q) \/ \E found \in BOOLEAN : new = Taken(p, q, found)
    BY Received
  <1>2. UNCHANGED <<buffer, marker, tx, foreign>>
    BY DEF OnClaim
  <1>3. request'[r] = new /\ \A o \in Requests \ {r} : request'[o] = request[o]
    BY <1>1 DEF RelayInv, RequestTypes
  <1>4. tx[r] = "none"
    BY <1>1 DEF RelayInv, RequestTypes, Idle, Started
  <1>5. new \in Started => new.stage = 1 /\ new.leaf \in Claimants
    BY <1>1 DEF Refused, Taken, Started
  <1>6. RequestTypes'
    <2>1. request' \in [Requests -> {Idle} \cup Refusals \cup Started]
      BY <1>1 DEF RelayInv, RequestTypes
    <2>2. \A o \in Requests : tx'[o] # "none" => request'[o] \in Started
      BY <1>2, <1>3, <1>4 DEF RelayInv, RequestTypes
    <2>3. new \in Started => new.stage <= ClaimStage(new.leaf)
      BY <1>5, ClaimStageTypes
    <2>4. \A o \in Requests : request'[o] \in Started =>
              /\ request'[o].stage <= ClaimStage(request'[o].leaf)
              /\ request'[o].phase = "sending" => tx'[o] = "none"
      BY <1>2, <1>3, <1>4, <2>3 DEF RelayInv, RequestTypes
    <2>5. QED
      BY <1>2, <2>1, <2>2, <2>4 DEF RelayInv, RequestTypes
  <1>7. \A o \in Requests : Kept(o) /\ SameLanded(o)
    <2>1. Kept(r)
      BY <1>1 DEF Kept
    <2>2. Running(r)' => Landed(r)' = 0
      <3>1. new = Refused(p, q) => ~Running(r)'
        BY <1>3 DEF Running, Refused
      <3>2. (\E found \in BOOLEAN : new = Taken(p, q, found)) => new.stage = 1
        BY DEF Taken
      <3>3. QED
        BY <1>1, <1>2, <1>3, <1>4, <3>1, <3>2 DEF Landed
    <2>3. \A o \in Requests \ {r} : Kept(o) /\ SameLanded(o)
      BY <1>2, <1>3 DEF Kept, SameLanded, Landed, Running
    <2>4. QED
      BY <2>1, <2>2, <2>3 DEF SameLanded
  <1>8. Claimed \subseteq Claimed'
    BY <1>2 DEF Claimed
  <1>9. QED
    BY <1>2, <1>6, <1>7, <1>8, QuietStep DEF ForeignKept

\* A transaction that lands: the request stays as it is.
LEMMA LandTypes ==
    ASSUME RelayInv, NEW r \in Requests, tx[r] = "inflight",
           tx' = [tx EXCEPT ![r] = "ok"], UNCHANGED request,
           marker' \in [Claimants -> Nat \cup {NoMarker}],
           buffer' \in [Keys -> Buffers \cup {NoBuffer}],
           foreign' = ForeignInOpen
    PROVE  /\ RequestTypes'
           /\ request[r] \in Started
           /\ \A o \in Requests \ {r} : Landed(o)' = Landed(o)
           /\ Landed(r)' = request[r].stage /\ Landed(r) = request[r].stage - 1
           /\ \A o \in Requests : Kept(o) /\ Running(o)' = Running(o)
  <1>1. tx'[r] = "ok" /\ \A o \in Requests \ {r} : tx'[o] = tx[o]
    BY DEF RelayInv, RequestTypes
  <1>2. request[r] \in Started
    BY DEF RelayInv, RequestTypes
  <1>3. RequestTypes'
    <2>1. tx' \in [Requests -> {"none", "inflight", "ok", "err", "expired"}]
      BY DEF RelayInv, RequestTypes
    <2>2. \A o \in Requests : request'[o] \in Started
          /\ request'[o].phase = "sending" => tx'[o] = "none"
      BY <1>1, <1>2 DEF RelayInv, RequestTypes
    <2>3. \A o \in Requests : tx'[o] # "none" => request'[o] \in Started
      BY <1>1, <1>2 DEF RelayInv, RequestTypes
    <2>4. DOMAIN foreign' = Claimants /\ foreign' = [p \in Claimants |-> foreign'[p]]
      BY DEF ForeignInOpen
    <2>5. QED
      BY <2>1, <2>2, <2>3, <2>4 DEF RelayInv, RequestTypes
  <1>4. QED
    BY <1>1, <1>2, <1>3 DEF Landed, Kept, Running

\* No chunk at all is in any buffer of the right length.
LEMMA NothingFilled ==
    ASSUME NEW q \in Claimants, NEW b \in Buffers, NEW F, b.total_len = Len(Path[q])
    PROVE  Filled(b, q, 0, F)
  <1>1. Upto(q, 0) = 0
    BY PathTypes DEF Upto, Reach
  <1>2. b.bytes_written \in Nat
    <2>1. PICK m \in BufferLens :
            b \in [total_len : {m}, bytes_written : 0..m,
                   data : [1..m -> Siblings \cup {Blank}]]
      BY DEF Buffers
    <2>2. QED
      BY <2>1, LengthAssumption
  <1>3. QED
    BY <1>1, <1>2 DEF Filled

\* A write lands, in the buffer that was there or in a fresh one.
LEMMA WriteLands ==
    ASSUME RelayInv, NEW r \in Requests, tx[r] = "inflight",
           tx' = [tx EXCEPT ![r] = "ok"], UNCHANGED <<request, marker>>,
           NEW p, p = request[r].claimant, NEW q, q = request[r].leaf, ~Inline(q),
           NEW i, i = request[r].stage, i \in 1..NumChunks(q),
           NEW b \in Buffers,
           \/ buffer[<<p, Sponsor>>] = b
           \/ buffer[<<p, Sponsor>>] = NoBuffer /\ b = NewBuffer(Len(Path[q])) /\ i = 1,
           (i - 1) * ChunkLen + Len(Chunk(q, i)) <= b.total_len,
           buffer' = [buffer EXCEPT
               ![<<p, Sponsor>>] = WriteInto(b, (i - 1) * ChunkLen, Chunk(q, i))],
           foreign' = ForeignInOpen
    PROVE  RelayInv'
  <1> DEFINE k == <<p, Sponsor>>
             w == WriteInto(b, (i - 1) * ChunkLen, Chunk(q, i))
  <1>1. request[r] \in Started /\ p \in Claimants /\ q \in Claimants /\ request[r] # Idle
    BY DEF RelayInv, RequestTypes, Started, Idle
  <1>2. k \in Keys
    BY <1>1, RelayAssumption DEF Keys
  <1>3. w \in Buffers /\ w.total_len = b.total_len
    BY <1>1, ChunkIs, WriteKeepsBuffer
  <1>4. w # NoBuffer /\ b # NoBuffer
    BY <1>3, NoBufferAssumption
  <1> HIDE DEF w
  <1>5. /\ buffer'[k] = w
        /\ \A y \in Claimants : y # p => buffer'[<<y, Sponsor>>] = buffer[<<y, Sponsor>>]
        /\ \A y \in Claimants :
              buffer'[<<y, Sponsor>>] # NoBuffer => foreign'[y] = foreign[y]
    BY <1>2, RelayAssumption DEF RelayInv, RequestTypes, Keys, w, ForeignInOpen
  <1>6. buffer' \in [Keys -> Buffers \cup {NoBuffer}]
    BY <1>3 DEF RelayInv, RequestTypes, w
  <1>7. /\ RequestTypes'
        /\ \A o \in Requests \ {r} : Landed(o)' = Landed(o)
        /\ Landed(r)' = i /\ Landed(r) = i - 1
        /\ \A o \in Requests : Kept(o) /\ Running(o)' = Running(o)
    BY <1>6, LandTypes DEF RelayInv, RequestTypes
  <1>8. b.total_len = Len(Path[q]) \/ ProofsMixed(r, p)
    <2>1. CASE buffer[k] = NoBuffer
      BY <1>4, <2>1 DEF NewBuffer
    <2>2. CASE buffer[k] = b
      <3>1. PICK o \in Requests :
                /\ request[o] # Idle /\ request[o].claimant = p
                /\ b.total_len = Len(Path[request[o].leaf])
        BY <1>1, <1>4, <2>2 DEF RelayInv, BufferOfRequest
      <3>2. QED
        BY <3>1 DEF ProofsMixed
    <2>3. QED
      BY <2>1, <2>2
  <1>9. BufferOfRequest'
    <2>1. \E o \in Requests :
              /\ request[o] # Idle /\ request[o].claimant = p
              /\ b.total_len = Len(Path[request[o].leaf])
      <3>1. CASE buffer[k] = NoBuffer
        BY <1>1, <1>4, <3>1 DEF NewBuffer
      <3>2. CASE buffer[k] = b
        BY <1>1, <1>4, <3>2 DEF RelayInv, BufferOfRequest
      <3>3. QED
        BY <3>1, <3>2
    <2>2. QED
      BY <1>3, <1>5, <2>1 DEF RelayInv, BufferOfRequest
  <1>10. Progress'
    <2> SUFFICES ASSUME NEW o \in Requests, Running(o)', ~Inline(request[o].leaf),
                        Landed(o)' # 0,
                        request[o].claimant \notin Claimed,
                        ~ProofsMixed(o, request[o].claimant)
                 PROVE  /\ buffer'[<<request[o].claimant, Sponsor>>] # NoBuffer
                        /\ Filled(buffer'[<<request[o].claimant, Sponsor>>], request[o].leaf,
                                  Landed(o)', foreign'[request[o].claimant])
      BY DEF Progress, Claimed, ProofsMixed
    <2>1. Running(o)
      BY <1>7
    <2>2. /\ request[o].claimant \in Claimants /\ request[o].leaf \in Claimants
          /\ request[o].stage \in Nat \ {0} /\ request[o] # Idle
      BY <2>1, RunningIsStarted DEF RelayInv
    <2>3. \/ Landed(o) = 0
          \/ /\ buffer[<<request[o].claimant, Sponsor>>] # NoBuffer
             /\ Filled(buffer[<<request[o].claimant, Sponsor>>], request[o].leaf,
                       Landed(o), foreign[request[o].claimant])
      BY <2>1 DEF RelayInv, Progress
    <2>4. CASE request[o].claimant # p
      <3>1. o # r
        BY <2>4
      <3>2. QED
        BY <1>5, <1>7, <2>2, <2>3, <2>4, <3>1
    <2>5. CASE request[o].claimant = p /\ o # r
      <3>1. request[o].leaf = q /\ Landed(o)' = Landed(o)
        BY <1>1, <1>7, <2>5 DEF ProofsMixed
      <3>2. buffer[k] = b /\ Filled(b, q, Landed(o), foreign[p])
        BY <2>3, <2>5, <3>1
      <3>3. Landed(o) \in Nat
        BY <2>2 DEF Landed
      <3>4. b.total_len = Len(Path[q])
        BY <3>2 DEF Filled
      <3>5. Filled(w, q, Landed(o), foreign[p])
        BY <1>1, <3>2, <3>3, <3>4, WriteFills DEF w
      <3>6. foreign'[p] = foreign[p]
        BY <1>1, <1>4, <1>5, buffer'[<<p, Sponsor>>] # NoBuffer
      <3>7. QED
        BY <1>4, <1>5, <2>5, <3>1, <3>5, <3>6
    <2>6. CASE o = r
      <3>1. b.total_len = Len(Path[q])
        BY <1>8, <2>6
      <3>2. Filled(b, q, i - 1, foreign[p])
        <4>1. CASE i = 1
          BY <1>1, <3>1, <4>1, NothingFilled
        <4>2. CASE i # 1
          <5>1. Landed(r) = i - 1 /\ i - 1 # 0
            BY <1>7, <2>2, <2>6, <4>2
          <5>2. buffer[k] # NoBuffer /\ Filled(buffer[k], q, i - 1, foreign[p])
            BY <2>3, <2>6, <5>1
          <5>3. buffer[k] = b
            BY <5>2
          <5>4. QED
            BY <5>2, <5>3
        <4>3. QED
          BY <4>1, <4>2
      <3>3. Filled(w, q, i, foreign[p])
        BY <1>1, <3>1, <3>2, WriteFills DEF w
      <3>4. foreign'[p] = foreign[p]
        BY <1>1, <1>4, <1>5, buffer'[<<p, Sponsor>>] # NoBuffer
      <3>5. QED
        BY <1>4, <1>5, <1>7, <2>6, <3>3, <3>4
    <2>7. QED
      BY <2>4, <2>5, <2>6
  <1>11. QED
    BY <1>7, <1>9, <1>10 DEF RelayInv

\* A claim lands: an inline one, or one that closes the buffer of its claimant,
\* who is now paid.
LEMMA ClaimLands ==
    ASSUME RelayInv, NEW r \in Requests, tx[r] = "inflight",
           tx' = [tx EXCEPT ![r] = "ok"], UNCHANGED request,
           NEW p, p = request[r].claimant, NEW q, q = request[r].leaf,
           marker' \in [Claimants -> Nat \cup {NoMarker}], Claimed' = Claimed \cup {p},
           foreign' = ForeignInOpen,
           \/ Inline(q) /\ UNCHANGED buffer
           \/ ~Inline(q) /\ buffer' = [buffer EXCEPT ![<<p, Sponsor>>] = NoBuffer]
    PROVE  RelayInv'
  <1>1. request[r] \in Started /\ p \in Claimants /\ q \in Claimants
    BY DEF RelayInv, RequestTypes, Started
  <1>2. <<p, Sponsor>> \in Keys
    BY <1>1, RelayAssumption DEF Keys
  <1>3. buffer' \in [Keys -> Buffers \cup {NoBuffer}]
    BY DEF RelayInv, RequestTypes
  <1>4. /\ RequestTypes'
        /\ \A o \in Requests \ {r} : Landed(o)' = Landed(o)
        /\ \A o \in Requests : Kept(o) /\ Running(o)' = Running(o)
    BY <1>3, LandTypes
  <1>5. CASE Inline(q) /\ UNCHANGED buffer
    <2>1. \A o \in Requests : SameLanded(o)
      BY <1>4, <1>5 DEF SameLanded
    <2>2. ForeignKept
      BY <1>5 DEF ForeignKept, ForeignInOpen
    <2>3. QED
      BY <1>4, <1>5, <2>1, <2>2, QuietStep
  <1>6. CASE ~Inline(q) /\ buffer' = [buffer EXCEPT ![<<p, Sponsor>>] = NoBuffer]
    <2>1. /\ buffer'[<<p, Sponsor>>] = NoBuffer
          /\ \A y \in Claimants : y # p => buffer'[<<y, Sponsor>>] = buffer[<<y, Sponsor>>]
          /\ \A y \in Claimants :
                buffer'[<<y, Sponsor>>] # NoBuffer => foreign'[y] = foreign[y]
      BY <1>2, <1>6, RelayAssumption DEF RelayInv, RequestTypes, Keys, ForeignInOpen
    <2>2. BufferOfRequest'
      BY <2>1 DEF RelayInv, BufferOfRequest
    <2>3. Progress'
      <3> SUFFICES ASSUME NEW o \in Requests, Running(o)', ~Inline(request[o].leaf),
                          Landed(o)' # 0,
                          request[o].claimant \notin Claimed',
                          ~ProofsMixed(o, request[o].claimant)
                   PROVE  /\ buffer'[<<request[o].claimant, Sponsor>>] # NoBuffer
                          /\ Filled(buffer'[<<request[o].claimant, Sponsor>>], request[o].leaf,
                                    Landed(o)', foreign'[request[o].claimant])
        BY DEF Progress, ProofsMixed
      <3>1. Running(o) /\ request[o].claimant # p /\ o # r /\ request[o].claimant \notin Claimed
        BY <1>4
      <3>2. request[o].claimant \in Claimants
        BY <3>1, RunningIsStarted DEF RelayInv
      <3>3. Landed(o)' = Landed(o)
        BY <1>4, <3>1
      <3>4. /\ buffer[<<request[o].claimant, Sponsor>>] # NoBuffer
            /\ Filled(buffer[<<request[o].claimant, Sponsor>>], request[o].leaf,
                      Landed(o), foreign[request[o].claimant])
        BY <3>1, <3>3 DEF RelayInv, Progress
      <3>5. QED
        BY <2>1, <3>1, <3>2, <3>3, <3>4
    <2>4. QED
      BY <1>4, <2>2, <2>3 DEF RelayInv
  <1>7. QED
    BY <1>5, <1>6

\* A transaction that executes, whichever of the stages it is.
LEMMA ExecuteSteps ==
    ASSUME RelayInv, NEW r \in Requests, tx[r] = "inflight", Execute(r),
           tx' = [tx EXCEPT ![r] = "ok"], UNCHANGED request, foreign' = ForeignInOpen
    PROVE  RelayInv'
  <1> PICK p, q, i : p = request[r].claimant /\ q = request[r].leaf /\ i = request[r].stage
    OBVIOUS
  <1>1. /\ request[r] \in Started /\ p \in Claimants /\ q \in Claimants
        /\ i \in Nat \ {0} /\ i <= ClaimStage(q)
    BY DEF RelayInv, RequestTypes, Started
  <1>2. <<p, Sponsor>> \in Keys
    BY <1>1, RelayAssumption DEF Keys
  <1>3. CASE Inline(q)
    <2>1. Claim(p, Leaf[p], Sponsor, Path[q]) /\ Leaf[q] = Leaf[p]
      BY <1>3 DEF Execute, ClaimInTx, Claim, FinalizeClaim, CanFinalize, VerifyInclusion
    <2>2. QED
      BY <1>1, <1>3, <2>1, FinalizeMarks, ClaimLands DEF Claim, RelayInv
  <1>4. CASE ~Inline(q) /\ i = ClaimStage(q)
    <2> DEFINE b == buffer[<<p, Sponsor>>]
               proof == StagedProof(b, Len(Path[q]))
    <2>1. /\ FinalizeClaim(p, Leaf[q], Sponsor, proof)
          /\ buffer' = [buffer EXCEPT ![<<p, Sponsor>>] = NoBuffer]
      BY <1>4 DEF Execute, ClaimStaged, ClaimFromBuffer
    <2>2. Leaf[q] = Leaf[p]
      BY <2>1 DEF FinalizeClaim, CanFinalize, VerifyInclusion
    <2> HIDE DEF proof
    <2>3. marker' \in [Claimants -> Nat \cup {NoMarker}] /\ Claimed' = Claimed \cup {p}
      BY <1>1, <2>1, <2>2, FinalizeMarks DEF RelayInv
    <2>4. QED
      BY <1>1, <1>4, <2>1, <2>3, ClaimLands
  <1>5. ASSUME ~Inline(q), i # ClaimStage(q) PROVE i \in 1..NumChunks(q)
    BY <1>1, <1>5, ChunkCount DEF ClaimStage
  <1>6. CASE ~Inline(q) /\ i # ClaimStage(q) /\ i = 1 /\ ~request[r].exists
    <2>1. InitAndWrite(p, q)
      BY <1>6 DEF Execute
    <2> DEFINE b == NewBuffer(Len(Path[q]))
    <2>2. b \in Buffers /\ b.total_len = Len(Path[q])
      BY <1>1, <1>6, FreshIsBuffer
    <2>3. (i - 1) * ChunkLen = 0
      BY <1>6, PathTypes, <1>1
    <2>4. (i - 1) * ChunkLen + Len(Chunk(q, i)) <= b.total_len
      BY <1>1, <1>5, <1>6, <2>2, ChunkIs
    <2>5. /\ buffer[<<p, Sponsor>>] = NoBuffer /\ UNCHANGED marker
          /\ buffer' = [buffer EXCEPT
                 ![<<p, Sponsor>>] = WriteInto(b, (i - 1) * ChunkLen, Chunk(q, i))]
      BY <1>6, <2>1, <2>3 DEF InitAndWrite
    <2> HIDE DEF b
    <2>6. QED
      BY <1>5, <1>6, <2>2, <2>4, <2>5, WriteLands DEF b
  <1>7. CASE ~Inline(q) /\ i # ClaimStage(q) /\ ~(i = 1 /\ ~request[r].exists)
    <2>1. Write(p, q, i)
      BY <1>7 DEF Execute
    <2> DEFINE b == buffer[<<p, Sponsor>>]
    <2>2. /\ b # NoBuffer /\ UNCHANGED marker
          /\ (i - 1) * ChunkLen + Len(Chunk(q, i)) <= b.total_len
          /\ buffer' = [buffer EXCEPT
                 ![<<p, Sponsor>>] = WriteInto(b, (i - 1) * ChunkLen, Chunk(q, i))]
      BY <1>2, <2>1 DEF Write, WriteProofBuffer, RelayInv, RequestTypes
    <2>3. b \in Buffers
      BY <1>2, <2>2 DEF RelayInv, RequestTypes
    <2>4. QED
      BY <1>5, <1>7, <2>2, <2>3, WriteLands
  <1>8. QED
    BY <1>3, <1>4, <1>6, <1>7

\* The steps of a request other than landing.
LEMMA HandlerSteps ==
    ASSUME RelayInv, NEW r \in Requests, HandlerStep(r) \/ Expire(r) \/ Kill(r)
    PROVE  RelayInv'
  <1>1. CASE Send(r)
    <2>1. /\ Running(r) /\ tx[r] = "none" /\ UNCHANGED <<buffer, marker, foreign>>
      BY <1>1 DEF Send, Running, vars, RelayInv, RequestTypes, Idle, Refusals
    <2>2. CASE /\ tx' = [tx EXCEPT ![r] = "inflight"]
               /\ request' = [request EXCEPT ![r] = AfterSend(r)]
      <3>1. AfterSend(r) = [request[r] EXCEPT !.phase = "submitted"]
            \/ AfterSend(r) = [request[r] EXCEPT !.phase = "polling"]
        BY DEF AfterSend
      <3>2. QED
        BY <2>1, <2>2, <3>1, PhaseSteps
    <2>3. CASE tx' = tx
          /\ request' = [request EXCEPT ![r] = [request[r] EXCEPT !.phase = "failed"]]
      BY <2>1, <2>3, PhaseSteps
    <2>4. QED
      BY <1>1, <2>2, <2>3 DEF Send, Move
  <1>2. CASE Poll(r)
    <2>1. Running(r) /\ UNCHANGED <<buffer, marker, foreign>>
      BY <1>2 DEF Poll, Running, vars
    <2>2. CASE tx[r] = "err" /\ Move(r, [request[r] EXCEPT !.phase = "failed"]) /\ UNCHANGED tx
      BY <2>1, <2>2, PhaseSteps DEF Move
    <2>3. CASE /\ tx[r] = "ok" /\ Move(r, NextStage(r))
               /\ tx' = [tx EXCEPT ![r] = IF NextStage(r).phase = "sending" THEN "none" ELSE @]
      <3>1. CASE request[r].stage = ClaimStage(request[r].leaf)
        <4>1. NextStage(r) = [request[r] EXCEPT !.phase = "done"]
          BY <3>1 DEF NextStage
        <4>2. NextStage(r).phase = "done"
          BY <2>1, <4>1, RunningIsStarted DEF RelayInv, Started
        <4>3. tx' = tx
          BY <2>3, <4>2 DEF RelayInv, RequestTypes
        <4>4. QED
          BY <2>1, <2>3, <4>1, <4>3, PhaseSteps DEF Move
      <3>2. CASE request[r].stage # ClaimStage(request[r].leaf)
        <4>1. NextStage(r) = [request[r] EXCEPT !.phase = "sending", !.stage = @ + 1]
          BY <3>2 DEF NextStage
        <4>2. NextStage(r).phase = "sending"
          BY <2>1, <4>1, RunningIsStarted DEF RelayInv, Started
        <4>3. tx' = [tx EXCEPT ![r] = "none"]
          BY <2>3, <4>2
        <4>4. QED
          BY <2>1, <2>3, <3>2, <4>1, <4>3, NextSteps DEF Move
      <3>3. QED
        BY <3>1, <3>2
    <2>4. QED
      BY <1>2, <2>2, <2>3 DEF Poll
  <1>3. CASE TimeOut(r) \/ Kill(r)
    <2>1. /\ Running(r) /\ UNCHANGED <<buffer, marker, tx, foreign>>
          /\ request' = [request EXCEPT ![r] = [request[r] EXCEPT !.phase = "failed"]]
      BY <1>3 DEF TimeOut, Kill, Running, Move, vars
    <2>2. QED
      BY <2>1, PhaseSteps
  <1>4. CASE Expire(r)
    BY <1>4, TxSteps DEF Expire, vars
  <1>5. QED
    BY <1>1, <1>2, <1>3, <1>4 DEF HandlerStep

\* Nothing is staged at first.
LEMMA InitRelay == PageInit => RelayInv
  <1> SUFFICES ASSUME PageInit PROVE RelayInv
    OBVIOUS
  <1> USE DEF PageInit, RelayInit, Init
  <1>1. RequestTypes
    BY DEF RequestTypes, Idle, Started
  <1>2. BufferOfRequest
    BY RelayAssumption DEF BufferOfRequest, Keys
  <1>3. Progress
    BY DEF Progress, Running, Idle
  <1>4. QED
    BY <1>1, <1>2, <1>3 DEF RelayInv

\* The invariant is inductive.
LEMMA StepRelay == RelayInv /\ [PageNext]_<<vars, relayVars, page>> => RelayInv'
  <1> SUFFICES ASSUME RelayInv, [PageNext]_<<vars, relayVars, page>> PROVE RelayInv'
    OBVIOUS
  <1>1. CASE UNCHANGED <<vars, relayVars>>
    <2>1. RequestTypes'
      BY <1>1 DEF vars, relayVars, RelayInv, RequestTypes
    <2>2. \A o \in Requests : Kept(o) /\ SameLanded(o)
      BY <1>1 DEF vars, relayVars, Kept, SameLanded, Running, Landed
    <2>3. UNCHANGED buffer /\ ForeignKept /\ Claimed \subseteq Claimed'
      BY <1>1 DEF vars, relayVars, Claimed, ForeignKept
    <2>4. QED
      BY <2>1, <2>2, <2>3, QuietStep
  <1>2. CASE \E r \in Requests : Connect(r) \/ Look(r) \/ LookLate(r)
    BY <1>1, <1>2 DEF Connect, Look, LookLate
  <1>3. CASE \E r \in Requests : OnClaim(r)
    BY <1>3, ClaimSteps
  <1>4. CASE ClaimantActs
    BY <1>4, ClaimantSteps
  <1>5. ASSUME NEW r \in Requests, HandlerStep(r) \/ Expire(r) \/ Kill(r) PROVE RelayInv'
    BY <1>5, HandlerSteps
  <1>6. ASSUME NEW r \in Requests, Land(r) PROVE RelayInv'
    <2>1. CASE Execute(r) /\ tx' = [tx EXCEPT ![r] = "ok"] /\ foreign' = ForeignInOpen
      BY <1>6, <2>1, ExecuteSteps DEF Land
    <2>2. CASE tx' = [tx EXCEPT ![r] = "err"] /\ UNCHANGED <<vars, foreign>>
      BY <1>6, <2>2, TxSteps DEF Land, vars
    <2>3. QED
      BY <1>6, <2>1, <2>2 DEF Land
  <1>7. CASE StrangerWrites
    BY <1>7, StrangerSteps
  <1>8. QED
    BY <1>1, <1>2, <1>3, <1>4, <1>5, <1>6, <1>7 DEF PageNext, RelayNext

\* Whatever the requests, their number and the depth of their proofs, and
\* whatever strangers write: a buffered request that gets to its claim has its
\* whole proof in the buffer but for the siblings that strangers overwrote,
\* unless the claimant is paid or other proofs were staged in the same buffer.
THEOREM ProofIsStaged == PageSpec => []StagedBeforeClaim
  <1>1. PageSpec => []RelayInv
    BY InitRelay, StepRelay, PTL DEF PageSpec
  <1>2. QED
    BY <1>1, InvStaged, PTL

-----------------------------------------------------------------------------
(* What is answered.  Payments only add markers and only take money, from  *)
(* the treasury and, as long as it claims nothing itself, from the         *)
(* sponsor: so the cause for which a claim failed lasts.                   *)

\* A claim of p, paid for by the sponsor or not.
Pays(p) ==
    /\ marker[p] = NoMarker
    /\ marker' = [marker EXCEPT ![p] = Leaf[p]]
    /\ paid' = [paid EXCEPT ![p] = @ + Leaf[p]]
    /\ treasury' = treasury - Leaf[p]
    /\ UNCHANGED <<treasuryOwner, signed>>
    /\ \/ p = Sponsor
       \/ MarkerRent <= wallet[Sponsor]
       \/ wallet'[Sponsor] = wallet[Sponsor]

PaysNobody ==
    /\ UNCHANGED <<treasury, treasuryOwner, marker, paid>>
    /\ signed \subseteq signed'
    /\ wallet'[Sponsor] <= wallet[Sponsor]

Money ==
    /\ treasury \in Int
    /\ treasuryOwner = LazyClaimId
    /\ wallet \in [Wallets -> Int]
    /\ paid \in [Claimants -> Nat]
    /\ \A p \in Claimants : paid[p] = IF p \in Claimed THEN Leaf[p] ELSE 0

MoneyStep == wallet' \in [Wallets -> Int] /\ (PaysNobody \/ \E p \in Claimants : Pays(p))

\* The causes for which a claim of p for its own leaf fails.
Fails(p) ==
    \/ p \in Claimed
    \/ treasury < Leaf[p]
    \/ wallet[Sponsor] < MarkerRent \/ Sponsor \in Claimed

\* r would pay p its own leaf, were it not for one of those causes.
OwnClaim(r) ==
    LET p == request[r].claimant
    IN  /\ request[r].leaf = p
        /\ <<p, Leaf[p]>> \in signed
        /\ p = Sponsor => Leaf[p] = 0

Truthful(r) ==
    /\ request[r].phase = "done" => Paying(r)
    /\ request[r].phase = "submitted" => Inline(request[r].leaf) /\ tx[r] # "none"
    /\ tx[r] # "none" /\ Inline(request[r].leaf) => OwnClaim(r)
    /\ tx[r] = "err" /\ Inline(request[r].leaf) => Fails(request[r].claimant)
    /\ Paying(r) => request[r].leaf = request[r].claimant /\ request[r].claimant \in Claimed

PaidByOne ==
    \A r, o \in Requests :
        Paying(r) /\ Paying(o) /\ request[r].claimant = request[o].claimant => r = o

AnswerInv ==
    /\ RelayInv
    /\ Money
    /\ \A r \in Requests : request[r] \in Started => Truthful(r)
    /\ PaidByOne

\* The invariant is about what the property says.
LEMMA InvAnswers == AnswerInv => AnswersAreTrue
  <1> SUFFICES ASSUME AnswerInv, NEW r \in Requests, request[r].phase \in {"done", "submitted"},
                      NEW p, p = request[r].claimant
               PROVE  /\ request[r].leaf = p
                      /\ request[r].phase = "done" => Paying(r)
                      /\ Paying(r) => /\ paid[p] = Leaf[p]
                                      /\ \A o \in Requests \ {r} :
                                            request[o] # Idle /\ request[o].claimant = p => ~Paying(o)
                      /\ tx[r] = "err" => Fails(p)
    BY DEF AnswersAreTrue, Fails
  <1>1. request[r] \in Started
    BY DEF AnswerInv, RelayInv, RequestTypes, Idle, Refusals
  <1>2. Truthful(r) /\ p \in Claimants
    BY <1>1 DEF AnswerInv, Started
  <1>3. request[r].leaf = p
    BY <1>2 DEF Truthful, OwnClaim
  <1>4. Paying(r) => paid[p] = Leaf[p]
    BY <1>2 DEF Truthful, AnswerInv, Money
  <1>5. Paying(r) => \A o \in Requests \ {r} : request[o].claimant = p => ~Paying(o)
    BY DEF AnswerInv, PaidByOne
  <1>6. tx[r] = "err" => Fails(p)
    BY <1>2 DEF Truthful, Paying
  <1>7. QED
    BY <1>2, <1>3, <1>4, <1>5, <1>6 DEF Truthful

\* A marker with lamports in it is a claim.
LEMMA MarkedIsClaimed ==
    ASSUME NEW p \in Claimants, NEW a, a # NoMarker,
           RequestTypes, marker' = [marker EXCEPT ![p] = a]
    PROVE  Claimed' = Claimed \cup {p}
  BY DEF RequestTypes, Claimed

\* What was paid stays right, and a cause stays one.
LEMMA MoneyKept ==
    ASSUME RequestTypes, Money, MoneyStep
    PROVE  /\ Money'
           /\ Claimed \subseteq Claimed' /\ signed \subseteq signed'
           /\ \A p \in Claimants : Fails(p) => Fails(p)'
  <1>1. wallet[Sponsor] \in Int /\ wallet'[Sponsor] \in Int /\ MarkerRent \in Int
    BY RelayAssumption, WalletAssumption, RentAssumption DEF Money, MoneyStep
  <1>2. CASE PaysNobody
    <2>1. Claimed' = Claimed
      BY <1>2 DEF PaysNobody, Claimed
    <2>2. QED
      BY <1>1, <1>2, <2>1 DEF Money, MoneyStep, PaysNobody, Fails
  <1>3. ASSUME NEW p \in Claimants, Pays(p)
        PROVE  /\ Money'
               /\ Claimed \subseteq Claimed' /\ signed \subseteq signed'
               /\ \A q \in Claimants : Fails(q) => Fails(q)'
    <2>1. Leaf[p] \in Nat /\ \A q \in Claimants : Leaf[q] \in Nat
      BY LeafAssumption
    <2>2. Claimed \subseteq Claimed' /\ Claimed' \subseteq Claimed \cup {p} /\ p \notin Claimed
      BY <1>3 DEF Pays, Claimed
    <2>3. treasury' = treasury - Leaf[p] /\ UNCHANGED <<treasuryOwner, signed>>
      BY <1>3 DEF Pays
    <2>4. paid' \in [Claimants -> Nat]
          /\ \A q \in Claimants : paid'[q] = IF q = p THEN paid[p] + Leaf[p] ELSE paid[q]
      BY <1>3, <2>1 DEF Pays, Money
    <2>5. p \in Claimed'
      BY <1>3, <2>1, NoMarkerAssumption, MarkedIsClaimed DEF Pays
    <2>6. \A q \in Claimants : paid'[q] = IF q \in Claimed' THEN Leaf[q] ELSE 0
      BY <2>1, <2>2, <2>4, <2>5 DEF Money
    <2>7. Money'
      BY <2>1, <2>3, <2>4, <2>6 DEF Money, MoneyStep
    <2>8. ASSUME NEW q \in Claimants, Fails(q) PROVE Fails(q)'
      <3>1. CASE treasury < Leaf[q]
        BY <2>1, <2>3, <3>1 DEF Fails, Money
      <3>2. CASE wallet[Sponsor] < MarkerRent
        BY <1>1, <1>3, <2>5, <3>2 DEF Fails, Pays
      <3>3. QED
        BY <2>2, <2>8, <3>1, <3>2 DEF Fails
    <2>9. QED
      BY <2>2, <2>3, <2>7, <2>8
  <1>4. QED
    BY <1>2, <1>3 DEF MoneyStep

\* A request that is left alone stays truthful while money moves.
LEMMA OthersTruthful ==
    ASSUME AnswerInv, MoneyStep, NEW o \in Requests, request[o] \in Started,
           request'[o] = request[o], tx'[o] = tx[o]
    PROVE  Truthful(o)'
  <1>1. /\ Claimed \subseteq Claimed' /\ signed \subseteq signed'
        /\ \A p \in Claimants : Fails(p) => Fails(p)'
    BY MoneyKept DEF AnswerInv, RelayInv
  <1>2. Truthful(o) /\ request[o].claimant \in Claimants
    BY DEF AnswerInv, Started
  <1>3. Paying(o)' = Paying(o)
    BY DEF Paying
  <1>4. OwnClaim(o) => OwnClaim(o)'
    BY <1>1 DEF OwnClaim
  <1>5. QED
    BY <1>1, <1>2, <1>3, <1>4 DEF Truthful

\* Money moves, and no request does.
LEMMA NoneMoves ==
    ASSUME AnswerInv, RelayInv', MoneyStep, UNCHANGED <<request, tx>>
    PROVE  AnswerInv'
  <1>1. \A o \in Requests : request'[o] \in Started => Truthful(o)'
    BY OthersTruthful
  <1>2. PaidByOne'
    BY DEF AnswerInv, PaidByOne, Paying
  <1>3. Money'
    BY MoneyKept DEF AnswerInv, RelayInv
  <1>4. QED
    BY <1>1, <1>2, <1>3 DEF AnswerInv

\* One request moves: it comes to pay only someone who was not paid before.
LEMMA OneMoves ==
    ASSUME AnswerInv, RelayInv', MoneyStep, NEW r \in Requests,
           \A o \in Requests \ {r} : request'[o] = request[o] /\ tx'[o] = tx[o],
           request'[r] \in Started => Truthful(r)',
           Paying(r)' => \/ Paying(r) /\ request'[r].claimant = request[r].claimant
                         \/ request'[r].claimant \notin Claimed
    PROVE  AnswerInv'
  <1>1. \A o \in Requests : request'[o] \in Started => Truthful(o)'
    BY OthersTruthful
  <1>2. PaidByOne'
    <2>1. ASSUME NEW o \in Requests \ {r}, Paying(o)', Paying(r)',
                 request'[o].claimant = request'[r].claimant
          PROVE  FALSE
      <3>1. Paying(o) /\ request[o].claimant = request'[r].claimant
        BY <2>1 DEF Paying
      <3>2. request[o] \in Started
        BY <3>1 DEF AnswerInv, RelayInv, RequestTypes, Paying
      <3>3. request[o].claimant \in Claimed
        BY <3>1, <3>2 DEF AnswerInv, Truthful
      <3>4. QED
        BY <2>1, <3>1, <3>3 DEF AnswerInv, PaidByOne
    <2>2. ASSUME NEW o \in Requests \ {r}, NEW u \in Requests \ {r}, Paying(o)', Paying(u)',
                 request'[o].claimant = request'[u].claimant
          PROVE  o = u
      BY <2>2 DEF AnswerInv, PaidByOne, Paying
    <2>3. QED
      BY <2>1, <2>2 DEF PaidByOne
  <1>3. Money'
    BY MoneyKept DEF AnswerInv, RelayInv
  <1>4. QED
    BY <1>1, <1>2, <1>3 DEF AnswerInv

\* Nothing happens to the accounts.
LEMMA AccountsRest ==
    ASSUME Money, UNCHANGED vars
    PROVE  MoneyStep
  BY RelayAssumption, WalletAssumption DEF Money, MoneyStep, PaysNobody, vars

\* A running request goes on to an answer that is true, or to none.
LEMMA PhaseMoves ==
    ASSUME AnswerInv, RelayInv', NEW r \in Requests, Running(r), UNCHANGED <<vars, tx>>,
           NEW phase \in {"failed", "done"}, phase = "done" => Paying(r),
           request' = [request EXCEPT ![r] = [request[r] EXCEPT !.phase = phase]]
    PROVE  AnswerInv'
  <1>1. request[r] \in Started /\ Truthful(r)
    BY RunningIsStarted DEF AnswerInv, RelayInv
  <1>2. /\ request'[r].phase = phase /\ request'[r].stage = request[r].stage
        /\ request'[r].claimant = request[r].claimant /\ request'[r].leaf = request[r].leaf
    BY <1>1 DEF AnswerInv, RelayInv, RequestTypes, Started
  <1>3. \A o \in Requests \ {r} : request'[o] = request[o] /\ tx'[o] = tx[o]
    BY DEF AnswerInv, RelayInv, RequestTypes
  <1>4. Paying(r)' = Paying(r)
    BY <1>2 DEF Paying
  <1>5. \A p : Fails(p)' = Fails(p)
    BY DEF Fails, Claimed, vars
  <1>6. OwnClaim(r)' = OwnClaim(r) /\ Claimed' = Claimed
    BY <1>2 DEF OwnClaim, Claimed, vars
  <1>7. Truthful(r)'
    BY <1>1, <1>2, <1>4, <1>5, <1>6 DEF Truthful
  <1>8. QED
    BY <1>2, <1>3, <1>4, <1>7, AccountsRest, OneMoves DEF AnswerInv

\* What the preflight of an inline claim has seen.
LEMMA PreflightSees ==
    ASSUME NEW r \in Requests, Inline(request[r].leaf), Executable(r)
    PROVE  OwnClaim(r)
  BY DEF Executable, CanClaim, Precompile, ClaimMessage, FlagsFit, CanFinalize,
         BalancedAtCpi, OwnClaim

\* And what a claim fails for that would have gone through.
LEMMA RefusedClaimFails ==
    ASSUME Money, RequestTypes, NEW r \in Requests, request[r].claimant \in Claimants,
           Inline(request[r].leaf), OwnClaim(r), ~Executable(r)
    PROVE  Fails(request[r].claimant)
  <1> DEFINE p == request[r].claimant
  <1>1. /\ request[r].leaf = p /\ <<p, Leaf[p]>> \in signed
        /\ p = Sponsor => Leaf[p] = 0
    BY DEF OwnClaim
  <1>2. ~CanFinalize(p, Leaf[p], Sponsor, Path[p])
    BY <1>1 DEF Executable, CanClaim, Precompile, ClaimMessage, FlagsFit
  <1>3. CASE marker[p] # NoMarker
    BY <1>3 DEF Fails, Claimed
  <1>4. CASE ~CanCredit(Leaf[p])
    BY <1>4, LeafAssumption DEF CanCredit, Money, Fails
  <1>5. CASE ~(MarkerRent <= Credited(p, Leaf[p])[Sponsor])
    <2>1. Sponsor \in Wallets /\ wallet[Sponsor] \in Int /\ MarkerRent \in Int
      BY RelayAssumption, WalletAssumption, RentAssumption DEF Money
    <2>2. Credited(p, Leaf[p])[Sponsor] = wallet[Sponsor]
      BY <1>1, <2>1 DEF Credited, Money
    <2>3. QED
      BY <1>5, <2>1, <2>2 DEF Fails
  <1>6. QED
    BY <1>1, <1>2, <1>3, <1>4, <1>5 DEF CanFinalize, VerifyInclusion, BalancedAtCpi

\* A transaction is sent, or the preflight refuses it.
LEMMA SendMoves ==
    ASSUME AnswerInv, RelayInv', NEW r \in Requests, Send(r)
    PROVE  AnswerInv'
  <1>1. Running(r) /\ tx[r] = "none" /\ UNCHANGED vars
    BY DEF Send, Running, AnswerInv, RelayInv, RequestTypes, Idle, Refusals
  <1>2. CASE ~Executable(r)
    <2>1. /\ request' = [request EXCEPT ![r] = [request[r] EXCEPT !.phase = "failed"]]
          /\ UNCHANGED tx
      BY <1>2 DEF Send, Move
    <2>2. QED
      BY <1>1, <2>1, PhaseMoves
  <1>3. CASE Executable(r)
    <2>1. request[r] \in Started
      BY <1>1, RunningIsStarted DEF AnswerInv, RelayInv
    <2>2. request' = [request EXCEPT ![r] = AfterSend(r)] /\ tx' = [tx EXCEPT ![r] = "inflight"]
      BY <1>3 DEF Send, Move
    <2>3. /\ tx'[r] = "inflight"
          /\ \A o \in Requests \ {r} : request'[o] = request[o] /\ tx'[o] = tx[o]
      BY <2>2 DEF AnswerInv, RelayInv, RequestTypes
    <2>4. /\ request'[r].phase = IF Inline(request[r].leaf) THEN "submitted" ELSE "polling"
          /\ request'[r].claimant = request[r].claimant /\ request'[r].leaf = request[r].leaf
      BY <2>1, <2>2 DEF AfterSend, AnswerInv, RelayInv, RequestTypes, Started
    <2>5. Inline(request[r].leaf) => OwnClaim(r)'
      <3>1. OwnClaim(r)' = OwnClaim(r)
        BY <1>1, <2>4 DEF OwnClaim, vars
      <3>2. QED
        BY <1>3, <3>1, PreflightSees
    <2>6. ~Paying(r)'
      BY <2>3 DEF Paying
    <2>7. Truthful(r)'
      BY <2>3, <2>4, <2>5, <2>6 DEF Truthful
    <2>8. QED
      BY <1>1, <2>3, <2>6, <2>7, AccountsRest, OneMoves DEF AnswerInv
  <1>4. QED
    BY <1>2, <1>3

\* A transaction is settled without having done anything.
LEMMA TxFails ==
    ASSUME AnswerInv, RelayInv', NEW r \in Requests, tx[r] = "inflight",
           NEW fate \in {"err", "expired"}, tx' = [tx EXCEPT ![r] = fate],
           fate = "err" => ~Executable(r),
           UNCHANGED <<vars, request>>
    PROVE  AnswerInv'
  <1>1. request[r] \in Started /\ request[r].claimant \in Claimants /\ Truthful(r)
    BY DEF AnswerInv, RelayInv, RequestTypes, Started
  <1>2. tx'[r] = fate /\ \A o \in Requests \ {r} : request'[o] = request[o] /\ tx'[o] = tx[o]
    BY DEF AnswerInv, RelayInv, RequestTypes
  <1>3. ~Paying(r) /\ ~Paying(r)'
    BY <1>2 DEF Paying
  <1>4. \A p : Fails(p)' = Fails(p)
    BY DEF Fails, Claimed, vars
  <1>5. OwnClaim(r)' = OwnClaim(r)
    BY DEF OwnClaim, vars
  <1>6. Inline(request[r].leaf) /\ fate = "err" => Fails(request[r].claimant)
    BY <1>1, RefusedClaimFails DEF Truthful, AnswerInv, RelayInv
  <1>7. Truthful(r)'
    BY <1>1, <1>2, <1>3, <1>4, <1>5, <1>6 DEF Truthful
  <1>8. QED
    BY <1>2, <1>3, <1>7, AccountsRest, OneMoves DEF AnswerInv

\* What a claim does to the money.
LEMMA FinalizePays ==
    ASSUME Money, RequestTypes, NEW p \in Claimants, NEW payer \in Payers, NEW proof,
           FinalizeClaim(p, Leaf[p], payer, proof),
           \/ payer = Sponsor
           \/ wallet' = Settled(p, Leaf[p], payer)
    PROVE  Pays(p)
  <1>1. Leaf[p] \in Nat /\ MarkerRent \in Nat /\ Sponsor \in Wallets /\ payer \in Wallets
        /\ p \in Wallets /\ wallet[Sponsor] \in Int
    BY LeafAssumption, RentAssumption, RelayAssumption, WalletAssumption DEF Money
  <1>2. \/ p = Sponsor \/ MarkerRent <= wallet[Sponsor] \/ wallet'[Sponsor] = wallet[Sponsor]
    <2>1. CASE payer = Sponsor /\ p # Sponsor
      <3>1. Credited(p, Leaf[p])[Sponsor] = wallet[Sponsor]
        BY <1>1, <2>1 DEF Credited, Money
      <3>2. QED
        BY <2>1, <3>1 DEF FinalizeClaim, CanFinalize
    <2>2. CASE wallet' = Settled(p, Leaf[p], payer) /\ payer # Sponsor /\ p # Sponsor
      BY <1>1, <2>2 DEF Settled, Credited, Money
    <2>3. QED
      BY <2>1, <2>2
  <1>3. QED
    BY <1>2 DEF FinalizeClaim, CanFinalize, Pays

\* The wallets after a claim.
LEMMA SettledTypes ==
    ASSUME Money, NEW p \in Claimants, NEW payer \in Payers, NEW back \in Int
    PROVE  /\ Settled(p, Leaf[p], payer) \in [Wallets -> Int]
           /\ [Settled(p, Leaf[p], payer) EXCEPT ![payer] = @ + back] \in [Wallets -> Int]
  <1>1. Leaf[p] \in Int /\ MarkerRent \in Int /\ payer \in Wallets /\ p \in Wallets
    BY LeafAssumption, RentAssumption, WalletAssumption
  <1>2. Credited(p, Leaf[p]) \in [Wallets -> Int]
    BY <1>1 DEF Credited, Money
  <1>3. Settled(p, Leaf[p], payer) \in [Wallets -> Int]
    BY <1>1, <1>2 DEF Settled
  <1>4. QED
    BY <1>1, <1>3

\* A transaction that executes pays the leaf of its claimant, if it claims, and
\* takes no more than rent, if it does not.
LEMMA ExecuteMoney ==
    ASSUME Money, RequestTypes, NEW r \in Requests, Execute(r), request[r] \in Started
    PROVE  /\ MoneyStep
           /\ request[r].stage = ClaimStage(request[r].leaf) =>
                 request[r].leaf = request[r].claimant /\ Pays(request[r].claimant)
  <1> PICK p, q, i : p = request[r].claimant /\ q = request[r].leaf /\ i = request[r].stage
    OBVIOUS
  <1>1. /\ p \in Claimants /\ q \in Claimants /\ i \in Nat \ {0} /\ i <= ClaimStage(q)
        /\ Sponsor \in Payers /\ <<p, Sponsor>> \in Keys
    BY RelayAssumption DEF RequestTypes, Started, Keys
  <1>2. CASE Inline(q)
    <2>1. p = q /\ Claim(p, Leaf[p], Sponsor, Path[p])
      BY <1>2 DEF Execute, ClaimInTx, FlagsFit
    <2>2. Pays(p)
      BY <1>1, <2>1, FinalizePays DEF Claim
    <2>3. wallet' \in [Wallets -> Int]
      BY <1>1, <2>1, SettledTypes DEF Claim
    <2>4. QED
      BY <1>1, <2>1, <2>2, <2>3 DEF MoneyStep
  <1>3. CASE ~Inline(q) /\ i = ClaimStage(q)
    <2> DEFINE b == buffer[<<p, Sponsor>>]
               back == Rent[b.total_len]
    <2>1. p = q /\ ClaimFromBuffer(p, Leaf[p], Sponsor, Len(Path[p]))
      BY <1>3 DEF Execute, ClaimStaged, FlagsFit
    <2>2. Pays(p)
      BY <1>1, <2>1, FinalizePays DEF ClaimFromBuffer
    <2>3. back \in Int
      <3>1. b \in Buffers
        BY <1>1, <2>1 DEF RequestTypes, ClaimFromBuffer
      <3>2. b.total_len \in BufferLens
        BY <3>1 DEF Buffers
      <3>3. QED
        BY <3>2, RentAssumption
    <2>4. wallet' = [Settled(p, Leaf[p], Sponsor) EXCEPT ![Sponsor] = @ + back]
      BY <2>1 DEF ClaimFromBuffer
    <2> HIDE DEF back
    <2>5. wallet' \in [Wallets -> Int]
      BY <1>1, <2>3, <2>4, SettledTypes
    <2>6. QED
      BY <1>1, <2>1, <2>2, <2>5 DEF MoneyStep
  <1>4. CASE ~Inline(q) /\ i # ClaimStage(q) /\ i = 1 /\ ~request[r].exists
    <2>1. InitAndWrite(p, q)
      BY <1>4 DEF Execute
    <2>2. Rent[Len(Path[q])] \in Nat
      BY <1>1, <1>4, PathTypes, RentAssumption
    <2>3. wallet' = [wallet EXCEPT ![Sponsor] = @ - Rent[Len(Path[q])]]
      BY <2>1 DEF InitAndWrite
    <2>4. wallet' \in [Wallets -> Int] /\ wallet'[Sponsor] <= wallet[Sponsor]
      BY <2>2, <2>3, RelayAssumption, WalletAssumption DEF Money
    <2>5. QED
      BY <1>4, <2>1, <2>4 DEF InitAndWrite, MoneyStep, PaysNobody
  <1>5. CASE ~Inline(q) /\ i # ClaimStage(q) /\ ~(i = 1 /\ ~request[r].exists)
    <2>1. Write(p, q, i)
      BY <1>5 DEF Execute
    <2>2. wallet' \in [Wallets -> Int] /\ wallet'[Sponsor] <= wallet[Sponsor]
      BY <2>1, RelayAssumption, WalletAssumption DEF Money, Write, WriteProofBuffer
    <2>3. QED
      BY <1>5, <2>1, <2>2 DEF Write, WriteProofBuffer, MoneyStep, PaysNobody
  <1>6. QED
    BY <1>2, <1>3, <1>4, <1>5

\* A transaction lands.
LEMMA LandMoves ==
    ASSUME AnswerInv, RelayInv', NEW r \in Requests, Land(r)
    PROVE  AnswerInv'
  <1>1. CASE tx' = [tx EXCEPT ![r] = "err"] /\ ~Executable(r) /\ UNCHANGED vars
    BY <1>1, TxFails DEF Land
  <1>2. CASE Execute(r) /\ tx' = [tx EXCEPT ![r] = "ok"]
    <2> DEFINE p == request[r].claimant
    <2>1. request[r] \in Started /\ p \in Claimants /\ Truthful(r)
      BY DEF Land, AnswerInv, RelayInv, RequestTypes, Started
    <2>2. /\ tx'[r] = "ok" /\ request'[r] = request[r]
          /\ \A o \in Requests \ {r} : request'[o] = request[o] /\ tx'[o] = tx[o]
      BY <1>2 DEF Land, AnswerInv, RelayInv, RequestTypes
    <2>3. /\ MoneyStep
          /\ Paying(r)' => request[r].leaf = p /\ Pays(p)
      BY <1>2, <2>1, <2>2, ExecuteMoney DEF AnswerInv, RelayInv, Paying
    <2>4. Paying(r)' => p \notin Claimed /\ p \in Claimed'
      <3>1. ASSUME Pays(p) PROVE Claimed' = Claimed \cup {p}
        <4>1. marker' = [marker EXCEPT ![p] = Leaf[p]] /\ Leaf[p] # NoMarker
          BY <2>1, <3>1, LeafAssumption, NoMarkerAssumption DEF Pays
        <4>2. QED
          BY <2>1, <4>1, MarkedIsClaimed DEF AnswerInv, RelayInv
      <3>2. Pays(p) => p \notin Claimed
        BY DEF Pays, Claimed
      <3>3. QED
        BY <2>3, <3>1, <3>2
    <2>5. signed \subseteq signed'
      BY <2>3, MoneyKept DEF AnswerInv, RelayInv
    <2>6. OwnClaim(r) => OwnClaim(r)'
      BY <2>2, <2>5 DEF OwnClaim
    <2>7. request[r].phase # "done"
      BY <2>1 DEF Land, Truthful, Paying
    <2>8. tx[r] = "inflight"
      BY DEF Land
    <2>9. Truthful(r)'
      BY <2>1, <2>2, <2>3, <2>4, <2>6, <2>7, <2>8 DEF Truthful
    <2>10. QED
      BY <2>2, <2>3, <2>4, <2>9, OneMoves
  <1>3. QED
    BY <1>1, <1>2 DEF Land

\* The poll finds a transaction.
LEMMA PollMoves ==
    ASSUME AnswerInv, RelayInv', NEW r \in Requests, Poll(r)
    PROVE  AnswerInv'
  <1>1. Running(r) /\ UNCHANGED vars /\ request[r] \in Started
    BY RunningIsStarted DEF Poll, Running, AnswerInv, RelayInv
  <1>2. CASE tx[r] = "err" /\ Move(r, [request[r] EXCEPT !.phase = "failed"]) /\ UNCHANGED tx
    BY <1>1, <1>2, PhaseMoves DEF Move
  <1>3. CASE /\ tx[r] = "ok" /\ Move(r, NextStage(r))
             /\ tx' = [tx EXCEPT ![r] = IF NextStage(r).phase = "sending" THEN "none" ELSE @]
    <2>1. CASE request[r].stage = ClaimStage(request[r].leaf)
      <3>1. NextStage(r) = [request[r] EXCEPT !.phase = "done"] /\ Paying(r)
        BY <1>3, <2>1 DEF NextStage, Paying
      <3>2. NextStage(r).phase = "done"
        BY <1>1, <3>1 DEF Started
      <3>3. tx' = tx
        BY <1>3, <3>2 DEF AnswerInv, RelayInv, RequestTypes
      <3>4. QED
        BY <1>1, <1>3, <3>1, <3>3, PhaseMoves DEF Move
    <2>2. CASE request[r].stage # ClaimStage(request[r].leaf)
      <3>1. NextStage(r).phase = "sending"
        <4>1. NextStage(r) = [request[r] EXCEPT !.phase = "sending", !.stage = @ + 1]
          BY <2>2 DEF NextStage
        <4>2. QED
          BY <1>1, <4>1 DEF Started
      <3>2. /\ tx'[r] = "none" /\ request'[r].phase = "sending"
            /\ \A o \in Requests \ {r} : request'[o] = request[o] /\ tx'[o] = tx[o]
        BY <1>3, <3>1 DEF Move, AnswerInv, RelayInv, RequestTypes
      <3>3. ~Paying(r)' /\ Truthful(r)'
        BY <3>2 DEF Paying, Truthful
      <3>4. QED
        BY <1>1, <3>2, <3>3, AccountsRest, OneMoves DEF AnswerInv
    <2>3. QED
      BY <2>1, <2>2
  <1>4. QED
    BY <1>2, <1>3 DEF Poll

\* The page makes its request.
LEMMA RequestMoves ==
    ASSUME AnswerInv, RelayInv', NEW r \in Requests, OnClaim(r)
    PROVE  AnswerInv'
  <1>1. PICK new : /\ request' = [request EXCEPT ![r] = new]
                   /\ new.phase \in {"sending", "failed"}
    BY Received DEF Refused, Taken
  <1>2. tx[r] = "none" /\ UNCHANGED tx
    BY DEF OnClaim, AnswerInv, RelayInv, RequestTypes, Idle, Started
  <1>3. /\ tx'[r] = "none" /\ request'[r] = new
        /\ \A o \in Requests \ {r} : request'[o] = request[o] /\ tx'[o] = tx[o]
    BY <1>1, <1>2 DEF AnswerInv, RelayInv, RequestTypes
  <1>4. ~Paying(r)' /\ Truthful(r)'
    BY <1>1, <1>3 DEF Paying, Truthful
  <1>5. MoneyStep
    BY RelayAssumption, WalletAssumption DEF OnClaim, AnswerInv, Money, MoneyStep, PaysNobody
  <1>6. QED
    BY <1>3, <1>4, <1>5, OneMoves

\* The claimants sign, or claim without the sponsor.
LEMMA ClaimantsMove ==
    ASSUME AnswerInv, RelayInv', ClaimantActs
    PROVE  AnswerInv'
  <1>1. CASE \E p \in Claimants : SignClaimMessage(p, Leaf[p])
    <2>1. MoneyStep
      BY <1>1, RelayAssumption, WalletAssumption
         DEF SignClaimMessage, AnswerInv, Money, MoneyStep, PaysNobody
    <2>2. QED
      BY <2>1, NoneMoves DEF ClaimantActs, relayVars
  <1>2. CASE \E p \in Claimants, payer \in Payers \ {Sponsor} : Claim(p, Leaf[p], payer, Path[p])
    <2>1. PICK p \in Claimants, payer \in Payers : Claim(p, Leaf[p], payer, Path[p])
      BY <1>2
    <2>2. Pays(p)
      BY <2>1, FinalizePays DEF Claim, AnswerInv, RelayInv
    <2>3. wallet' \in [Wallets -> Int]
      BY <2>1, SettledTypes DEF Claim, AnswerInv
    <2>4. QED
      BY <2>2, <2>3, NoneMoves DEF ClaimantActs, relayVars, MoneyStep
  <1>3. QED
    BY <1>1, <1>2 DEF ClaimantActs

\* A stranger writes, and no money moves.
LEMMA StrangerMoves ==
    ASSUME AnswerInv, RelayInv', StrangerWrites
    PROVE  AnswerInv'
  <1>1. UNCHANGED <<treasury, treasuryOwner, wallet, marker, signed, paid, request, tx>>
    BY DEF StrangerWrites, WriteProofBuffer
  <1>2. MoneyStep
    BY <1>1, RelayAssumption, WalletAssumption DEF AnswerInv, Money, MoneyStep, PaysNobody
  <1>3. QED
    BY <1>1, <1>2, NoneMoves

\* Nothing is answered at first.
LEMMA InitAnswers == PageInit => AnswerInv
  <1> SUFFICES ASSUME PageInit PROVE AnswerInv
    OBVIOUS
  <1> USE DEF PageInit, RelayInit, Init
  <1>1. Claimed = {}
    BY DEF Claimed
  <1>2. Money
    BY <1>1, GenesisAssumption DEF Money
  <1>3. \A r \in Requests : request[r] \notin Started /\ ~Paying(r)
    BY DEF Idle, Started, Paying
  <1>4. QED
    BY <1>2, <1>3, InitRelay DEF AnswerInv, PaidByOne

\* The invariant is inductive.
LEMMA StepAnswers == AnswerInv /\ [PageNext]_<<vars, relayVars, page>> => AnswerInv'
  <1> SUFFICES ASSUME AnswerInv, [PageNext]_<<vars, relayVars, page>> PROVE AnswerInv'
    OBVIOUS
  <1>1. RelayInv'
    BY StepRelay DEF AnswerInv
  <1>2. CASE UNCHANGED <<vars, relayVars>>
    BY <1>1, <1>2, AccountsRest, NoneMoves DEF AnswerInv, relayVars
  <1>3. CASE \E r \in Requests : Connect(r) \/ Look(r) \/ LookLate(r)
    BY <1>2, <1>3 DEF Connect, Look, LookLate
  <1>4. CASE \E r \in Requests : OnClaim(r)
    BY <1>1, <1>4, RequestMoves
  <1>5. CASE ClaimantActs
    BY <1>1, <1>5, ClaimantsMove
  <1>6. ASSUME NEW r \in Requests, HandlerStep(r) \/ Land(r) \/ Expire(r) \/ Kill(r)
        PROVE  AnswerInv'
    <2>1. CASE Send(r)
      BY <1>1, <2>1, SendMoves
    <2>2. CASE Poll(r)
      BY <1>1, <2>2, PollMoves
    <2>3. CASE TimeOut(r) \/ Kill(r)
      <3>1. /\ Running(r) /\ UNCHANGED <<vars, tx>>
            /\ request' = [request EXCEPT ![r] = [request[r] EXCEPT !.phase = "failed"]]
        BY <2>3 DEF TimeOut, Kill, Running, Move
      <3>2. QED
        BY <1>1, <3>1, PhaseMoves
    <2>4. CASE Land(r)
      BY <1>1, <2>4, LandMoves
    <2>5. CASE Expire(r)
      BY <1>1, <2>5, TxFails DEF Expire
    <2>6. QED
      BY <1>6, <2>1, <2>2, <2>3, <2>4, <2>5 DEF HandlerStep
  <1>7. CASE StrangerWrites
    BY <1>1, <1>7, StrangerMoves
  <1>8. QED
    BY <1>2, <1>3, <1>4, <1>5, <1>6, <1>7 DEF PageNext, RelayNext

\* Whatever the tabs do and however the transactions of the requests fare: a
\* request is told of a claim only when that claim paid its claimant's leaf, no
\* second claim pays beside it, and one that was answered without waiting fails
\* only for want of money or because the claimant is paid.
THEOREM AnswersHold == PageSpec => []AnswersAreTrue
  <1>1. PageSpec => []AnswerInv
    BY InitAnswers, StepAnswers, PTL DEF PageSpec
  <1>2. QED
    BY <1>1, InvAnswers, PTL
=============================================================================
