-------------------------- MODULE MegadropProofs --------------------------
(***************************************************************************)
(* Proofs about Megadrop for every number of tranches, every set of roots  *)
(* and allocations, and every interleaving of claims and updates; and about*)
(* MegadropPage: why a claim that the page sends may be refused, and that  *)
(* the program keeps its promises with the page at work.                   *)
(***************************************************************************)
EXTENDS MegadropPage, SharedLemmas, TLAPS

-----------------------------------------------------------------------------
(* Proof buffers.                                                          *)

\* Staging bytes keeps a buffer well formed, whatever the offset and however
\* the writes are ordered (write_proof_buffer).
LEMMA WriteKeepsBuffer ==
    ASSUME NEW b \in Buffers, NEW off \in Nat, NEW bytes \in Seq(Siblings),
           off + Len(bytes) <= b.total_len
    PROVE  /\ WriteInto(b, off, bytes) \in Buffers
           /\ WriteInto(b, off, bytes).total_len = b.total_len
  <1> DEFINE S == Siblings \cup {Blank}
  <1>1. PICK n \in BufferLens :
          b \in [total_len : {n}, bytes_written : 0..n, data : [1..n -> S]]
    BY DEF Buffers
  <1>2. n \in Nat /\ b.total_len = n /\ Len(bytes) \in Nat /\ bytes \in Seq(S)
    BY <1>1, LengthAssumption
  <1> HIDE DEF S
  <1>3. WriteInto(b, off, bytes).data \in [1..n -> S]
    BY <1>1, <1>2, Overwritten DEF WriteInto
  <1>4. WriteInto(b, off, bytes) \in
          [total_len : {n}, bytes_written : 0..n, data : [1..n -> S]]
    BY <1>1, <1>2, <1>3 DEF WriteInto
  <1>5. QED
    BY <1>1, <1>2, <1>4 DEF Buffers, WriteInto, S

\* A buffer fresh from init_proof_buffer is well formed.
LEMMA NewBufferIsBuffer ==
    ASSUME NEW n \in BufferLens
    PROVE  NewBuffer(n) \in Buffers
  BY LengthAssumption DEF NewBuffer, Buffers

-----------------------------------------------------------------------------
(* Tranches and amounts.                                                   *)

\* A set of tranches is finite and has a size, as a bitmap has a popcount.
LEMMA TranchesFinite ==
    ASSUME NEW ts \in SUBSET Tranches
    PROVE  IsFiniteSet(ts) /\ Cardinality(ts) \in Nat
  <1>1. IsFiniteSet(Tranches)
    BY FS_Interval, TrancheAssumption DEF Tranches
  <1>2. IsFiniteSet(ts)
    BY <1>1, FS_Subset
  <1>3. QED
    BY <1>2, FS_CardinalityType

\* tranche_amount and compute_claim_amount stay in the natural numbers.
LEMMA AmountNat ==
    ASSUME NEW total \in Nat, NEW ts \in SUBSET Tranches
    PROVE  /\ TrancheAmount(total) \in Nat
           /\ ClaimAmount(total, ts) \in Nat
           /\ ClaimAmount(total, ts) = Cardinality(ts) * TrancheAmount(total)
  <1>1. TrancheAmount(total) \in Nat
    BY TrancheAssumption DEF TrancheAmount
  <1>2. Cardinality(ts) \in Nat
    BY TranchesFinite
  <1> DEFINE t == TrancheAmount(total)
             c == Cardinality(ts)
  <1>3. t * c \in Nat /\ t * c = c * t
    <2> HIDE DEF t, c
    <2>1. QED
      BY <1>1, <1>2 DEF t, c
  <1>4. QED
    BY <1>1, <1>3 DEF ClaimAmount

\* Tranches that were not yet taken add their number to the popcount.
LEMMA DisjointCount ==
    ASSUME NEW S \in SUBSET Tranches, NEW T \in SUBSET Tranches, T \cap S = {}
    PROVE  Cardinality(S \cup T) = Cardinality(S) + Cardinality(T)
  <1>1. /\ IsFiniteSet(S) /\ Cardinality(S) \in Nat
        /\ IsFiniteSet(T) /\ Cardinality(T) \in Nat
    BY TranchesFinite
  <1>2. Cardinality(S \cap T) = 0
    <2>1. S \cap T = {}
      OBVIOUS
    <2>2. QED
      BY <2>1, FS_EmptySet
  <1>3. Cardinality(S \cup T) = Cardinality(S) + Cardinality(T) - Cardinality(S \cap T)
    BY <1>1, FS_Union
  <1>4. QED
    BY <1>1, <1>2, <1>3

\* A request that validate_and_pack_tranches accepts lists tranches.
LEMMA RequestedTranches ==
    ASSUME NEW req \in Seq(Nat), ValidRequest(req)
    PROVE  Requested(req) \in SUBSET Tranches /\ Requested(req) # {}
  <1>1. req \in Seq(Nat) /\ req # <<>>
    BY DEF ValidRequest
  <1>2. Len(req) \in Nat /\ Len(req) # 0
    BY <1>1
  <1>3. 1 \in 1..Len(req)
    BY <1>2
  <1>4. QED
    BY <1>3 DEF Requested, ValidRequest

-----------------------------------------------------------------------------
(* What a step does to the records: one claim, or nothing.                 *)

Lamports(h) == IF record[h] = NoRecord THEN 0 ELSE record[h].lamports

\* A claim as the records see it.
Pays(h, total, ts) ==
    /\ config # NoConfig
    /\ total \in Totals /\ total \in Nat
    /\ ts \in SUBSET Tranches /\ ts # {}
    /\ ts \cap Taken(h) = {}
    /\ \A i \in ts : Unlocked(config.genesis, now, i)
    /\ record[h] # NoRecord => record[h].total = total
    /\ <<h, total, ts>> \in signed
    /\ h \in DOMAIN Leaf[config.root] /\ total = Leaf[config.root][h]
    /\ record' = [record EXCEPT ![h] =
                    [total    |-> total,
                     claimed  |-> Taken(h) \cup ts,
                     lamports |-> Lamports(h) + ClaimAmount(total, ts)]]
    /\ paid' = [paid EXCEPT ![h] = @ + ClaimAmount(total, ts)]
    /\ signed' = signed

LeavesRecords == UNCHANGED <<record, paid>> /\ signed \subseteq signed'

RecordsMove ==
    \/ \E h \in Holders : \E total, ts : Pays(h, total, ts)
    \/ LeavesRecords

\* A settlement pays each tranche it records.
LEMMA SettlePays ==
    ASSUME TypeOK, NEW h \in Holders, NEW total \in Totals, NEW req \in Seq(Nat),
           NEW payer \in Payers, NEW proof, SettleClaim(h, total, req, payer, proof)
    PROVE  Pays(h, total, Requested(req))
  <1>1. CanClaim(h, total, req, payer, proof)
    BY DEF SettleClaim
  <1>2. Requested(req) \in SUBSET Tranches /\ Requested(req) # {}
    BY <1>1, RequestedTranches DEF CanClaim
  <1>3. total \in Nat
    BY TotalAssumption
  <1>4. /\ config # NoConfig /\ Requested(req) \cap Taken(h) = {}
        /\ \A i \in Requested(req) : Unlocked(config.genesis, now, i)
        /\ record[h] # NoRecord => record[h].total = total
        /\ <<h, total, Requested(req)>> \in signed
        /\ h \in DOMAIN Leaf[config.root] /\ total = Leaf[config.root][h]
    BY <1>1 DEF CanClaim, Claimable, Consented, VerifyInclusion
  <1>5. QED
    BY <1>2, <1>3, <1>4 DEF SettleClaim, Pays, Lamports

\* What a step may do to the claims.
LEMMA StepShape ==
    ASSUME TypeOK, [Next]_vars
    PROVE  RecordsMove
  <1>1. ASSUME NEW h \in Holders, NEW total \in Totals, NEW req \in Seq(Nat),
               NEW payer \in Payers, NEW proof, ClaimMegadrop(h, total, req, payer, proof)
        PROVE  Pays(h, total, Requested(req))
    BY <1>1, SettlePays DEF ClaimMegadrop
  <1>2. ASSUME NEW h \in Holders, NEW total \in Totals, NEW req \in Seq(Nat),
               NEW payer \in Payers, NEW n \in BufferLens,
               ClaimMegadropFromBuffer(h, total, req, payer, n)
        PROVE  Pays(h, total, Requested(req))
    BY <1>2, SettlePays DEF ClaimMegadropFromBuffer
  <1>3. CASE NextMonth
    BY <1>3 DEF NextMonth, LeavesRecords, RecordsMove
  <1>4. CASE Sign
    BY <1>4 DEF Sign, SignClaimMessage, LeavesRecords, RecordsMove
  <1>5. CASE Configure
    BY <1>5 DEF Configure, InitMegadrop, UpdateMegadrop, LeavesRecords, RecordsMove
  <1>6. CASE StageBuffer
    BY <1>6 DEF StageBuffer, InitProofBuffer, WriteProofBuffer, LeavesRecords, RecordsMove
  <1>7. CASE UNCHANGED vars
    BY <1>7 DEF vars, LeavesRecords, RecordsMove
  <1>8. QED
    BY <1>1, <1>2, <1>3, <1>4, <1>5, <1>6, <1>7, RequestAssumption
       DEF Next, ClaimInline, ClaimBuffered, RecordsMove

-----------------------------------------------------------------------------
(* Type correctness.                                                       *)

\* A settlement keeps the shape.
LEMMA SettleTypes ==
    ASSUME TypeOK, NEW h \in Holders, NEW total \in Totals, NEW req \in Seq(Nat),
           NEW payer \in Payers, NEW proof, SettleClaim(h, total, req, payer, proof)
    PROVE  /\ record' \in [Holders -> Records \cup {NoRecord}]
           /\ treasury' \in [Treasuries -> Nat]
           /\ paid' \in [Holders -> Nat]
           /\ Settled(h, ClaimAmount(total, Requested(req)), payer) \in [Wallets -> Nat]
  <1> DEFINE amount == ClaimAmount(total, Requested(req))
  <1>1. Pays(h, total, Requested(req))
    BY SettlePays
  <1>2. total \in Nat /\ Requested(req) \in SUBSET Tranches
    BY <1>1 DEF Pays
  <1>3. amount \in Nat
    BY <1>2, AmountNat
  <1>4. record' \in [Holders -> Records \cup {NoRecord}]
    <2>1. Lamports(h) \in Nat /\ Taken(h) \in SUBSET Tranches
      BY DEF TypeOK, Lamports, Taken, Records
    <2>2. [total    |-> total,
           claimed  |-> Taken(h) \cup Requested(req),
           lamports |-> Lamports(h) + amount] \in Records
      BY <1>2, <1>3, <2>1 DEF Records
    <2>3. QED
      BY <1>1, <2>2 DEF Pays, TypeOK
  <1>5. treasury' \in [Treasuries -> Nat]
    <2>1. config \in Configs /\ amount <= treasury[config.treasury]
      BY DEF SettleClaim, CanClaim, TreasuryCovers, TypeOK
    <2>2. config.treasury \in Treasuries
      BY <2>1 DEF Configs
    <2>3. treasury[config.treasury] - amount \in Nat
      BY <1>3, <2>1, <2>2 DEF TypeOK
    <2>4. treasury' = [treasury EXCEPT ![config.treasury] = @ - amount]
      BY DEF SettleClaim
    <2>5. QED
      BY <2>2, <2>3, <2>4 DEF TypeOK
  <1>6. paid' \in [Holders -> Nat]
    BY <1>1, <1>3 DEF Pays, TypeOK
  <1>7. Settled(h, amount, payer) \in [Wallets -> Nat]
    <2>1. h \in Wallets /\ payer \in Wallets /\ RecordCost(h) \in Nat
      BY WalletAssumption, RentAssumption DEF RecordCost
    <2>2. RecordCost(h) <= wallet[payer] /\ wallet[payer] \in Nat
      BY <2>1 DEF SettleClaim, CanClaim, TypeOK
    <2>3. wallet[payer] - RecordCost(h) \in Nat
      BY <2>1, <2>2
    <2>4. [wallet EXCEPT ![payer] = @ - RecordCost(h)] \in [Wallets -> Nat]
      BY <2>1, <2>3 DEF TypeOK
    <2>5. QED
      <3> HIDE DEF amount
      <3>1. QED
        BY <1>3, <2>1, <2>4 DEF Settled
  <1>8. QED
    BY <1>4, <1>5, <1>6, <1>7

\* The buffers that a claim or a write acts on are well formed.
LEMMA OpenBufferIsBuffer ==
    ASSUME TypeOK, NEW h \in Holders, NEW payer \in Payers,
           buffer[<<h, payer>>] # NoBuffer
    PROVE  /\ buffer[<<h, payer>>] \in Buffers
           /\ Rent[buffer[<<h, payer>>].total_len] \in Nat
  <1>1. <<h, payer>> \in Keys
    BY DEF Keys
  <1>2. buffer[<<h, payer>>] \in Buffers
    BY <1>1 DEF TypeOK
  <1>3. buffer[<<h, payer>>].total_len \in BufferLens
    BY <1>2 DEF Buffers
  <1>4. QED
    BY <1>2, <1>3, RentAssumption

\* So does a claim,
LEMMA ClaimTypes ==
    ASSUME TypeOK, NEW h \in Holders, NEW total \in Totals, NEW req \in Seq(Nat),
           NEW payer \in Payers
    PROVE  /\ \A proof : ClaimMegadrop(h, total, req, payer, proof) => TypeOK'
           /\ \A n \in BufferLens :
                ClaimMegadropFromBuffer(h, total, req, payer, n) => TypeOK'
  <1> DEFINE paidOut == Settled(h, ClaimAmount(total, Requested(req)), payer)
  <1>1. ASSUME NEW proof, ClaimMegadrop(h, total, req, payer, proof)
        PROVE  TypeOK'
    <2>1. SettleClaim(h, total, req, payer, proof) /\ wallet' = paidOut /\ buffer' = buffer
      BY <1>1 DEF ClaimMegadrop
    <2>2. UNCHANGED <<now, config, signed>>
      BY <2>1 DEF SettleClaim
    <2>3. QED
      BY <2>1, <2>2, SettleTypes DEF TypeOK
  <1>2. ASSUME NEW n \in BufferLens, ClaimMegadropFromBuffer(h, total, req, payer, n)
        PROVE  TypeOK'
    <2> DEFINE b == buffer[<<h, payer>>]
    <2>1. /\ b # NoBuffer
          /\ SettleClaim(h, total, req, payer, StagedProof(b, n))
          /\ buffer' = [buffer EXCEPT ![<<h, payer>>] = NoBuffer]
          /\ wallet' = [paidOut EXCEPT ![payer] = @ + Rent[b.total_len]]
      BY <1>2 DEF ClaimMegadropFromBuffer
    <2>2. UNCHANGED <<now, config, signed>>
      BY <2>1 DEF SettleClaim
    <2>3. paidOut \in [Wallets -> Nat] /\ payer \in Wallets /\ Rent[b.total_len] \in Nat
      BY <2>1, SettleTypes, OpenBufferIsBuffer, WalletAssumption
    <2>4. wallet' \in [Wallets -> Nat]
      <3> HIDE DEF paidOut, b
      <3>1. QED
        BY <2>1, <2>3
    <2>5. buffer' \in [Keys -> Buffers \cup {NoBuffer}]
      BY <2>1 DEF TypeOK
    <2>6. QED
      BY <2>1, <2>2, <2>4, <2>5, SettleTypes DEF TypeOK
  <1>3. QED
    BY <1>1, <1>2

\* and staging its proof.
LEMMA StageTypes ==
    ASSUME TypeOK, StageBuffer
    PROVE  TypeOK'
  <1>1. ASSUME NEW h \in Holders, NEW payer \in Payers, NEW n \in BufferLens,
               InitProofBuffer(h, payer, n)
        PROVE  TypeOK'
    <2>1. NewBuffer(n) \in Buffers /\ payer \in Wallets /\ Rent[n] \in Nat
      BY NewBufferIsBuffer, WalletAssumption, RentAssumption
    <2>2. wallet' \in [Wallets -> Nat]
      BY <1>1, <2>1 DEF InitProofBuffer, TypeOK
    <2>3. buffer' \in [Keys -> Buffers \cup {NoBuffer}]
      BY <1>1, <2>1 DEF InitProofBuffer, TypeOK
    <2>4. QED
      BY <1>1, <2>2, <2>3 DEF InitProofBuffer, TypeOK
  <1>2. ASSUME NEW h \in Holders, NEW payer \in Payers, NEW off \in BufferLens \cup {0},
               NEW bytes \in WriteChunks, WriteProofBuffer(h, payer, off, bytes)
        PROVE  TypeOK'
    <2> DEFINE b == buffer[<<h, payer>>]
    <2>1. b \in Buffers
      BY <1>2, OpenBufferIsBuffer DEF WriteProofBuffer
    <2>2. off \in Nat /\ off + Len(bytes) <= b.total_len
      BY <1>2, LengthAssumption DEF WriteProofBuffer
    <2>3. WriteInto(b, off, bytes) \in Buffers
      BY <2>1, <2>2, WriteKeepsBuffer, ChunkAssumption
    <2>4. buffer' \in [Keys -> Buffers \cup {NoBuffer}]
      BY <1>2, <2>3 DEF WriteProofBuffer, TypeOK
    <2>5. QED
      BY <1>2, <2>4 DEF WriteProofBuffer, TypeOK
  <1>3. QED
    BY <1>1, <1>2 DEF StageBuffer

\* One step for each instruction.
LEMMA TypeStep == TypeOK /\ [Next]_vars => TypeOK'
  <1> SUFFICES ASSUME TypeOK, [Next]_vars PROVE TypeOK'
    OBVIOUS
  <1>1. CASE NextMonth
    <2>1. now' \in Nat
      BY <1>1 DEF NextMonth, TypeOK
    <2>2. QED
      BY <1>1, <2>1 DEF NextMonth, TypeOK
  <1>2. CASE Sign
    <2>1. PICK h \in Holders, total \in Totals, req \in Requests :
            ValidRequest(req) /\ SignClaimMessage(h, total, Requested(req))
      BY <1>2 DEF Sign
    <2>2. Requested(req) \in SUBSET Tranches
      BY <2>1, RequestedTranches, RequestAssumption
    <2>3. QED
      BY <2>1, <2>2 DEF SignClaimMessage, TypeOK
  <1>3. CASE Configure
    <2>1. PICK r \in Roots, month \in GenesisMonths, t \in Treasuries :
            InitMegadrop(r, month, t) \/ UpdateMegadrop(r, month, t)
      BY <1>3 DEF Configure
    <2>2. [root |-> r, genesis |-> month, treasury |-> t] \in Configs
      BY DEF Configs
    <2>3. wallet' \in [Wallets -> Nat]
      BY <2>1, WalletAssumption, RentAssumption DEF InitMegadrop, UpdateMegadrop, TypeOK
    <2>4. QED
      BY <2>1, <2>2, <2>3 DEF InitMegadrop, UpdateMegadrop, TypeOK
  <1>4. CASE ClaimInline
    BY <1>4, ClaimTypes, RequestAssumption DEF ClaimInline
  <1>5. CASE ClaimBuffered
    BY <1>5, ClaimTypes, RequestAssumption DEF ClaimBuffered
  <1>6. CASE StageBuffer
    BY <1>6, StageTypes
  <1>7. CASE UNCHANGED vars
    BY <1>7 DEF vars, TypeOK
  <1>8. QED
    BY <1>1, <1>2, <1>3, <1>4, <1>5, <1>6, <1>7 DEF Next

\* The initial state is of the right shape.
LEMMA TypeInit == Init => TypeOK
  BY GenesisAssumption, MonthAssumption DEF Init, TypeOK

\* Every account keeps a value the code can hold: no balance underflows, and
\* only tranches that exist are recorded or signed for.
THEOREM TypeCorrect == Spec => []TypeOK
  BY TypeInit, TypeStep, PTL DEF Spec

-----------------------------------------------------------------------------
(* Payments.                                                               *)

\* A payment marks the tranches it pays, so the bitmap and the payments stay in
\* step.
LEMMA PaidStep ==
    ASSUME TypeOK, PaidMatchesBitmap, RecordsMove
    PROVE  PaidMatchesBitmap'
  <1>1. ASSUME NEW h \in Holders, NEW total, NEW ts, Pays(h, total, ts)
        PROVE  PaidMatchesBitmap'
    <2> DEFINE rate == TrancheAmount(total)
               new == [total    |-> total,
                       claimed  |-> Taken(h) \cup ts,
                       lamports |-> Lamports(h) + ClaimAmount(total, ts)]
    <2>1. total \in Nat /\ ts \in SUBSET Tranches /\ ts \cap Taken(h) = {}
      BY <1>1 DEF Pays
    <2>2. Taken(h) \in SUBSET Tranches
      BY DEF TypeOK, Taken, Records
    <2>3. rate \in Nat /\ ClaimAmount(total, ts) = Cardinality(ts) * rate
      BY <2>1, AmountNat
    <2>4. Cardinality(Taken(h)) \in Nat /\ Cardinality(ts) \in Nat
      BY <2>1, <2>2, TranchesFinite
    <2>5. paid[h] = Lamports(h) /\ paid[h] = Cardinality(Taken(h)) * rate
      <3>1. CASE record[h] = NoRecord
        <4>1. paid[h] = 0 /\ Lamports(h) = 0 /\ Taken(h) = {}
          BY <3>1 DEF PaidMatchesBitmap, Lamports, Taken
        <4>2. 0 * rate = 0
          BY <2>3
        <4>3. QED
          BY <4>1, <4>2, FS_EmptySet
      <3>2. CASE record[h] # NoRecord
        BY <1>1, <3>2 DEF PaidMatchesBitmap, Lamports, Taken, Pays
      <3>3. QED
        BY <3>1, <3>2
    <2>6. Cardinality(Taken(h) \cup ts) = Cardinality(Taken(h)) + Cardinality(ts)
      BY <2>1, <2>2, DisjointCount
    <2>7. paid[h] + ClaimAmount(total, ts) = Cardinality(Taken(h) \cup ts) * rate
      <3> DEFINE c == Cardinality(Taken(h))
                 d == Cardinality(ts)
      <3>1. c * rate + d * rate = (c + d) * rate
        <4>1. c \in Nat /\ d \in Nat /\ rate \in Nat
          BY <2>3, <2>4
        <4> HIDE DEF c, d, rate
        <4>2. QED
          BY <4>1
      <3>2. QED
        BY <2>3, <2>5, <2>6, <3>1
    <2>8. /\ record'[h] = new
          /\ paid'[h] = paid[h] + ClaimAmount(total, ts)
          /\ \A g \in Holders \ {h} : record'[g] = record[g] /\ paid'[g] = paid[g]
      BY <1>1 DEF Pays, TypeOK
    <2>9. new # NoRecord
      <3>1. Lamports(h) \in Nat /\ ClaimAmount(total, ts) \in Nat
        BY <2>1, AmountNat DEF TypeOK, Lamports, Records
      <3>2. new \in Records
        BY <2>1, <2>2, <3>1 DEF Records
      <3>3. QED
        BY <3>2, AbsenceAssumption
    <2>10. /\ paid'[h] = new.lamports
           /\ paid'[h] = Cardinality(new.claimed) * TrancheAmount(new.total)
      BY <2>5, <2>7, <2>8
    <2>11. QED
      <3> HIDE DEF new
      <3>1. QED
        BY <2>8, <2>9, <2>10 DEF PaidMatchesBitmap
  <1>2. CASE LeavesRecords
    BY <1>2 DEF LeavesRecords, PaidMatchesBitmap
  <1>3. QED
    BY <1>1, <1>2 DEF RecordsMove

\* The lifetime total on record is the number of tranches taken times a tenth
\* of the allocation, and is what the holder got: no order of claims, relayers
\* and updates pays a tranche twice.
THEOREM PaidAsRecorded == Spec => []PaidMatchesBitmap
  <1>1. Init => PaidMatchesBitmap
    BY DEF Init, PaidMatchesBitmap
  <1>2. QED
    BY <1>1, TypeInit, TypeStep, StepShape, PaidStep, PTL DEF Spec

\* Nobody is paid without its own signature.
LEMMA ConsentStep ==
    ASSUME TypeOK, ConsentedTranches, RecordsMove
    PROVE  ConsentedTranches'
  <1>1. ASSUME NEW h \in Holders, NEW total, NEW ts, Pays(h, total, ts)
        PROVE  ConsentedTranches'
    <2>1. /\ record'[h].total = total
          /\ record'[h].claimed = Taken(h) \cup ts
          /\ \A g \in Holders \ {h} : record'[g] = record[g]
          /\ signed' = signed /\ <<h, total, ts>> \in signed
      BY <1>1 DEF Pays, TypeOK
    <2>2. \A i \in Taken(h) : \E s \in signed : s[1] = h /\ s[2] = total /\ i \in s[3]
      BY <1>1 DEF Pays, Taken, ConsentedTranches, Recorded
    <2>3. \A i \in ts : \E s \in signed : s[1] = h /\ s[2] = total /\ i \in s[3]
      BY <2>1
    <2>4. \A i \in record'[h].claimed :
            \E s \in signed' : s[1] = h /\ s[2] = record'[h].total /\ i \in s[3]
      BY <2>1, <2>2, <2>3
    <2>5. QED
      BY <2>1, <2>4 DEF ConsentedTranches, Recorded
  <1>2. CASE LeavesRecords
    BY <1>2 DEF LeavesRecords, ConsentedTranches, Recorded
  <1>3. QED
    BY <1>1, <1>2 DEF RecordsMove

\* No tranche is recorded without its holder's signature over it.
THEOREM Consent == Spec => []ConsentedTranches
  <1>1. Init => ConsentedTranches
    BY DEF Init, ConsentedTranches, Recorded
  <1>2. QED
    BY <1>1, TypeInit, TypeStep, StepShape, ConsentStep, PTL DEF Spec

\* A claim settles the allocation that the root of that moment commits to.
LEMMA RootStep ==
    ASSUME TypeOK, RecordsMove
    PROVE  \A h \in Holders :
             record'[h] # record[h] =>
               /\ h \in DOMAIN Leaf[config.root]
               /\ record'[h].total = Leaf[config.root][h]
  <1>1. ASSUME NEW h \in Holders, NEW total, NEW ts, Pays(h, total, ts),
               NEW g \in Holders, record'[g] # record[g]
        PROVE  /\ g \in DOMAIN Leaf[config.root]
               /\ record'[g].total = Leaf[config.root][g]
    <2>1. g = h
      BY <1>1 DEF Pays, TypeOK
    <2>2. record'[h].total = total
      BY <1>1 DEF Pays, TypeOK
    <2>3. QED
      BY <1>1, <2>1, <2>2 DEF Pays
  <1>2. QED
    BY <1>1 DEF RecordsMove, LeavesRecords

\* After a rotation neither an old proof nor an old allocation settles a claim.
THEOREM UnderCurrentRoot == Spec => PaidUnderCurrentRoot
  BY TypeInit, TypeStep, StepShape, RootStep, PTL DEF Spec, PaidUnderCurrentRoot

-----------------------------------------------------------------------------
(* The program implements the vesting ledger.                              *)

\* As many tranches as were recorded.
LEMMA SameCount ==
    ASSUME NEW ts
    PROVE  Vesting!Cardinality(ts) = Cardinality(ts)
  BY DEF Cardinality, Vesting!Cardinality

\* Every step is a step of the vesting ledger, or none.
LEMMA VestingStep ==
    ASSUME TypeOK, RecordsMove
    PROVE  [Vesting!VestNext]_(Vesting!vestVars)
  <1> DEFINE rates == [h \in Holders |-> IF record[h] = NoRecord THEN NoRecord
                                         ELSE TrancheAmount(record[h].total)]
             takes == [h \in Holders |-> Taken(h)]
  <1>1. ASSUME NEW h \in Holders, NEW total, NEW ts, Pays(h, total, ts)
        PROVE  Vesting!Take(h, ts, TrancheAmount(total))
    <2> DEFINE new == [total    |-> total,
                       claimed  |-> Taken(h) \cup ts,
                       lamports |-> Lamports(h) + ClaimAmount(total, ts)]
    <2>1. total \in Nat /\ ts \in SUBSET Tranches /\ ts # {} /\ ts \cap Taken(h) = {}
      BY <1>1 DEF Pays
    <2>2. ClaimAmount(total, ts) \in Nat
          /\ ClaimAmount(total, ts) = Cardinality(ts) * TrancheAmount(total)
      BY <2>1, AmountNat
    <2>3. new # NoRecord
      <3>1. Lamports(h) \in Nat /\ Taken(h) \in SUBSET Tranches
        BY DEF TypeOK, Lamports, Taken, Records
      <3>2. new \in Records
        BY <2>1, <2>2, <3>1 DEF Records
      <3>3. QED
        BY <3>2, AbsenceAssumption
    <2>4. /\ record'[h] = new /\ new.claimed = Taken(h) \cup ts /\ new.total = total
          /\ \A g \in Holders \ {h} : record'[g] = record[g]
      BY <1>1 DEF Pays, TypeOK
    <2>5. rates[h] \in {NoRecord, TrancheAmount(total)}
      BY <1>1 DEF Pays
    <2>6. takes' = [takes EXCEPT ![h] = @ \cup ts]
      <3> HIDE DEF new
      <3>1. Taken(h)' = Taken(h) \cup ts
        BY <2>3, <2>4 DEF Taken
      <3>2. \A g \in Holders \ {h} : Taken(g)' = Taken(g)
        BY <2>4 DEF Taken
      <3>3. QED
        BY <3>1, <3>2
    <2>7. rates' = [rates EXCEPT ![h] = TrancheAmount(total)]
      <3> HIDE DEF new
      <3>1. QED
        BY <2>3, <2>4
    <2>8. paid' = [paid EXCEPT ![h] = @ + Cardinality(ts) * TrancheAmount(total)]
      BY <1>1, <2>2 DEF Pays
    <2>9. QED
      BY <2>1, <2>5, <2>6, <2>7, <2>8, SameCount DEF Vesting!Take
  <1>2. ASSUME NEW h \in Holders, NEW total, NEW ts, Pays(h, total, ts)
        PROVE  Vesting!VestNext
    <2>1. ts \in SUBSET Tranches /\ total \in Totals
      BY <1>2 DEF Pays
    <2>2. QED
      BY <1>1, <1>2, <2>1 DEF Vesting!VestNext
  <1>3. ASSUME LeavesRecords PROVE UNCHANGED Vesting!vestVars
    BY <1>3 DEF LeavesRecords, Vesting!vestVars, Taken
  <1>4. QED
    BY <1>2, <1>3 DEF RecordsMove

\* Inline and buffered claims, in any grouping and under any updates, implement
\* the vesting ledger: a step takes new tranches at the holder's one rate.
THEOREM ImplementsVesting == Spec => VestingSpec
  <1>1. Init => Vesting!VestInit
    BY DEF Init, Vesting!VestInit, Taken
  <1>2. QED
    BY <1>1, TypeInit, TypeStep, StepShape, VestingStep, PTL
       DEF Spec, VestingSpec, Vesting!VestSpec

-----------------------------------------------------------------------------
(* Calendar months.                                                        *)

\* yyyymm integers whose last two digits are a month, read as a month count.
LEMMA MonthDigits ==
    ASSUME NEW ym \in Nat
    PROVE  /\ ym \div 100 \in Nat
           /\ ym % 100 \in 0..99
           /\ ym = 100 * (ym \div 100) + (ym % 100)
  OBVIOUS

\* Integers in yyyymm form compare as the months they stand for.
LEMMA MonthsCompare ==
    ASSUME NEW a \in Nat, NEW b \in Nat, a % 100 \in 1..12, b % 100 \in 1..12, a >= b
    PROVE  MonthIndex(a) >= MonthIndex(b)
  <1> DEFINE qa == a \div 100
             ra == a % 100
             qb == b \div 100
             rb == b % 100
  <1>1. /\ qa \in Nat /\ ra \in 1..12 /\ a = 100 * qa + ra
        /\ qb \in Nat /\ rb \in 1..12 /\ b = 100 * qb + rb
    BY MonthDigits
  <1>2. qa * 12 + ra >= qb * 12 + rb
    <2> HIDE DEF qa, ra, qb, rb
    <2>1. QED
      BY <1>1
  <1>3. QED
    BY <1>2 DEF MonthIndex

\* add_months adds calendar months, across any number of year ends.
LEMMA MonthsAdd ==
    ASSUME NEW ym \in Nat, NEW n \in Nat, ym % 100 \in 1..12
    PROVE  /\ AddMonths(ym, n) \in Nat
           /\ AddMonths(ym, n) % 100 \in 1..12
           /\ MonthIndex(AddMonths(ym, n)) = MonthIndex(ym) + n
  <1> DEFINE q == ym \div 100
             m == (ym % 100) - 1 + n
             y == m \div 12
             r == m % 12
             sum == (q + y) * 100 + r + 1
  <1>1. q \in Nat /\ m \in Nat
    BY MonthDigits
  <1>2. y \in Nat /\ r \in 0..11 /\ m = 12 * y + r
    <2> HIDE DEF m
    <2>1. QED
      BY <1>1
  <1>3. sum \in Nat /\ sum \div 100 = q + y /\ sum % 100 = r + 1
    <2> HIDE DEF q, y, r
    <2>1. QED
      BY <1>1, <1>2
  <1>4. AddMonths(ym, n) = sum
    <2> HIDE DEF sum
    <2>1. QED
      BY DEF AddMonths, YyyyMm, sum
  <1>5. MonthIndex(sum) = (q + y) * 12 + (r + 1)
    <2> HIDE DEF q, y, r, sum
    <2>1. QED
      BY <1>3 DEF MonthIndex
  <1>6. MonthIndex(ym) + n = q * 12 + m + 1
    <2>1. ym % 100 \in Nat
      BY MonthDigits
    <2>2. QED
      BY <2>1 DEF MonthIndex
  <1>7. (q + y) * 12 + (r + 1) = q * 12 + m + 1
    <2> HIDE DEF q, m, y, r
    <2>1. QED
      BY <1>1, <1>2
  <1>8. r + 1 \in 1..12
    <2> HIDE DEF r
    <2>1. QED
      BY <1>2
  <1>9. QED
    <2> HIDE DEF q, m, y, r, sum
    <2>1. QED
      BY <1>3, <1>4, <1>5, <1>6, <1>7, <1>8

\* The clock and the first month are yyyymm integers: the configuration may be
\* changed at any time, but not to something that is no month.
RealMonths ==
    /\ now % 100 \in 1..12
    /\ config # NoConfig => config.genesis % 100 \in 1..12

\* A claim does not touch the configuration.
LEMMA ClaimKeepsConfig ==
    ASSUME ClaimInline \/ ClaimBuffered
    PROVE  config # NoConfig /\ UNCHANGED <<now, config>>
  <1>1. PICK h, total, req, payer, proof : SettleClaim(h, total, req, payer, proof)
    <2>1. CASE ClaimInline
      BY <2>1 DEF ClaimInline, ClaimMegadrop
    <2>2. CASE ClaimBuffered
      BY <2>2 DEF ClaimBuffered, ClaimMegadropFromBuffer
    <2>3. QED
      BY <2>1, <2>2
  <1>2. QED
    BY <1>1 DEF SettleClaim, CanClaim

\* Time goes on.
LEMMA RealMonthsStep ==
    ASSUME TypeOK, RealMonths, [Next]_vars
    PROVE  RealMonths'
  <1>1. CASE NextMonth
    <2>1. now \in Nat /\ now % 100 \in 1..12 /\ config' = config
      BY <1>1 DEF NextMonth, TypeOK, RealMonths
    <2>2. CASE now % 100 = 12
      <3>1. now' = now + 89
        BY <1>1, <2>2 DEF NextMonth
      <3>2. (now + 89) % 100 = 1
        BY <2>1, <2>2
      <3>3. QED
        BY <2>1, <3>1, <3>2 DEF RealMonths
    <2>3. CASE now % 100 # 12
      <3>1. now' = now + 1
        BY <1>1, <2>3 DEF NextMonth
      <3>2. (now + 1) % 100 \in 1..12
        BY <2>1, <2>3
      <3>3. QED
        BY <2>1, <3>1, <3>2 DEF RealMonths
    <2>4. QED
      BY <2>2, <2>3
  <1>2. CASE Configure
    <2>1. PICK r \in Roots, month \in GenesisMonths, t \in Treasuries :
            InitMegadrop(r, month, t) \/ UpdateMegadrop(r, month, t)
      BY <1>2 DEF Configure
    <2>2. /\ config' = [root |-> r, genesis |-> month, treasury |-> t]
          /\ now' = now /\ PlausibleMonth(month)
      BY <2>1 DEF InitMegadrop, UpdateMegadrop
    <2>3. QED
      BY <2>2 DEF PlausibleMonth, RealMonths
  <1>3. CASE UNCHANGED <<now, config>>
    BY <1>3 DEF RealMonths
  <1>4. QED
    BY <1>1, <1>2, <1>3, ClaimKeepsConfig
       DEF Next, vars, Sign, SignClaimMessage, StageBuffer, InitProofBuffer, WriteProofBuffer

\* A tranche is recorded in its month or later.
LEMMA MonthStep ==
    ASSUME TypeOK, RealMonths, RecordsMove, NEW h \in Holders,
           NEW i \in Taken(h)' \ Taken(h)
    PROVE  MonthIndex(now) - MonthIndex(config.genesis) >= i - 1
  <1>1. PICK total, ts : Pays(h, total, ts) /\ i \in ts
    <2>1. ~ LeavesRecords
      BY DEF LeavesRecords, Taken
    <2>2. PICK g \in Holders : \E total, ts : Pays(g, total, ts)
      BY <2>1 DEF RecordsMove
    <2>3. PICK total, ts : Pays(g, total, ts)
      BY <2>2
    <2>4. g = h
      BY <2>3 DEF Pays, Taken, TypeOK
    <2>5. i \in ts
      BY <2>3, <2>4 DEF Pays, Taken, TypeOK
    <2>6. QED
      BY <2>3, <2>4, <2>5
  <1>2. i \in Nat /\ i >= 1 /\ now >= AddMonths(config.genesis, i - 1) /\ config # NoConfig
    BY <1>1 DEF Pays, Unlocked, Tranches
  <1>3. config.genesis \in Nat /\ config.genesis % 100 \in 1..12
    BY <1>2, MonthAssumption DEF TypeOK, Configs, RealMonths
  <1> DEFINE due == AddMonths(config.genesis, i - 1)
  <1>4. /\ due \in Nat /\ due % 100 \in 1..12
        /\ MonthIndex(due) = MonthIndex(config.genesis) + (i - 1)
    <2>1. i - 1 \in Nat
      BY <1>2
    <2>2. QED
      BY <1>3, <2>1, MonthsAdd
  <1>5. MonthIndex(now) >= MonthIndex(due)
    BY <1>2, <1>4, MonthsCompare DEF TypeOK, RealMonths
  <1>6. \A ym \in Nat : MonthIndex(ym) \in Int
    BY MonthDigits DEF MonthIndex
  <1>7. QED
    <2>1. MonthIndex(now) \in Int /\ MonthIndex(config.genesis) \in Int
      BY <1>3, <1>6 DEF TypeOK
    <2> HIDE DEF due
    <2>2. QED
      BY <1>2, <1>4, <1>5, <2>1

\* The model starts in a month of the calendar.
LEMMA RealMonthsInit == Init => RealMonths
  BY MonthAssumption DEF Init, RealMonths

\* Whatever month the admin installs, a tranche is recorded no earlier than the
\* calendar says, also when the schedule runs over the turn of a year.
THEOREM NothingBeforeItsMonth == Spec => NothingEarly
  <1>1. TypeOK /\ RealMonths /\ [Next]_vars =>
          [\A h \in Holders : \A i \in Taken(h)' \ Taken(h) :
             MonthIndex(now) - MonthIndex(config.genesis) >= i - 1]_vars
    BY StepShape, MonthStep
  <1>2. QED
    BY <1>1, TypeInit, TypeStep, RealMonthsInit, RealMonthsStep, PTL DEF Spec, NothingEarly

-----------------------------------------------------------------------------
(* The page: chunks of a proof in a buffer.                                *)

\* The buffer b holds the first k chunks of the proof pf.
Filled(b, pf, k) ==
    /\ b.total_len = Len(pf)
    /\ Reach(Len(pf), ChunkLen, k) <= b.bytes_written
    /\ \A j \in Nat \ {0} : j <= Reach(Len(pf), ChunkLen, k) => b.data[j] = pf[j]

WithChunk(b, pf, i) == WriteInto(b, (i - 1) * ChunkLen, ChunkAt(pf, ChunkLen, i))

\* Writing a chunk again keeps what is filled, and chunk i on top of those before
\* it fills i of them.
LEMMA WriteFills ==
    ASSUME NEW pf \in Seq(Siblings), NEW b \in Buffers,
           NEW i \in 1..ChunksOf(Len(pf), ChunkLen), b.total_len = Len(pf)
    PROVE  LET w == WithChunk(b, pf, i)
           IN  /\ w \in Buffers
               /\ w.total_len = Len(pf)
               /\ (i - 1) * ChunkLen + Len(ChunkAt(pf, ChunkLen, i)) <= b.total_len
               /\ Filled(b, pf, i - 1) => Filled(w, pf, i)
               /\ \A k \in Nat : Filled(b, pf, k) => Filled(w, pf, k)
  <1> DEFINE n == Len(pf)
             off == (i - 1) * ChunkLen
             bytes == ChunkAt(pf, ChunkLen, i)
             end == Reach(n, ChunkLen, i)
             w == WriteInto(b, off, bytes)
  <1>1. n \in Nat /\ ChunkLen \in Nat \ {0}
    BY PageAssumption
  <1>2. /\ off \in Nat /\ bytes \in Seq(Siblings) /\ off + Len(bytes) = end
        /\ Reach(n, ChunkLen, i - 1) = off /\ end \in Nat /\ end <= n /\ off <= end
        /\ \A j \in Nat : off < j /\ j <= end => bytes[j - off] = pf[j]
    <2> HIDE DEF n, off, bytes, end, w
    <2> DEFINE c == ChunkLen
    <2>1. c \in Nat \ {0} /\ i \in 1..ChunksOf(Len(pf), c)
      BY PageAssumption
    <2> HIDE DEF c
    <2>2. LET from == Reach(Len(pf), c, i - 1)
              to == Reach(Len(pf), c, i)
          IN  /\ (i - 1) * c \in Nat /\ from = (i - 1) * c
              /\ ChunkAt(pf, c, i) \in Seq(Siblings)
              /\ from + Len(ChunkAt(pf, c, i)) = to
              /\ to \in Nat /\ to <= Len(pf) /\ from <= to
              /\ \A j \in Nat : from < j /\ j <= to => ChunkAt(pf, c, i)[j - from] = pf[j]
      BY <2>1, ChunkHolds, ZenonT(60)
    <2>3. QED
      BY <2>2 DEF n, off, bytes, end, c
  <1>3. b.bytes_written \in Nat
    <2>1. PICK m \in BufferLens :
            b \in [total_len : {m}, bytes_written : 0..m,
                   data : [1..m -> Siblings \cup {Blank}]]
      BY DEF Buffers
    <2>2. QED
      BY <2>1, LengthAssumption
  <1>4. WithChunk(b, pf, i) = w
    BY DEF WithChunk
  <1> HIDE DEF off, bytes, end, n
  <1>5. w \in Buffers /\ w.total_len = n
    BY <1>2, WriteKeepsBuffer DEF n
  <1>6. /\ w.bytes_written \in Nat
        /\ b.bytes_written <= w.bytes_written /\ end <= w.bytes_written
    BY <1>2, <1>3 DEF WriteInto
  <1>7. \A j \in Nat \ {0} : j <= n =>
            w.data[j] = IF off < j /\ j <= end THEN pf[j] ELSE b.data[j]
    <2>1. SUFFICES ASSUME NEW j \in Nat \ {0}, j <= n
                   PROVE  w.data[j] = IF off < j /\ j <= end THEN pf[j] ELSE b.data[j]
      OBVIOUS
    <2>2. j \in 1..b.total_len
      BY <1>1, <2>1 DEF n
    <2>3. w.data[j] = IF off < j /\ j <= off + Len(bytes) THEN bytes[j - off] ELSE b.data[j]
      BY <2>2 DEF WriteInto
    <2>4. QED
      BY <1>2, <2>1, <2>3
  <1> HIDE DEF w
  <1>8. ASSUME Filled(b, pf, i - 1) PROVE Filled(w, pf, i)
    <2>1. ASSUME NEW j \in Nat \ {0}, j <= end
          PROVE  w.data[j] = pf[j]
      <3>1. j <= off => b.data[j] = pf[j]
        BY <1>2, <1>8 DEF Filled, n
      <3>2. j <= n /\ (j <= off \/ off < j)
        BY <1>1, <1>2, <2>1
      <3>3. QED
        BY <1>7, <2>1, <3>1, <3>2
    <2>2. QED
      BY <1>5, <1>6, <2>1 DEF Filled, end, n
  <1>9. ASSUME NEW k \in Nat, Filled(b, pf, k) PROVE Filled(w, pf, k)
    <2>1. Reach(n, ChunkLen, k) \in Nat /\ Reach(n, ChunkLen, k) <= n
      BY <1>1 DEF Reach, n
    <2>2. ASSUME NEW j \in Nat \ {0}, j <= Reach(n, ChunkLen, k)
          PROVE  w.data[j] = pf[j]
      <3>1. b.data[j] = pf[j]
        BY <1>9, <2>2 DEF Filled, n
      <3>2. j <= n
        BY <1>1, <2>1, <2>2
      <3>3. QED
        BY <1>7, <3>1, <3>2
    <2>3. QED
      BY <1>3, <1>5, <1>6, <1>9, <2>1, <2>2 DEF Filled, n
  <1>10. QED
    BY <1>2, <1>4, <1>5, <1>8, <1>9 DEF n, off, bytes

\* The first transaction leaves the first chunk in a fresh buffer.
LEMMA FirstFills ==
    ASSUME NEW pf \in Seq(Siblings), Len(pf) \in BufferLens \ {0}
    PROVE  /\ WithChunk(NewBuffer(Len(pf)), pf, 1) \in Buffers
           /\ Filled(WithChunk(NewBuffer(Len(pf)), pf, 1), pf, 1)
           /\ 1 \in 1..ChunksOf(Len(pf), ChunkLen)
  <1>1. Len(pf) \in Nat \ {0} /\ ChunkLen \in Nat \ {0}
    BY PageAssumption
  <1>2. 1 \in 1..ChunksOf(Len(pf), ChunkLen)
    BY <1>1, ChunksCover
  <1>3. NewBuffer(Len(pf)) \in Buffers /\ NewBuffer(Len(pf)).total_len = Len(pf)
    BY NewBufferIsBuffer DEF NewBuffer
  <1>4. Filled(NewBuffer(Len(pf)), pf, 0)
    BY <1>1 DEF NewBuffer, Filled, Reach
  <1>5. QED
    BY <1>2, <1>3, <1>4, WriteFills

\* A buffer filled with every chunk is ready, and what it has staged is the proof.
LEMMA FilledIsReady ==
    ASSUME NEW pf \in Seq(Siblings), NEW b, Filled(b, pf, ChunksOf(Len(pf), ChunkLen))
    PROVE  BufferReady(b, Len(pf)) /\ StagedProof(b, Len(pf)) = pf
  <1>1. Reach(Len(pf), ChunkLen, ChunksOf(Len(pf), ChunkLen)) = Len(pf) /\ Len(pf) \in Nat
    <2> DEFINE n == Len(pf)
               c == ChunkLen
    <2>1. n \in Nat /\ c \in Nat \ {0}
      BY PageAssumption
    <2> HIDE DEF n, c
    <2>2. /\ ChunksOf(n, c) \in Nat
          /\ \A k \in Nat : ChunksOf(n, c) <= k => Reach(n, c, k) = n
      BY <2>1, ChunksCover
    <2>3. Reach(n, c, ChunksOf(n, c)) = n
      BY <2>2
    <2>4. QED
      BY <2>1, <2>3 DEF n, c
  <1>2. BufferReady(b, Len(pf))
    BY <1>1 DEF Filled, BufferReady
  <1>3. pf = [j \in 1..Len(pf) |-> pf[j]]
    OBVIOUS
  <1>4. \A j \in 1..Len(pf) : b.data[j] = pf[j]
    BY <1>1 DEF Filled
  <1>5. QED
    BY <1>2, <1>3, <1>4 DEF StagedProof

-----------------------------------------------------------------------------
(* The page: the list that it makes of its selection.                      *)

\* How many of the tranches in ts come no later than i.
Rank(ts, i) == Cardinality({j \in ts : j <= i})

\* Every place in the list is the rank of exactly one tranche.
LEMMA RanksAreOneToOne ==
    ASSUME NEW ts \in SUBSET Tranches
    PROVE  /\ \A i \in ts : Rank(ts, i) \in 1..Cardinality(ts)
           /\ \A i, j \in ts : Rank(ts, i) = Rank(ts, j) => i = j
           /\ \A k \in 1..Cardinality(ts) : \E i \in ts : Rank(ts, i) = k
  <1> DEFINE upto(i) == {j \in ts : j <= i}
             n == Cardinality(ts)
  <1>1. IsFiniteSet(ts) /\ n \in Nat /\ ts \subseteq Nat
    BY TranchesFinite DEF Tranches
  <1>2. ASSUME NEW i \in ts
        PROVE  /\ IsFiniteSet(upto(i)) /\ Rank(ts, i) \in 1..n
    <2>1. upto(i) \in SUBSET ts /\ i \in upto(i)
      BY <1>1
    <2>2. IsFiniteSet(upto(i)) /\ Cardinality(upto(i)) <= n
      BY <1>1, <2>1, FS_Subset
    <2>3. Cardinality(upto(i)) \in Nat /\ Cardinality(upto(i)) # 0
      BY <2>1, <2>2, FS_CardinalityType, FS_EmptySet
    <2>4. QED
      BY <1>1, <2>2, <2>3 DEF Rank
  <1>3. ASSUME NEW i \in ts, NEW j \in ts, i < j, Rank(ts, i) = Rank(ts, j)
        PROVE  FALSE
    <2>1. i \in Nat /\ j \in Nat /\ \A k \in ts : k \in Nat
      BY <1>1
    <2>2. \A k \in ts : k <= i => k <= j
      BY <1>3, <2>1
    <2>3. j <= j /\ ~ (j <= i)
      BY <1>3, <2>1
    <2>4. upto(i) \in SUBSET upto(j) /\ j \in upto(j) /\ j \notin upto(i)
      BY <2>2, <2>3
    <2>5. Cardinality(upto(j)) = Cardinality(upto(i)) => upto(j) = upto(i)
      <3>1. IsFiniteSet(upto(j))
        BY <1>2
      <3> HIDE DEF upto
      <3>2. QED
        BY <2>4, <3>1, FS_Subset
    <2>6. QED
      BY <1>3, <2>4, <2>5 DEF Rank
  <1>4. \A i, j \in ts : Rank(ts, i) = Rank(ts, j) => i = j
    BY <1>1, <1>3
  <1>5. \A k \in 1..n : \E i \in ts : Rank(ts, i) = k
    <2> DEFINE ranks == [i \in ts |-> Rank(ts, i)]
    <2>1. ranks \in Injection(ts, 1..n)
      BY <1>2, <1>4 DEF Injection, IsInjective
    <2>2. IsFiniteSet(1..n) /\ Cardinality(1..n) = n
      BY <1>1, FS_Interval
    <2>3. ranks \in Surjection(ts, 1..n)
      <3> HIDE DEF ranks
      <3>1. QED
        BY <2>1, <2>2, FS_Injection
    <2>4. QED
      BY <2>3 DEF Surjection
  <1>6. QED
    BY <1>2, <1>4, <1>5

\* The list that the page sends passes validate_and_pack_tranches, and it asks
\* for what was selected.
LEMMA TrancheListIsValid ==
    ASSUME NEW o, o.ts \in SUBSET Tranches, o.ts # {}
    PROVE  /\ TrancheList(o) \in Seq(Nat)
           /\ ValidRequest(TrancheList(o))
           /\ Requested(TrancheList(o)) = o.ts
  <1> DEFINE ts == o.ts
             n == Cardinality(ts)
             list == TrancheList(o)
  <1>1. IsFiniteSet(ts) /\ n \in Nat /\ n # 0 /\ ts \subseteq Nat
    BY TranchesFinite, FS_EmptySet DEF Tranches
  <1>2. list = [k \in 1..n |-> CHOOSE i \in ts : Rank(ts, i) = k]
    BY DEF TrancheList, Rank
  <1> HIDE DEF n, ts, list
  <1>3. /\ \A i \in ts : Rank(ts, i) \in 1..n
        /\ \A i, j \in ts : Rank(ts, i) = Rank(ts, j) => i = j
        /\ \A k \in 1..n : \E i \in ts : Rank(ts, i) = k
    BY RanksAreOneToOne DEF n, ts
  <1>4. \A k \in 1..n : list[k] \in ts /\ Rank(ts, list[k]) = k
    BY <1>2, <1>3
  <1>5. list \in Seq(Nat) /\ Len(list) = n /\ DOMAIN list = 1..n
    <2>1. DOMAIN list = 1..n /\ \A k \in 1..n : list[k] \in Nat
      BY <1>1, <1>2, <1>4
    <2>2. list = [k \in 1..n |-> list[k]]
      BY <1>2, <2>1
    <2>3. QED
      BY <1>1, <2>1, <2>2
  <1>6. \A i \in ts : list[Rank(ts, i)] = i
    BY <1>3, <1>4
  <1>7. Requested(list) = ts
    BY <1>3, <1>4, <1>5, <1>6 DEF Requested
  <1>8. ValidRequest(list)
    <2>1. list # <<>>
      BY <1>1, <1>5
    <2>2. IsInjective(list)
      BY <1>4, <1>5 DEF IsInjective
    <2>3. \A k \in 1..n : list[k] \in Tranches
      BY <1>4 DEF ts
    <2>4. QED
      BY <1>5, <2>1, <2>2, <2>3 DEF ValidRequest
  <1>9. QED
    BY <1>5, <1>7, <1>8 DEF list, ts

-----------------------------------------------------------------------------
(* The page: what its claims rest on.  The tab shows what was true when it *)
(* was read; the record only grows; and a transaction that the page waited *)
(* for has left its chunk in the buffer, or somebody else had a hand in it.*)

ClaimedIn(rec) == IF rec = NoRecord THEN {} ELSE rec.claimed

\* The record old may have become rec: it is the same, or has more tranches.
Past(old, rec) ==
    \/ old = rec
    \/ ClaimedIn(old) \subseteq ClaimedIn(rec) /\ ClaimedIn(old) # ClaimedIn(rec)

Own(h) == buffer[<<h, h>>]

\* A record that was read before.
WasRead(rec, h) == rec \in Records \cup {NoRecord} /\ Past(rec, record[h])

IsTab(p) ==
    p = [who |-> p.who, month |-> p.month, hit |-> p.hit, late |-> p.late, cfg |-> p.cfg,
         seen |-> p.seen, done |-> p.done, selected |-> p.selected, asking |-> p.asking,
         phase |-> p.phase, order |-> p.order, stage |-> p.stage]

\* What an answer about an allocation is.
Hit(hit) == \E r \in Roots : \E w \in DOMAIN Leaf[r] : hit = <<w, r>>

\* The tab: what was read, and what was picked from it.
TabOK ==
    /\ IsTab(page)
    /\ page.who \in Users \cup {Nobody}
    /\ page.who = Nobody => "done" \notin page.asking
    /\ page.month \in Nat
    /\ page.hit # <<>> => Hit(page.hit)
    /\ page.cfg \in Configs \cup {NoConfig}
    /\ "cfg" \in page.asking => page.cfg = NoConfig
    /\ page.seen # <<>> =>
          \E h \in Users : \E rec :
             page.seen = <<h, rec>> /\ WasRead(rec, h) /\ page.done = ClaimedIn(rec)
    /\ page.selected \subseteq Tranches
    /\ page.selected # {} =>
          /\ page.cfg # NoConfig
          /\ \A i \in page.selected : ShownUnlocked(page.cfg.genesis, page.month, i)

\* An order: the leaf of a list under the root of the config that was read, for
\* tranches that were unlocked in the page's month and not taken.
OrderGood(o) ==
    /\ o.holder \in Users
    /\ o.ts \subseteq Tranches /\ o.ts # {}
    /\ o.cfg \in Configs
    /\ o.month \in Nat /\ \A i \in o.ts : Unlocked(o.cfg.genesis, o.month, i)
    /\ o.of \in DOMAIN Leaf[o.cfg.root]
    /\ o.total = Leaf[o.cfg.root][o.of]
    /\ o.proof = Path[o.cfg.root][o.of]
    /\ o.known # <<>> =>
          \E rec : o.known = <<rec>> /\ WasRead(rec, o.holder) /\ o.ts \cap ClaimedIn(rec) = {}

SignedFor(o) == <<o.holder, o.total, o.ts>> \in signed

\* If the record is as it was read and nobody else had a hand in the buffer,
\* the buffer holds the first k chunks.
InPlace(o, k) ==
    o.known = <<record[o.holder]>> /\ origin[o.holder] \subseteq {o.proof} =>
        Own(o.holder) # NoBuffer /\ Filled(Own(o.holder), o.proof, k)

\* The claim under way.
OrderInHand ==
    LET o == page.order
    IN  /\ page.phase \in {"idle", "signing", "staging", "confirming", "submitting"}
        /\ page.phase # "idle" => OrderGood(o)
        /\ page.phase \in {"staging", "confirming", "submitting"} => SignedFor(o)
        /\ page.phase \in {"staging", "confirming"} =>
              /\ ~Inline(o) /\ page.stage \in 1..NumChunks(o)
              /\ page.stage > 1 => InPlace(o, page.stage - 1)
        /\ page.phase = "confirming" /\ Staged \notin net => InPlace(o, page.stage)
        /\ page.phase = "submitting" /\ ~Inline(o) => InPlace(o, NumChunks(o))

\* A transaction that was sent.
Sent(tx) ==
    /\ OrderGood(tx.order) /\ SignedFor(tx.order)
    /\ tx.stage \in Nat
    /\ tx.stage # 0 => ~Inline(tx.order) /\ tx.stage \in 1..NumChunks(tx.order)
    /\ tx.stage = 0 /\ ~Inline(tx.order) => InPlace(tx.order, NumChunks(tx.order))

\* A buffer that is open was begun by somebody, and what one proof alone was
\* written to holds at least its first chunk.
HandsOK ==
    /\ origin \in [Holders -> SUBSET (Seq(Siblings) \cup Foreign)]
    /\ \A h \in Users :
          Own(h) # NoBuffer =>
             /\ origin[h] # {}
             /\ \A pf \in origin[h] \ Foreign : origin[h] = {pf} => Filled(Own(h), pf, 1)

PageInv ==
    /\ TypeOK
    /\ TabOK
    /\ OrderInHand
    /\ \A tx \in net : Sent(tx)
    /\ HandsOK

\* What came before the past is past; and a record that changed since is not
\* what it was before.
LEMMA PastGoesOn ==
    ASSUME NEW a, NEW b, NEW c, Past(a, b), Past(b, c)
    PROVE  Past(a, c) /\ (b # c => a # c)
  BY DEF Past

\* What a step of the program may do, as far as the page's claims rest on it.
Advances ==
    /\ TypeOK'
    /\ now <= now' /\ signed \subseteq signed'
    /\ \A h \in Holders : Past(record[h], record'[h])
    /\ \A h \in Users : Own(h) # NoBuffer /\ Own(h)' = NoBuffer => record'[h] # record[h]

\* A transaction of the page makes new of the buffer b.
WriteOf(b, pf, new) ==
    \/ /\ b = NoBuffer
       /\ Len(pf) \in BufferLens \ {0}
       /\ new = WithChunk(NewBuffer(Len(pf)), pf, 1)
    \/ /\ b # NoBuffer
       /\ \E i \in 1..ChunksOf(Len(pf), ChunkLen) : new = WithChunk(b, pf, i)

\* The own buffers that a step changes are changed by those hands.
StagedBy(hands) ==
    \A h \in Users :
        Own(h)' # NoBuffer /\ Own(h)' # Own(h) =>
            \/ hands = Foreign
            \/ \E pf \in Seq(Siblings) : hands = {pf} /\ WriteOf(Own(h), pf, Own(h)')

\* A user's own buffer is one that the program knows of.
LEMMA OwnBuffer ==
    ASSUME NEW h \in Users
    PROVE  /\ h \in Holders /\ h \in Payers /\ <<h, h>> \in Keys
           /\ TypeOK => Own(h) \in Buffers \cup {NoBuffer}
  <1>1. h \in Holders /\ h \in Payers
    BY PageAssumption
  <1>2. <<h, h>> \in Keys
    BY <1>1 DEF Keys
  <1>3. QED
    BY <1>1, <1>2 DEF TypeOK, Own

\* A transaction of the page keeps the chunks of its proof that are there.
LEMMA WriteKeepsFilled ==
    ASSUME NEW pf \in Seq(Siblings), NEW b \in Buffers \cup {NoBuffer}, NEW new,
           WriteOf(b, pf, new)
    PROVE  /\ b = NoBuffer => Filled(new, pf, 1)
           /\ b # NoBuffer => \A k \in Nat : Filled(b, pf, k) => Filled(new, pf, k)
  <1>1. ASSUME b = NoBuffer PROVE Filled(new, pf, 1)
    BY <1>1, FirstFills DEF WriteOf
  <1>2. ASSUME b # NoBuffer, NEW k \in Nat, Filled(b, pf, k) PROVE Filled(new, pf, k)
    <2>1. PICK i \in 1..ChunksOf(Len(pf), ChunkLen) : new = WithChunk(b, pf, i)
      BY <1>2 DEF WriteOf
    <2>2. b \in Buffers /\ b.total_len = Len(pf)
      BY <1>2 DEF Filled
    <2>3. QED
      BY <1>2, <2>1, <2>2, WriteFills
  <1>3. QED
    BY <1>1, <1>2

\* A foreign hand is not a proof.
LEMMA ForeignIsNoProof ==
    ASSUME NEW pf \in Seq(Siblings)
    PROVE  pf \notin Foreign
  BY ForeignAssumption DEF Foreign

\* The history of a user's own buffer after a step.
LEMMA OriginOf ==
    ASSUME NEW hands, OriginAfter(hands), NEW h \in Users
    PROVE  /\ Own(h)' = Own(h) => origin'[h] = origin[h]
           /\ Own(h)' # Own(h) /\ Own(h)' = NoBuffer => origin'[h] = {}
           /\ Own(h)' # Own(h) /\ Own(h)' # NoBuffer => origin'[h] = origin[h] \cup hands
  <1>1. h \in Holders
    BY OwnBuffer
  <1>2. origin'[h] = LET old == buffer[<<h, h>>]
                         new == buffer'[<<h, h>>]
                     IN  IF new = NoBuffer THEN IF old = new THEN origin[h] ELSE {}
                         ELSE IF new = old THEN origin[h] ELSE origin[h] \cup hands
    BY <1>1 DEF OriginAfter
  <1>3. QED
    BY <1>2 DEF Own

\* The history of the buffers is kept by every step of the program.
LEMMA HandsStep ==
    ASSUME TypeOK, HandsOK, NEW hands, StagedBy(hands), OriginAfter(hands),
           hands = Foreign \/ \E pf \in Seq(Siblings) : hands = {pf}
    PROVE  HandsOK'
  <1>1. hands \subseteq Seq(Siblings) \cup Foreign /\ hands # {}
    BY DEF Foreign
  <1>2. origin' \in [Holders -> SUBSET (Seq(Siblings) \cup Foreign)]
    BY <1>1 DEF OriginAfter, HandsOK
  <1>3. ASSUME NEW h \in Users, Own(h)' # NoBuffer
        PROVE  /\ origin'[h] # {}
               /\ \A pf \in origin'[h] \ Foreign :
                     origin'[h] = {pf} => Filled(Own(h)', pf, 1)
    <2>1. CASE Own(h)' = Own(h)
      BY <1>3, <2>1, OriginOf DEF HandsOK
    <2>2. CASE Own(h)' # Own(h)
      <3>1. origin'[h] = origin[h] \cup hands
        BY <1>3, <2>2, OriginOf
      <3>2. ASSUME NEW pf \in origin'[h] \ Foreign, origin'[h] = {pf}
            PROVE  Filled(Own(h)', pf, 1)
        <4>1. hands = {pf} /\ origin[h] \subseteq {pf}
          BY <1>1, <3>1, <3>2
        <4>2. pf \in Seq(Siblings)
          BY <1>1, <3>2, <4>1
        <4>3. hands # Foreign
          BY <3>2, <4>1
        <4>4. WriteOf(Own(h), pf, Own(h)')
          BY <1>3, <2>2, <4>1, <4>3 DEF StagedBy
        <4>5. Own(h) # NoBuffer => Filled(Own(h), pf, 1)
          BY <3>2, <4>1 DEF HandsOK
        <4>6. Own(h) \in Buffers \cup {NoBuffer}
          BY OwnBuffer
        <4>7. QED
          BY <4>2, <4>4, <4>5, <4>6, WriteKeepsFilled
      <3>3. QED
        BY <1>1, <3>1, <3>2
    <2>3. QED
      BY <2>1, <2>2
  <1>4. QED
    BY <1>2, <1>3 DEF HandsOK

\* What is in place stays in place: a buffer that is closed, or a record that is
\* claimed from, is no longer as it was read.
LEMMA InPlaceStep ==
    ASSUME TypeOK, Advances, NEW hands, StagedBy(hands), OriginAfter(hands),
           NEW o, OrderGood(o), o.proof \in Seq(Siblings), NEW k \in Nat, InPlace(o, k)
    PROVE  InPlace(o, k)'
  <1> DEFINE h == o.holder
             pf == o.proof
  <1>1. h \in Users /\ h \in Holders
    BY OwnBuffer DEF OrderGood
  <1>2. SUFFICES ASSUME o.known = <<record'[h]>>, origin'[h] \subseteq {pf}
                 PROVE  Own(h)' # NoBuffer /\ Filled(Own(h)', pf, k)
    BY DEF InPlace
  <1>3. record'[h] = record[h]
    <2>1. PICK rec : o.known = <<rec>> /\ Past(rec, record[h])
      BY <1>2 DEF OrderGood, WasRead
    <2>2. rec = record'[h]
      BY <1>2, <2>1
    <2>3. Past(record[h], record'[h])
      BY <1>1 DEF Advances
    <2>4. QED
      BY <2>1, <2>2, <2>3, PastGoesOn
  <1>4. Own(h) # NoBuffer => Own(h)' # NoBuffer
    BY <1>1, <1>3 DEF Advances
  <1>5. CASE Own(h)' = Own(h)
    <2>1. origin'[h] = origin[h]
      BY <1>1, <1>5, OriginOf
    <2>2. QED
      BY <1>2, <1>3, <1>5, <2>1 DEF InPlace
  <1>6. CASE Own(h)' # Own(h)
    <2>1. Own(h)' # NoBuffer
      BY <1>4, <1>6
    <2>2. origin'[h] = origin[h] \cup hands
      BY <1>1, <1>6, <2>1, OriginOf
    <2>3. Own(h) # NoBuffer /\ Filled(Own(h), pf, k)
      BY <1>2, <1>3, <2>2 DEF InPlace
    <2>4. hands # Foreign
      BY <1>2, <2>2, ForeignIsNoProof DEF Foreign
    <2>5. WriteOf(Own(h), pf, Own(h)')
      <3> HIDE DEF h, pf
      <3>1. PICK q \in Seq(Siblings) : hands = {q} /\ WriteOf(Own(h), q, Own(h)')
        BY <1>1, <1>6, <2>1, <2>4 DEF StagedBy
      <3>2. q = pf
        BY <1>2, <2>2, <3>1
      <3>3. QED
        BY <3>1, <3>2
    <2>6. Own(h) \in Buffers \cup {NoBuffer}
      BY <1>1, OwnBuffer
    <2>7. QED
      BY <2>1, <2>3, <2>5, <2>6, WriteKeepsFilled
  <1>7. QED
    BY <1>5, <1>6

\* A tranche that is unlocked stays so.
LEMMA UnlockedLater ==
    ASSUME NEW genesis \in Nat, NEW i \in Tranches, NEW m \in Nat, NEW n \in Nat, m <= n,
           Unlocked(genesis, m, i)
    PROVE  Unlocked(genesis, n, i)
  <1> DEFINE due == AddMonths(genesis, i - 1)
  <1>1. i \in Nat
    BY DEF Tranches
  <1>2. due \in Int
    BY <1>1 DEF AddMonths, YyyyMm
  <1>3. m >= due
    BY DEF Unlocked
  <1> HIDE DEF due
  <1>4. n >= due
    BY <1>2, <1>3
  <1>5. QED
    BY <1>4 DEF Unlocked, due

\* The page's calendar is that of the program.
LEMMA ShownIsUnlocked ==
    ASSUME NEW genesis \in Nat, NEW m, NEW i \in Tranches, ShownUnlocked(genesis, m, i)
    PROVE  Unlocked(genesis, m, i)
  <1> DEFINE months == (genesis % 100) - 1 + (i - 1)
  <1>1. i \in Nat
    BY DEF Tranches
  <1>2. (genesis \div 100) + months \div 12 \in Int /\ months % 12 \in Int
    BY <1>1
  <1>3. PageAddMonths(genesis, i - 1) = AddMonths(genesis, i - 1)
    <2>1. /\ PageAddMonths(genesis, i - 1)
               = ((genesis \div 100) + months \div 12) * 100 + (months % 12) + 1
          /\ AddMonths(genesis, i - 1)
               = ((genesis \div 100) + months \div 12) * 100 + ((months % 12) + 1)
      BY DEF PageAddMonths, AddMonths, YyyyMm
    <2> DEFINE year == (genesis \div 100) + months \div 12
               month == months % 12
    <2>2. year \in Int /\ month \in Int
      BY <1>2
    <2> HIDE DEF months
    <2>3. QED
      BY <2>1, <2>2
  <1>4. QED
    BY <1>3 DEF ShownUnlocked, UnlockMonth, Unlocked

\* A config names a root of the list and a month.
LEMMA ConfigTypes ==
    ASSUME NEW cfg \in Configs
    PROVE  cfg.root \in Roots /\ cfg.genesis \in Nat
  BY MonthAssumption DEF Configs

\* What an order carries.
LEMMA OrderTypes ==
    ASSUME NEW o, OrderGood(o)
    PROVE  /\ o.holder \in Holders /\ o.holder \in Payers
           /\ o.total \in Totals
           /\ o.proof \in Seq(Siblings) /\ Len(o.proof) \in Nat
           /\ ~Inline(o) => Len(o.proof) \in BufferLens \ {0}
           /\ NumChunks(o) = ChunksOf(Len(o.proof), ChunkLen) /\ NumChunks(o) \in Nat
           /\ ~Inline(o) => NumChunks(o) # 0
  <1> DEFINE r == o.cfg.root
             n == Len(o.proof)
  <1>1. r \in Roots /\ o.of \in DOMAIN Leaf[r]
        /\ o.total = Leaf[r][o.of] /\ o.proof = Path[r][o.of]
    BY ConfigTypes DEF OrderGood
  <1>2. /\ Leaf[r] \in [DOMAIN Leaf[r] -> Totals]
        /\ Path[r] \in [DOMAIN Leaf[r] -> Seq(Siblings)]
        /\ Len(Path[r][o.of]) <= InlineMax \/ Len(Path[r][o.of]) \in BufferLens
    BY <1>1, ListAssumption
  <1> HIDE DEF r
  <1>3. o.total \in Totals /\ o.proof \in Seq(Siblings) /\ n \in Nat
    BY <1>1, <1>2
  <1>4. ~Inline(o) => n \in BufferLens \ {0}
    BY <1>1, <1>2, <1>3, PageAssumption DEF Inline
  <1>5. NumChunks(o) = ChunksOf(n, ChunkLen)
    BY DEF NumChunks, ChunksOf
  <1>6. ChunksOf(n, ChunkLen) \in Nat /\ (n # 0 => ChunksOf(n, ChunkLen) # 0)
    <2> DEFINE c == ChunkLen
    <2>1. n \in Nat /\ c \in Nat \ {0}
      BY <1>3, PageAssumption
    <2> HIDE DEF n, c
    <2>2. ChunksOf(n, c) \in Nat /\ (n # 0 => ChunksOf(n, c) # 0)
      BY <2>1, ChunksCover
    <2>3. QED
      BY <2>2 DEF c
  <1>7. o.holder \in Holders /\ o.holder \in Payers
    BY OwnBuffer DEF OrderGood
  <1>8. QED
    BY <1>3, <1>4, <1>5, <1>6, <1>7

\* An order stays what it is.
LEMMA OrderStep ==
    ASSUME TypeOK, Advances, NEW o, OrderGood(o)
    PROVE  OrderGood(o)'
  <1>1. ASSUME o.known # <<>>
        PROVE  \E rec : /\ o.known = <<rec>> /\ rec \in Records \cup {NoRecord}
                        /\ Past(rec, record'[o.holder]) /\ o.ts \cap ClaimedIn(rec) = {}
    <2>1. PICK rec : /\ o.known = <<rec>> /\ rec \in Records \cup {NoRecord}
                     /\ Past(rec, record[o.holder]) /\ o.ts \cap ClaimedIn(rec) = {}
      BY <1>1 DEF OrderGood, WasRead
    <2>2. Past(record[o.holder], record'[o.holder])
      BY OrderTypes DEF Advances
    <2>3. QED
      BY <2>1, <2>2, PastGoesOn
  <1>2. QED
    BY <1>1 DEF OrderGood, WasRead

\* The step does not touch what the tab shows.
SameReading ==
    /\ IsTab(page)'
    /\ page'.who = page.who /\ page'.month = page.month /\ page'.hit = page.hit
    /\ page'.cfg = page.cfg /\ page'.seen = page.seen /\ page'.done = page.done
    /\ page'.selected = page.selected /\ page'.asking = page.asking

\* So does the tab.
LEMMA TabStep ==
    ASSUME TypeOK, Advances, TabOK, SameReading
    PROVE  TabOK'
  <1>1. ASSUME page.seen # <<>>
        PROVE  \E h \in Users : \E rec :
                  /\ page.seen = <<h, rec>> /\ page.done = ClaimedIn(rec)
                  /\ rec \in Records \cup {NoRecord} /\ Past(rec, record'[h])
    <2> PICK h \in Users : \E rec :
             /\ page.seen = <<h, rec>> /\ page.done = ClaimedIn(rec)
             /\ rec \in Records \cup {NoRecord} /\ Past(rec, record[h])
      BY <1>1 DEF TabOK, WasRead
    <2>1. PICK rec :
             /\ page.seen = <<h, rec>> /\ page.done = ClaimedIn(rec)
             /\ rec \in Records \cup {NoRecord} /\ Past(rec, record[h])
      OBVIOUS
    <2>2. Past(record[h], record'[h])
      BY OwnBuffer DEF Advances
    <2>3. QED
      BY <2>1, <2>2, PastGoesOn
  <1>2. QED
    BY <1>1 DEF TabOK, WasRead, SameReading

\* A claim adds tranches to one record and leaves the others.
LEMMA PaysGrows ==
    ASSUME TypeOK, NEW h \in Holders, NEW total, NEW ts, Pays(h, total, ts)
    PROVE  /\ \A g \in Holders : Past(record[g], record'[g])
           /\ record'[h] # record[h]
           /\ UNCHANGED signed
  <1>1. total \in Nat /\ ts \in SUBSET Tranches /\ ts # {} /\ ts \cap Taken(h) = {}
    BY DEF Pays
  <1>2. Taken(h) \in SUBSET Tranches /\ Lamports(h) \in Nat /\ Taken(h) = ClaimedIn(record[h])
    BY DEF TypeOK, Lamports, Taken, Records, ClaimedIn
  <1> DEFINE new == [total    |-> total,
                     claimed  |-> Taken(h) \cup ts,
                     lamports |-> Lamports(h) + ClaimAmount(total, ts)]
  <1>3. record' = [record EXCEPT ![h] = new]
    BY DEF Pays
  <1>4. new \in Records /\ new.claimed = Taken(h) \cup ts
    <2>1. ClaimAmount(total, ts) \in Nat
      BY <1>1, AmountNat
    <2>2. QED
      BY <1>1, <1>2, <2>1 DEF Records
  <1>5. new # NoRecord
    BY <1>4, AbsenceAssumption
  <1> HIDE DEF new
  <1>6. ClaimedIn(new) = Taken(h) \cup ts
    BY <1>4, <1>5 DEF ClaimedIn
  <1>7. record'[h] = new /\ \A g \in Holders \ {h} : record'[g] = record[g]
    BY <1>3 DEF TypeOK
  <1>8. Past(record[h], record'[h])
    BY <1>1, <1>2, <1>6, <1>7 DEF Past
  <1>9. record'[h] # record[h]
    BY <1>1, <1>2, <1>6, <1>7
  <1>10. \A g \in Holders : Past(record[g], record'[g])
    BY <1>7, <1>8 DEF Past
  <1>11. QED
    BY <1>9, <1>10 DEF Pays

\* A claim only closes the buffer that it claims from.
LEMMA ClaimAdvances ==
    ASSUME TypeOK, NEW h \in Holders, NEW total \in Totals, NEW req \in Seq(Nat),
           NEW payer \in Payers,
           \/ \E proof : ClaimMegadrop(h, total, req, payer, proof)
           \/ \E n \in BufferLens : ClaimMegadropFromBuffer(h, total, req, payer, n)
    PROVE  Advances /\ \A g \in Users : Own(g)' # NoBuffer => Own(g)' = Own(g)
  <1>1. TypeOK'
    BY ClaimTypes
  <1>2. PICK proof : SettleClaim(h, total, req, payer, proof)
    BY DEF ClaimMegadrop, ClaimMegadropFromBuffer
  <1>3. Pays(h, total, Requested(req))
    BY <1>2, SettlePays
  <1>4. /\ \A g \in Holders : Past(record[g], record'[g])
        /\ record'[h] # record[h] /\ signed' = signed
    BY <1>3, PaysGrows
  <1>5. now' = now
    BY <1>2 DEF SettleClaim
  <1>6. buffer' = buffer \/ buffer' = [buffer EXCEPT ![<<h, payer>>] = NoBuffer]
    BY DEF ClaimMegadrop, ClaimMegadropFromBuffer
  <1>7. \A g \in Users : Own(g)' = Own(g) \/ (g = h /\ Own(g)' = NoBuffer)
    <2>1. SUFFICES ASSUME NEW g \in Users
                   PROVE  Own(g)' = Own(g) \/ (g = h /\ Own(g)' = NoBuffer)
      OBVIOUS
    <2>2. <<g, g>> \in Keys
      BY OwnBuffer
    <2>3. QED
      BY <1>6, <2>2 DEF Own, TypeOK
  <1>8. QED
    BY <1>1, <1>4, <1>5, <1>7 DEF Advances, TypeOK

\* Nor does staging close a buffer.
LEMMA StageAdvances ==
    ASSUME TypeOK, TypeOK', UNCHANGED <<now, record, signed>>, NEW k \in Keys, NEW b \in Buffers,
           buffer' = [buffer EXCEPT ![k] = b]
    PROVE  Advances
  <1>1. b # NoBuffer
    BY NoBufferAssumption
  <1>2. \A g \in Users : Own(g)' = NoBuffer => Own(g) = NoBuffer
    <2>1. SUFFICES ASSUME NEW g \in Users, Own(g)' = NoBuffer
                   PROVE  Own(g) = NoBuffer
      OBVIOUS
    <2>2. <<g, g>> \in Keys
      BY OwnBuffer
    <2>3. QED
      BY <1>1, <2>1, <2>2 DEF Own, TypeOK
  <1>3. QED
    BY <1>2 DEF Advances, Past, TypeOK

\* Every step of the program advances.
LEMMA NextAdvances ==
    ASSUME TypeOK, Next
    PROVE  Advances
  <1>1. TypeOK'
    BY TypeStep DEF vars
  <1>2. now \in Nat /\ now' \in Nat
    BY <1>1 DEF TypeOK
  <1>3. CASE NextMonth
    <2>1. now <= now'
      BY <1>2, <1>3 DEF NextMonth
    <2>2. QED
      BY <1>1, <1>3, <2>1 DEF NextMonth, Advances, Past, Own
  <1>4. CASE Sign
    BY <1>1, <1>2, <1>4 DEF Sign, SignClaimMessage, Advances, Past, Own
  <1>5. CASE Configure
    BY <1>1, <1>2, <1>5 DEF Configure, InitMegadrop, UpdateMegadrop, Advances, Past, Own
  <1>6. CASE ClaimInline
    <2>1. PICK h \in Holders, total \in Totals, req \in Requests, payer \in Payers :
            \E proof : ClaimMegadrop(h, total, req, payer, proof)
      BY <1>6 DEF ClaimInline
    <2>2. QED
      BY <2>1, ClaimAdvances, RequestAssumption
  <1>7. CASE ClaimBuffered
    <2>1. PICK h \in Holders, total \in Totals, req \in Requests, payer \in Payers,
               n \in BufferLens : ClaimMegadropFromBuffer(h, total, req, payer, n)
      BY <1>7 DEF ClaimBuffered
    <2>2. QED
      BY <2>1, ClaimAdvances, RequestAssumption
  <1>8. CASE StageBuffer
    <2>1. ASSUME NEW h \in Holders, NEW payer \in Payers, NEW n \in BufferLens,
                 InitProofBuffer(h, payer, n)
          PROVE  Advances
      <3>1. NewBuffer(n) \in Buffers /\ <<h, payer>> \in Keys
        BY NewBufferIsBuffer DEF Keys
      <3>2. QED
        BY <1>1, <2>1, <3>1, StageAdvances DEF InitProofBuffer
    <2>2. ASSUME NEW h \in Holders, NEW payer \in Payers, NEW off \in BufferLens \cup {0},
                 NEW bytes \in WriteChunks, WriteProofBuffer(h, payer, off, bytes)
          PROVE  Advances
      <3> DEFINE b == buffer[<<h, payer>>]
      <3>1. b \in Buffers /\ <<h, payer>> \in Keys
        BY <2>2, OpenBufferIsBuffer DEF WriteProofBuffer, Keys
      <3>2. off \in Nat /\ off + Len(bytes) <= b.total_len
        BY <2>2, LengthAssumption DEF WriteProofBuffer
      <3>3. WriteInto(b, off, bytes) \in Buffers
        BY <3>1, <3>2, WriteKeepsBuffer, ChunkAssumption
      <3>4. buffer' = [buffer EXCEPT ![<<h, payer>>] = WriteInto(b, off, bytes)]
        BY <2>2 DEF WriteProofBuffer
      <3> HIDE DEF b
      <3>5. QED
        BY <1>1, <2>2, <3>1, <3>3, <3>4, StageAdvances DEF WriteProofBuffer
    <2>3. QED
      BY <1>8, <2>1, <2>2 DEF StageBuffer
  <1>9. QED
    BY <1>3, <1>4, <1>5, <1>6, <1>7, <1>8 DEF Next

\* A staging transaction of the page that executes writes its chunk.
LEMMA StageExecutes ==
    ASSUME TypeOK, NEW tx, Sent(tx), Execute(tx), tx.stage # 0
    PROVE  LET h == tx.order.holder
               pf == tx.order.proof
           IN  /\ Advances /\ UNCHANGED record
               /\ WriteOf(Own(h), pf, Own(h)') /\ Own(h)' # NoBuffer
               /\ \A g \in Users \ {h} : Own(g)' = Own(g)
               /\ tx.stage > 1 => Own(h)' = WithChunk(Own(h), pf, tx.stage)
  <1> DEFINE o == tx.order
             h == o.holder
             pf == o.proof
             n == Len(pf)
             i == tx.stage
  <1>1. /\ h \in Users /\ h \in Holders /\ h \in Payers /\ h \in Wallets /\ <<h, h>> \in Keys
        /\ pf \in Seq(Siblings) /\ n \in BufferLens \ {0}
        /\ i \in 1..ChunksOf(n, ChunkLen) /\ i \in Nat
    <2>1. OrderGood(o) /\ ~Inline(o) /\ i \in 1..NumChunks(o) /\ i \in Nat
      BY DEF Sent
    <2>2. QED
      BY <2>1, OrderTypes, OwnBuffer, WalletAssumption DEF OrderGood
  <1>2. Chunk(o, i) = ChunkAt(pf, ChunkLen, i)
    BY DEF Chunk, ChunkAt
  <1>3. CASE i = 1
    <2>1. InitAndWrite(o)
      BY <1>3 DEF Execute
    <2> DEFINE b == WithChunk(NewBuffer(n), pf, 1)
    <2>2. b \in Buffers /\ b # NoBuffer
      BY <1>1, FirstFills, NoBufferAssumption
    <2>3. (1 - 1) * ChunkLen = 0
      BY PageAssumption
    <2>4. buffer[<<h, h>>] = NoBuffer /\ buffer' = [buffer EXCEPT ![<<h, h>>] = b]
      BY <1>2, <1>3, <2>1, <2>3 DEF InitAndWrite, WithChunk
    <2>5. UNCHANGED <<now, config, record, treasury, signed, paid>>
      BY <2>1 DEF InitAndWrite
    <2>6. wallet' \in [Wallets -> Nat]
      <3>1. /\ Rent[n] \in Nat /\ Rent[n] <= wallet[h]
            /\ wallet' = [wallet EXCEPT ![h] = @ - Rent[n]]
        BY <1>1, <2>1, RentAssumption DEF InitAndWrite
      <3>2. wallet[h] - Rent[n] \in Nat
        BY <1>1, <3>1 DEF TypeOK
      <3>3. QED
        BY <1>1, <3>1, <3>2 DEF TypeOK
    <2> HIDE DEF b
    <2>7. TypeOK'
      BY <2>2, <2>4, <2>5, <2>6 DEF TypeOK
    <2>8. Advances
      BY <1>1, <2>2, <2>4, <2>5, <2>7, StageAdvances
    <2>9. Own(h) = NoBuffer /\ Own(h)' = b /\ \A g \in Users \ {h} : Own(g)' = Own(g)
      BY <1>1, <2>4, OwnBuffer DEF Own, TypeOK
    <2>10. WriteOf(Own(h), pf, Own(h)')
      BY <1>1, <2>9 DEF WriteOf, b
    <2>11. QED
      BY <1>3, <2>2, <2>5, <2>8, <2>9, <2>10
  <1>4. CASE i > 1
    <2>1. WriteChunk(o, i)
      BY <1>1, <1>4 DEF Execute
    <2> DEFINE off == (i - 1) * ChunkLen
               bytes == Chunk(o, i)
               old == buffer[<<h, h>>]
               b == WithChunk(old, pf, i)
    <2>2. old # NoBuffer /\ off + Len(bytes) <= old.total_len
      BY <2>1 DEF WriteChunk, WriteProofBuffer
    <2>3. old \in Buffers
      BY <1>1, <2>2 DEF TypeOK
    <2>4. off \in Nat /\ bytes \in Seq(Siblings)
      <3> DEFINE c == ChunkLen
      <3>1. c \in Nat \ {0} /\ i \in 1..ChunksOf(Len(pf), c)
        BY <1>1, PageAssumption
      <3> HIDE DEF c, o, i
      <3>2. (i - 1) * c \in Nat /\ ChunkAt(pf, c, i) \in Seq(Siblings)
        BY <1>1, <3>1, ChunkHolds
      <3>3. QED
        BY <1>2, <3>2 DEF c
    <2>5. b = WriteInto(old, off, bytes)
      BY <1>2 DEF WithChunk
    <2>6. b \in Buffers /\ b # NoBuffer
      <3> HIDE DEF off, bytes, old, b
      <3>1. QED
        BY <2>2, <2>3, <2>4, <2>5, WriteKeepsBuffer, NoBufferAssumption
    <2>7. buffer' = [buffer EXCEPT ![<<h, h>>] = b]
      BY <2>1, <2>5 DEF WriteChunk, WriteProofBuffer
    <2>8. UNCHANGED <<now, config, record, treasury, wallet, signed, paid>>
      BY <2>1 DEF WriteChunk, WriteProofBuffer
    <2> HIDE DEF b, old
    <2>9. TypeOK'
      BY <2>6, <2>7, <2>8 DEF TypeOK
    <2>10. Advances
      BY <1>1, <2>6, <2>7, <2>8, <2>9, StageAdvances
    <2>11. Own(h) = old /\ Own(h)' = b /\ \A g \in Users \ {h} : Own(g)' = Own(g)
      BY <1>1, <2>7, OwnBuffer DEF Own, TypeOK, old
    <2>12. WriteOf(Own(h), pf, Own(h)')
      BY <1>1, <2>2, <2>11 DEF WriteOf, b
    <2>13. QED
      BY <2>6, <2>8, <2>10, <2>11, <2>12 DEF b
  <1>5. QED
    BY <1>1, <1>3, <1>4

\* Whatever transaction of the page executes, nobody else had a hand in it.
LEMMA ExecuteAdvances ==
    ASSUME TypeOK, NEW tx, Sent(tx), Execute(tx)
    PROVE  Advances /\ StagedBy({tx.order.proof})
  <1> DEFINE o == tx.order
             h == o.holder
             pf == o.proof
  <1>1. OrderGood(o) /\ o.ts \in SUBSET Tranches /\ o.ts # {} /\ h \in Users
    BY DEF Sent, OrderGood
  <1>2. /\ h \in Holders /\ h \in Payers /\ o.total \in Totals /\ pf \in Seq(Siblings)
        /\ ~Inline(o) => Len(pf) \in BufferLens
    BY <1>1, OrderTypes
  <1>3. CASE tx.stage # 0
    <2>1. /\ Advances /\ WriteOf(Own(h), pf, Own(h)')
          /\ \A g \in Users \ {h} : Own(g)' = Own(g)
      BY <1>3, StageExecutes
    <2>2. QED
      BY <1>2, <2>1 DEF StagedBy
  <1>4. CASE tx.stage = 0
    <2>1. TrancheList(o) \in Seq(Nat)
      BY <1>1, TrancheListIsValid
    <2>2. ClaimInOne(o) \/ (~Inline(o) /\ ClaimStaged(o))
      BY <1>4 DEF Execute
    <2>3. \/ \E proof : ClaimMegadrop(h, o.total, TrancheList(o), h, proof)
          \/ \E n \in BufferLens : ClaimMegadropFromBuffer(h, o.total, TrancheList(o), h, n)
      BY <1>2, <2>2 DEF ClaimInOne, ClaimStaged
    <2>4. Advances /\ \A g \in Users : Own(g)' # NoBuffer => Own(g)' = Own(g)
      <3> DEFINE list == TrancheList(o)
                 total == o.total
      <3>1. h \in Holders /\ h \in Payers /\ total \in Totals /\ list \in Seq(Nat)
        BY <1>2, <2>1
      <3> HIDE DEF list, h, total
      <3>2. QED
        BY <2>3, <3>1, ClaimAdvances DEF list, total
    <2>5. QED
      BY <2>4 DEF StagedBy
  <1>5. QED
    BY <1>3, <1>4

\* A step that leaves the program alone.
LEMMA StutterAdvances ==
    ASSUME TypeOK, UNCHANGED vars
    PROVE  Advances
  <1>1. TypeOK' /\ now \in Nat
    BY DEF TypeOK, vars
  <1>2. QED
    BY <1>1 DEF Advances, Past, Own, vars

\* A transaction that fails leaves what is in place, and somebody else has had a
\* hand in a buffer that could not be paid for.
LEMMA FailureStep ==
    ASSUME TypeOK, HandsOK, UNCHANGED vars, NEW h \in Users, NEW tooPoor \in BOOLEAN,
           tooPoor => Own(h) = NoBuffer,
           origin' = [origin EXCEPT ![h] = IF tooPoor THEN @ \cup Foreign ELSE @]
    PROVE  /\ HandsOK'
           /\ \A o, k : o.holder \in Users /\ InPlace(o, k) => InPlace(o, k)'
  <1>1. h \in Holders /\ \A g \in Users : g \in Holders /\ Own(g)' = Own(g)
    BY OwnBuffer DEF vars, Own
  <1>2. /\ origin'[h] = IF tooPoor THEN origin[h] \cup Foreign ELSE origin[h]
        /\ \A g \in Holders \ {h} : origin'[g] = origin[g]
    BY <1>1 DEF HandsOK
  <1>3. origin' \in [Holders -> SUBSET (Seq(Siblings) \cup Foreign)]
    BY <1>1 DEF HandsOK
  <1>4. \A g \in Users : Own(g) # NoBuffer => origin'[g] = origin[g]
    BY <1>1, <1>2
  <1>5. HandsOK'
    BY <1>1, <1>3, <1>4 DEF HandsOK
  <1>6. \A g \in Users : origin[g] \subseteq origin'[g]
    BY <1>1, <1>2
  <1>7. ASSUME NEW o, NEW k, o.holder \in Users, InPlace(o, k)
        PROVE  InPlace(o, k)'
    BY <1>1, <1>6, <1>7 DEF InPlace, vars
  <1>8. QED
    BY <1>5, <1>7

\* A staging transaction that is no longer under way has left its chunk, if
\* those before it did, whether it was executed or not.
LEMMA LandedInPlace ==
    ASSUME TypeOK, HandsOK, NEW tx, Sent(tx), tx.stage # 0, Land(tx),
           tx.stage > 1 => InPlace(tx.order, tx.stage - 1)
    PROVE  InPlace(tx.order, tx.stage)'
  <1> DEFINE o == tx.order
             h == o.holder
             pf == o.proof
             i == tx.stage
  <1>1. /\ h \in Users /\ h \in Holders /\ pf \in Seq(Siblings)
        /\ i \in 1..ChunksOf(Len(pf), ChunkLen) /\ i \in Nat
        /\ pf \notin Foreign
    <2>1. OrderGood(o) /\ i \in 1..NumChunks(o) /\ i \in Nat
      BY DEF Sent
    <2>2. QED
      BY <2>1, OrderTypes, ForeignIsNoProof DEF OrderGood
  <1>2. Own(h) \in Buffers \cup {NoBuffer}
    BY <1>1, OwnBuffer
  <1>3. ASSUME i > 1, o.known = <<record[h]>>, origin[h] \subseteq {pf}
        PROVE  /\ Own(h) # NoBuffer /\ Own(h).total_len = Len(pf)
               /\ (i - 1) * ChunkLen + Len(ChunkAt(pf, ChunkLen, i)) <= Own(h).total_len
               /\ Filled(WithChunk(Own(h), pf, i), pf, i)
    <2>1. Own(h) # NoBuffer /\ Filled(Own(h), pf, i - 1)
      BY <1>3 DEF InPlace
    <2>2. Own(h) \in Buffers /\ Own(h).total_len = Len(pf)
      BY <1>2, <2>1 DEF Filled
    <2>3. QED
      BY <1>1, <2>1, <2>2, WriteFills
  <1>4. CASE Execute(tx) /\ OriginAfter({pf})
    <2>1. /\ UNCHANGED record
          /\ WriteOf(Own(h), pf, Own(h)') /\ Own(h)' # NoBuffer
          /\ i > 1 => Own(h)' = WithChunk(Own(h), pf, i)
      BY <1>4, StageExecutes
    <2>2. SUFFICES ASSUME o.known = <<record[h]>>, origin'[h] \subseteq {pf}
                   PROVE  Filled(Own(h)', pf, i)
      BY <2>1 DEF InPlace
    <2>3. CASE i = 1
      <3>1. Own(h) = NoBuffer
        BY <1>4, <2>3 DEF Execute, InitAndWrite, Own
      <3>2. QED
        BY <1>1, <1>2, <2>1, <2>3, <3>1, WriteKeepsFilled, ZenonT(60)
    <2>4. CASE i > 1
      <3>1. origin[h] \subseteq origin'[h]
        BY <1>1, <1>4, <2>1, OriginOf
      <3>2. QED
        BY <1>3, <2>1, <2>2, <2>4, <3>1
    <2>5. QED
      BY <1>1, <2>3, <2>4
  <1>5. CASE /\ ~Executable(tx) /\ UNCHANGED vars
             /\ origin' = [origin EXCEPT ![h] =
                             IF i = 1 /\ buffer[<<h, h>>] = NoBuffer
                             THEN @ \cup Foreign ELSE @]
    <2>1. Own(h)' = Own(h) /\ record' = record
      BY <1>5 DEF Own, vars
    <2>2. origin'[h] = IF i = 1 /\ Own(h) = NoBuffer THEN origin[h] \cup Foreign ELSE origin[h]
      BY <1>1, <1>5 DEF HandsOK, Own
    <2>3. SUFFICES ASSUME o.known = <<record[h]>>, origin'[h] \subseteq {pf}
                   PROVE  Own(h) # NoBuffer /\ Filled(Own(h), pf, i)
      BY <2>1 DEF InPlace
    <2>4. CASE i = 1
      <3>1. Own(h) # NoBuffer
        BY <1>1, <2>2, <2>3, <2>4 DEF Foreign
      <3>2. origin[h] = {pf}
        BY <1>1, <2>2, <2>3, <3>1 DEF HandsOK
      <3>3. QED
        BY <1>1, <2>4, <3>1, <3>2 DEF HandsOK
    <2>5. CASE i > 1
      <3>1. /\ Own(h) # NoBuffer
            /\ (i - 1) * ChunkLen + Len(Chunk(o, i)) <= Own(h).total_len
        BY <1>3, <2>2, <2>3, <2>5 DEF Chunk, ChunkAt
      <3>2. Executable(tx)
        BY <2>5, <3>1 DEF Executable, Own
      <3>3. QED
        BY <1>5, <3>2
    <2>6. QED
      BY <1>1, <2>4, <2>5
  <1>6. QED
    BY <1>4, <1>5 DEF Land

\* While the program moves and the tab stands still, what the claims rest on is
\* kept, if what is in place stays so.
LEMMA ProgramStep ==
    ASSUME PageInv, Advances, HandsOK', page' = page, net' \subseteq net,
           \A o, k : k \in Nat /\ OrderGood(o) /\ InPlace(o, k) => InPlace(o, k)',
           page.phase = "confirming" /\ Staged \notin net' => InPlace(page.order, page.stage)'
    PROVE  PageInv'
  <1>1. TypeOK' /\ TabOK'
    <2>1. TypeOK /\ TabOK /\ SameReading
      BY DEF PageInv, TabOK, SameReading
    <2>2. QED
      BY <2>1, TabStep DEF Advances
  <1>2. ASSUME NEW o, OrderGood(o)
        PROVE  /\ OrderGood(o)'
               /\ SignedFor(o) => SignedFor(o)'
               /\ NumChunks(o) \in Nat
    BY <1>2, OrderStep, OrderTypes DEF PageInv, Advances, SignedFor
  <1>3. ASSUME NEW tx \in net' PROVE Sent(tx)'
    <2>1. Sent(tx)
      BY <1>3 DEF PageInv
    <2>2. OrderGood(tx.order)
      BY <2>1 DEF Sent
    <2>3. OrderGood(tx.order)' /\ SignedFor(tx.order)'
      BY <1>2, <2>1, <2>2 DEF Sent
    <2>4. tx.stage = 0 /\ ~Inline(tx.order) => InPlace(tx.order, NumChunks(tx.order))'
      BY <1>2, <2>1, <2>2 DEF Sent
    <2>5. QED
      BY <2>1, <2>3, <2>4 DEF Sent
  <1>4. OrderInHand'
    <2> DEFINE o == page.order
    <2>1. OrderInHand
      BY DEF PageInv
    <2>2. Staged' = Staged /\ o' = o /\ page'.phase = page.phase /\ page'.stage = page.stage
      BY DEF Staged
    <2>3. page.phase # "idle" =>
             /\ OrderGood(o) /\ OrderGood(o)'
             /\ SignedFor(o) => SignedFor(o)'
             /\ NumChunks(o) \in Nat
      BY <1>2, <2>1 DEF OrderInHand
    <2>4. page.phase \in {"staging", "confirming"} /\ page.stage > 1 =>
             InPlace(o, page.stage - 1)'
      BY <2>1, <2>3 DEF OrderInHand
    <2>5. page.phase = "submitting" /\ ~Inline(o) => InPlace(o, NumChunks(o))'
      BY <2>1, <2>3 DEF OrderInHand
    <2>6. QED
      BY <2>1, <2>2, <2>3, <2>4, <2>5 DEF OrderInHand
  <1>5. QED
    BY <1>1, <1>3, <1>4 DEF PageInv

\* A transaction lands,
LEMMA LandStep ==
    ASSUME PageInv, NEW tx \in net, Land(tx)
    PROVE  PageInv'
  <1> DEFINE o == tx.order
             h == o.holder
             pf == o.proof
  <1>1. /\ TypeOK /\ HandsOK /\ Sent(tx) /\ OrderGood(o)
        /\ h \in Users /\ pf \in Seq(Siblings)
        /\ page' = page /\ net' = net \ {tx}
    BY OrderTypes DEF PageInv, Sent, OrderGood, Land
  <1>2. /\ Advances /\ HandsOK'
        /\ \A q, k : k \in Nat /\ OrderGood(q) /\ InPlace(q, k) => InPlace(q, k)'
    <2>1. CASE Execute(tx) /\ OriginAfter({pf})
      <3>1. Advances /\ StagedBy({pf})
        BY <1>1, <2>1, ExecuteAdvances
      <3>2. HandsOK'
        <4> DEFINE hands == {pf}
        <4>1. /\ StagedBy(hands) /\ OriginAfter(hands)
              /\ hands = Foreign \/ \E q \in Seq(Siblings) : hands = {q}
          BY <1>1, <2>1, <3>1
        <4> HIDE DEF hands
        <4>2. QED
          BY <1>1, <4>1, HandsStep
      <3>3. \A q, k : k \in Nat /\ OrderGood(q) /\ InPlace(q, k) => InPlace(q, k)'
        <4> DEFINE hands == {pf}
        <4>1. StagedBy(hands) /\ OriginAfter(hands)
          BY <2>1, <3>1
        <4> HIDE DEF hands
        <4>2. QED
          BY <1>1, <3>1, <4>1, InPlaceStep, OrderTypes
      <3>4. QED
        BY <3>1, <3>2, <3>3
    <2>2. CASE /\ ~Executable(tx) /\ UNCHANGED vars
               /\ origin' = [origin EXCEPT ![h] =
                               IF tx.stage = 1 /\ buffer[<<h, h>>] = NoBuffer
                               THEN @ \cup Foreign ELSE @]
      <3> DEFINE tooPoor == tx.stage = 1 /\ buffer[<<h, h>>] = NoBuffer
      <3>1. /\ tooPoor \in BOOLEAN
            /\ tooPoor => Own(h) = NoBuffer
            /\ origin' = [origin EXCEPT ![h] = IF tooPoor THEN @ \cup Foreign ELSE @]
        BY <2>2 DEF Own
      <3> HIDE DEF tooPoor
      <3>2. /\ HandsOK'
            /\ \A q, k : q.holder \in Users /\ InPlace(q, k) => InPlace(q, k)'
        BY <1>1, <2>2, <3>1, FailureStep
      <3>3. QED
        BY <1>1, <2>2, <3>2, StutterAdvances DEF OrderGood
    <2>3. QED
      BY <2>1, <2>2 DEF Land
  <1>3. ASSUME page.phase = "confirming", Staged \notin net'
        PROVE  InPlace(page.order, page.stage)'
    <2>1. /\ OrderGood(page.order) /\ page.stage \in 1..NumChunks(page.order)
          /\ NumChunks(page.order) \in Nat
          /\ page.stage > 1 => InPlace(page.order, page.stage - 1)
      <3>1. /\ OrderGood(page.order) /\ page.stage \in 1..NumChunks(page.order)
            /\ page.stage > 1 => InPlace(page.order, page.stage - 1)
        BY <1>3 DEF PageInv, OrderInHand
      <3>2. QED
        BY <3>1, OrderTypes
    <2>2. CASE tx = Staged
      <3>1. tx.order = page.order /\ tx.stage = page.stage /\ tx.stage # 0
        BY <2>1, <2>2 DEF Staged
      <3>2. InPlace(tx.order, tx.stage)'
        BY <1>1, <2>1, <3>1, LandedInPlace
      <3>3. QED
        BY <1>1, <3>1, <3>2
    <2>3. CASE tx # Staged
      <3>1. Staged \notin net
        BY <1>1, <1>3, <2>3
      <3>2. InPlace(page.order, page.stage)
        BY <1>3, <3>1 DEF PageInv, OrderInHand
      <3>3. page.stage \in Nat
        BY <2>1
      <3>4. QED
        BY <1>1, <1>2, <2>1, <3>2, <3>3
    <2>4. QED
      BY <2>2, <2>3
  <1>4. QED
    BY <1>1, <1>2, <1>3, ProgramStep

\* or never does,
LEMMA ExpireStep ==
    ASSUME PageInv, NEW tx \in net, Expire(tx)
    PROVE  PageInv'
  <1>1. /\ UNCHANGED vars /\ page' = page /\ origin' = origin /\ net' \subseteq net
        /\ page.phase = "confirming" /\ Staged \notin net' => Staged \notin net
    BY DEF Expire
  <1>2. TypeOK /\ HandsOK /\ OrderInHand
    BY DEF PageInv
  <1>3. Advances
    BY <1>1, <1>2, StutterAdvances
  <1>4. /\ HandsOK'
        /\ \A q, k : InPlace(q, k) => InPlace(q, k)'
    BY <1>1, <1>2 DEF HandsOK, InPlace, Own, vars
  <1>5. page.phase = "confirming" /\ Staged \notin net' => InPlace(page.order, page.stage)'
    <2>1. SUFFICES ASSUME page.phase = "confirming", Staged \notin net'
                   PROVE  InPlace(page.order, page.stage)'
      OBVIOUS
    <2>2. InPlace(page.order, page.stage)
      BY <1>1, <1>2, <2>1 DEF OrderInHand
    <2>3. QED
      BY <1>1, <1>4, <2>2
  <1>6. QED
    BY <1>1, <1>3, <1>4, <1>5, ProgramStep

\* or somebody else does something.
LEMMA OthersStep ==
    ASSUME PageInv, Others
    PROVE  PageInv'
  <1>1. TypeOK /\ HandsOK /\ OrderInHand /\ Next /\ OriginAfter(Foreign)
        /\ page' = page /\ net' = net
    BY DEF PageInv, Others
  <1>2. Advances
    BY <1>1, NextAdvances
  <1>3. StagedBy(Foreign)
    BY DEF StagedBy
  <1>4. HandsOK' /\ \A q, k : k \in Nat /\ OrderGood(q) /\ InPlace(q, k) => InPlace(q, k)'
    BY <1>1, <1>2, <1>3, HandsStep, InPlaceStep, OrderTypes
  <1>5. page.phase = "confirming" /\ Staged \notin net' => InPlace(page.order, page.stage)'
    <2>1. SUFFICES ASSUME page.phase = "confirming", Staged \notin net
                   PROVE  InPlace(page.order, page.stage)'
      BY <1>1
    <2>2. /\ InPlace(page.order, page.stage) /\ OrderGood(page.order)
          /\ page.stage \in 1..NumChunks(page.order)
      BY <1>1, <2>1 DEF OrderInHand
    <2>3. page.stage \in Nat
      BY <2>2, OrderTypes
    <2>4. QED
      BY <1>1, <1>4, <2>2, <2>3
  <1>6. QED
    BY <1>1, <1>2, <1>4, <1>5, ProgramStep

\* Nothing on chain or in the network moves.
LEMMA Quiet ==
    ASSUME UNCHANGED <<vars, origin>>
    PROVE  /\ TypeOK' <=> TypeOK
           /\ HandsOK' <=> HandsOK
           /\ \A tx : Sent(tx)' <=> Sent(tx)
           /\ \A o : (OrderGood(o)' <=> OrderGood(o)) /\ (SignedFor(o)' <=> SignedFor(o))
           /\ \A o, k : InPlace(o, k)' <=> InPlace(o, k)
  <1>1. /\ UNCHANGED <<now, config, record, treasury, wallet, buffer, signed, paid, origin>>
        /\ \A h : Own(h)' = Own(h)
    BY DEF vars, Own
  <1>2. TypeOK' <=> TypeOK
    BY <1>1 DEF TypeOK
  <1>3. HandsOK' <=> HandsOK
    BY <1>1 DEF HandsOK
  <1>4. \A o : (OrderGood(o)' <=> OrderGood(o)) /\ (SignedFor(o)' <=> SignedFor(o))
    BY <1>1 DEF OrderGood, WasRead, SignedFor
  <1>5. \A o, k : InPlace(o, k)' <=> InPlace(o, k)
    BY <1>1 DEF InPlace
  <1>6. \A tx : Sent(tx)' <=> Sent(tx)
    BY <1>4, <1>5 DEF Sent
  <1>7. QED
    BY <1>2, <1>3, <1>4, <1>5, <1>6

\* The tab moves, but not the claim under way.
LEMMA ReadStep ==
    ASSUME PageInv, UNCHANGED <<vars, net, origin>>, TabOK',
           page'.phase = page.phase, page'.order = page.order, page'.stage = page.stage
    PROVE  PageInv'
  <1>1. UNCHANGED <<vars, origin>> /\ net' = net
    OBVIOUS
  <1>2. TypeOK' /\ HandsOK' /\ \A tx \in net' : Sent(tx)'
    BY <1>1, Quiet DEF PageInv
  <1>3. /\ OrderGood(page.order) => OrderGood(page.order)'
        /\ SignedFor(page.order) => SignedFor(page.order)'
        /\ \A k : InPlace(page.order, k) => InPlace(page.order, k)'
    BY <1>1, Quiet
  <1>4. Staged' = Staged
    BY DEF Staged
  <1>5. OrderInHand'
    BY <1>1, <1>3, <1>4 DEF PageInv, OrderInHand
  <1>6. QED
    BY <1>2, <1>5 DEF PageInv

\* An answer is a leaf of some list.
LEMMA AnswersAreHits ==
    ASSUME NEW w, NEW hit \in HitsOf(w)
    PROVE  Hit(hit)
  BY DEF HitsOf, Hit

\* Opening the tab.
LEMMA VisitStep ==
    ASSUME PageInv, NEW w \in Users, NEW month \in BrowserMonths, Visit(w, month)
    PROVE  PageInv'
  <1>1. /\ UNCHANGED <<vars, origin>> /\ net' = net
        /\ page' = [ClosedTab EXCEPT !.who = w, !.month = month, !.asking = {"hit", "cfg", "done"}]
    BY DEF Visit
  <1>2. page' = [who |-> w, month |-> month, hit |-> <<>>, late |-> Nobody, cfg |-> NoConfig,
                 seen |-> <<>>, done |-> {}, selected |-> {}, asking |-> {"hit", "cfg", "done"},
                 phase |-> "idle", order |-> <<>>, stage |-> 0]
    BY <1>1 DEF ClosedTab
  <1>3. TypeOK' /\ HandsOK' /\ \A tx \in net' : Sent(tx)'
    BY <1>1, Quiet DEF PageInv
  <1>4. w # Nobody /\ month \in Nat
    BY PageAssumption, WalletAssumption
  <1>5. TabOK'
    BY <1>2, <1>4 DEF TabOK, IsTab
  <1>6. OrderInHand'
    BY <1>2 DEF OrderInHand
  <1>7. QED
    BY <1>3, <1>5, <1>6 DEF PageInv

\* Another wallet: what was read stays as true as it was.
LEMMA WalletStep ==
    ASSUME PageInv, NEW w \in Users \cup {Nobody}, ChangeWallet(w)
    PROVE  PageInv'
  <1>1. PICK late :
          page' = [page EXCEPT
                     !.who = w, !.hit = <<>>, !.late = late,
                     !.seen = IF w = Nobody THEN <<>> ELSE @,
                     !.done = IF w = Nobody THEN {} ELSE @,
                     !.asking = (@ \ {"hit", "done"})
                                  \cup (IF w = Nobody THEN {} ELSE {"hit", "done"})]
    BY DEF ChangeWallet
  <1>2. UNCHANGED <<vars, net, origin>> /\ now' = now /\ record' = record
    BY DEF ChangeWallet, vars
  <1>3. TabOK
    BY DEF PageInv
  <1>4. page' = [who |-> w, month |-> page.month, hit |-> <<>>, late |-> late,
                 cfg |-> page.cfg, seen |-> IF w = Nobody THEN <<>> ELSE page.seen,
                 done |-> IF w = Nobody THEN {} ELSE page.done,
                 selected |-> page.selected,
                 asking |-> (page.asking \ {"hit", "done"})
                              \cup (IF w = Nobody THEN {} ELSE {"hit", "done"}),
                 phase |-> page.phase, order |-> page.order, stage |-> page.stage]
    BY <1>1, <1>3 DEF TabOK, IsTab
  <1>5. TabOK'
    BY <1>2, <1>3, <1>4 DEF TabOK, IsTab, WasRead
  <1>6. QED
    BY <1>2, <1>4, <1>5, ReadStep

\* An answer about an allocation, of this wallet or of an earlier one.
LEMMA HitStep ==
    ASSUME PageInv, AnswerHit \/ AnswerLate
    PROVE  PageInv'
  <1>1. UNCHANGED <<vars, net, origin>> /\ now' = now /\ record' = record
    BY DEF AnswerHit, AnswerLate, vars
  <1>2. TabOK
    BY DEF PageInv
  <1>3. PICK hit, late, asking :
          /\ hit # <<>> => Hit(hit)
          /\ asking \subseteq page.asking
          /\ page' = [page EXCEPT !.hit = hit, !.late = late, !.asking = asking]
    <2>1. CASE AnswerHit
      <3>1. PICK hit \in HitsOf(page.who) \cup {<<>>} :
              page' = [page EXCEPT !.hit = hit, !.asking = @ \ {"hit"}]
        BY <2>1 DEF AnswerHit
      <3>2. page' = [page EXCEPT !.hit = hit, !.late = page.late,
                                 !.asking = page.asking \ {"hit"}]
        BY <1>2, <3>1 DEF TabOK, IsTab
      <3>3. hit # <<>> => Hit(hit)
        BY <3>1, AnswersAreHits
      <3>4. QED
        BY <3>2, <3>3
    <2>2. CASE AnswerLate
      <3>1. PICK hit \in HitsOf(page.late) :
              page' = [page EXCEPT !.hit = hit, !.late = Nobody]
        BY <2>2 DEF AnswerLate
      <3>2. page' = [page EXCEPT !.hit = hit, !.late = Nobody, !.asking = page.asking]
        BY <1>2, <3>1 DEF TabOK, IsTab
      <3>3. Hit(hit)
        BY <3>1, AnswersAreHits
      <3>4. QED
        BY <3>2, <3>3
    <2>3. QED
      BY <2>1, <2>2
  <1>4. page' = [who |-> page.who, month |-> page.month, hit |-> hit, late |-> late,
                 cfg |-> page.cfg, seen |-> page.seen, done |-> page.done,
                 selected |-> page.selected, asking |-> asking,
                 phase |-> page.phase, order |-> page.order, stage |-> page.stage]
    BY <1>2, <1>3 DEF TabOK, IsTab
  <1>5. TabOK'
    BY <1>1, <1>2, <1>3, <1>4 DEF TabOK, IsTab, WasRead
  <1>6. QED
    BY <1>1, <1>4, <1>5, ReadStep

\* The config is read when nothing is picked.
LEMMA ConfigStep ==
    ASSUME PageInv, AnswerConfig
    PROVE  PageInv'
  <1>1. /\ UNCHANGED <<vars, net, origin>> /\ now' = now /\ record' = record
        /\ "cfg" \in page.asking
    BY DEF AnswerConfig, vars
  <1>2. TabOK /\ TypeOK
    BY DEF PageInv
  <1>3. PICK cfg \in ConfigReads :
          page' = [page EXCEPT !.cfg = cfg, !.asking = @ \ {"cfg"}]
    BY DEF AnswerConfig
  <1>4. cfg \in Configs \cup {NoConfig}
    BY <1>2 DEF ConfigReads, TypeOK
  <1>5. page' = [who |-> page.who, month |-> page.month, hit |-> page.hit, late |-> page.late,
                 cfg |-> cfg, seen |-> page.seen, done |-> page.done,
                 selected |-> page.selected, asking |-> page.asking \ {"cfg"},
                 phase |-> page.phase, order |-> page.order, stage |-> page.stage]
    BY <1>2, <1>3 DEF TabOK, IsTab
  <1>6. page.selected = {}
    BY <1>1, <1>2 DEF TabOK
  <1>7. TabOK'
    BY <1>1, <1>2, <1>4, <1>5, <1>6 DEF TabOK, IsTab, WasRead
  <1>8. QED
    BY <1>1, <1>5, <1>7, ReadStep

\* The record is read as it is, or not.
LEMMA RecordStep ==
    ASSUME PageInv, AnswerDone
    PROVE  PageInv'
  <1>1. /\ UNCHANGED <<vars, net, origin>> /\ now' = now /\ record' = record
        /\ "done" \in page.asking
    BY DEF AnswerDone, vars
  <1>2. TabOK /\ TypeOK
    BY DEF PageInv
  <1>3. page.who \in Users
    BY <1>1, <1>2 DEF TabOK
  <1> DEFINE h == page.who
             rec == record[h]
  <1>4. WasRead(rec, h) /\ Taken(h) = ClaimedIn(rec)
    BY <1>2, <1>3, OwnBuffer DEF TypeOK, WasRead, Past, Taken, ClaimedIn
  <1>5. PICK seen, done :
          /\ page' = [page EXCEPT !.seen = seen, !.done = done, !.asking = @ \ {"done"}]
          /\ \/ seen = <<h, rec>> /\ done = ClaimedIn(rec)
             \/ seen = <<>> /\ done = {}
    BY <1>4 DEF AnswerDone, RecordRead
  <1>6. page' = [who |-> page.who, month |-> page.month, hit |-> page.hit, late |-> page.late,
                 cfg |-> page.cfg, seen |-> seen, done |-> done,
                 selected |-> page.selected, asking |-> page.asking \ {"done"},
                 phase |-> page.phase, order |-> page.order, stage |-> page.stage]
    BY <1>2, <1>5 DEF TabOK, IsTab
  <1>7. page'.seen # <<>> =>
          \E g \in Users : \E r :
             /\ page'.seen = <<g, r>> /\ r \in Records \cup {NoRecord} /\ Past(r, record'[g])
             /\ page'.done = ClaimedIn(r)
    <2>1. SUFFICES ASSUME seen # <<>>
                   PROVE  \E g \in Users : \E r :
                             /\ seen = <<g, r>> /\ r \in Records \cup {NoRecord}
                             /\ Past(r, record'[g]) /\ done = ClaimedIn(r)
      BY <1>6
    <2>2. h \in Users /\ seen = <<h, rec>> /\ done = ClaimedIn(rec)
          /\ rec \in Records \cup {NoRecord} /\ Past(rec, record'[h])
      BY <1>1, <1>3, <1>4, <1>5, <2>1 DEF WasRead
    <2> HIDE DEF h, rec
    <2>3. QED
      BY <2>2
  <1>8. TabOK'
    <2> HIDE DEF h, rec
    <2>1. QED
      BY <1>1, <1>2, <1>6, <1>7 DEF TabOK, IsTab, WasRead
  <1>9. QED
    BY <1>1, <1>6, <1>8, ReadStep

\* What is picked is offered.
LEMMA PickStep ==
    ASSUME PageInv, SelectAll \/ \E i \in Tranches : Toggle(i)
    PROVE  PageInv'
  <1>1. /\ UNCHANGED <<vars, net, origin>> /\ now' = now /\ record' = record
        /\ Available # {}
    BY DEF SelectAll, Toggle, vars
  <1>2. TabOK
    BY DEF PageInv
  <1>3. PICK selected :
          /\ page' = [page EXCEPT !.selected = selected]
          /\ selected \subseteq page.selected \cup Available
    BY DEF SelectAll, Toggle
  <1>4. page' = [who |-> page.who, month |-> page.month, hit |-> page.hit, late |-> page.late,
                 cfg |-> page.cfg, seen |-> page.seen, done |-> page.done,
                 selected |-> selected, asking |-> page.asking,
                 phase |-> page.phase, order |-> page.order, stage |-> page.stage]
    BY <1>2, <1>3 DEF TabOK, IsTab
  <1>5. /\ page.cfg # NoConfig /\ Available \subseteq Tranches
        /\ \A i \in Available : ShownUnlocked(page.cfg.genesis, page.month, i)
    BY <1>1 DEF Available
  <1>6. /\ selected \subseteq Tranches
        /\ \A i \in selected : ShownUnlocked(page.cfg.genesis, page.month, i)
    BY <1>2, <1>3, <1>5 DEF TabOK
  <1>7. TabOK'
    BY <1>1, <1>2, <1>4, <1>5, <1>6 DEF TabOK, IsTab, WasRead
  <1>8. QED
    BY <1>1, <1>4, <1>7, ReadStep

\* The order is made from what was read and picked.
LEMMA OrderIsGood ==
    ASSUME PageInv, page.who # Nobody, page.hit # <<>>, page.cfg # NoConfig,
           page.selected # {}, RootsAgree
    PROVE  OrderGood(Order)
  <1> DEFINE o == Order
  <1>1. TabOK /\ TypeOK
    BY DEF PageInv
  <1>2. /\ o.holder = page.who /\ o.of = page.hit[1] /\ o.ts = page.selected
        /\ o.total = Leaf[page.hit[2]][page.hit[1]] /\ o.proof = Path[page.hit[2]][page.hit[1]]
        /\ o.cfg = page.cfg /\ o.known = Known /\ o.month = page.month
    BY DEF Order
  <1> HIDE DEF o
  <1>3. o.holder \in Users /\ o.ts \subseteq Tranches /\ o.ts # {} /\ o.cfg \in Configs
    BY <1>1, <1>2 DEF TabOK
  <1>4. o.month \in Nat /\ \A i \in o.ts : Unlocked(o.cfg.genesis, o.month, i)
    <2>1. SUFFICES ASSUME NEW i \in page.selected
                   PROVE  Unlocked(page.cfg.genesis, page.month, i)
      BY <1>1, <1>2 DEF TabOK
    <2>2. /\ page.cfg.genesis \in Nat /\ i \in Tranches
          /\ ShownUnlocked(page.cfg.genesis, page.month, i)
      BY <1>1, <1>2, <1>3, ConfigTypes DEF TabOK
    <2>3. QED
      BY <2>2, ShownIsUnlocked
  <1>5. /\ o.of \in DOMAIN Leaf[o.cfg.root] /\ o.total = Leaf[o.cfg.root][o.of]
        /\ o.proof = Path[o.cfg.root][o.of]
    <2>1. PICK r \in Roots : \E w \in DOMAIN Leaf[r] : page.hit = <<w, r>>
      BY <1>1 DEF TabOK, Hit
    <2>2. page.hit[2] = r /\ page.hit[1] \in DOMAIN Leaf[r]
      BY <2>1
    <2>3. page.cfg.root = r
      BY <2>2 DEF RootsAgree
    <2>4. QED
      BY <1>2, <2>2, <2>3
  <1>6. ASSUME o.known # <<>>
        PROVE  \E rec : o.known = <<rec>> /\ WasRead(rec, o.holder)
                        /\ o.ts \cap ClaimedIn(rec) = {}
    <2>1. /\ page.seen # <<>> /\ page.seen[1] = page.who
          /\ page.selected \cap page.done = {} /\ o.known = <<page.seen[2]>>
      BY <1>2, <1>6 DEF Known
    <2> PICK h \in Users : \E rec :
            page.seen = <<h, rec>> /\ WasRead(rec, h) /\ page.done = ClaimedIn(rec)
      BY <1>1, <2>1 DEF TabOK
    <2>2. PICK rec :
            page.seen = <<h, rec>> /\ WasRead(rec, h) /\ page.done = ClaimedIn(rec)
      OBVIOUS
    <2>3. h = o.holder /\ o.known = <<rec>> /\ o.ts \cap ClaimedIn(rec) = {}
      BY <1>2, <2>1, <2>2
    <2>4. QED
      BY <2>2, <2>3
  <1>7. QED
    BY <1>3, <1>4, <1>5, <1>6 DEF OrderGood, o

\* The tab goes on with the claim and shows what it showed.
LEMMA TabGoesOn ==
    ASSUME PageInv, UNCHANGED vars, SameReading
    PROVE  TabOK'
  BY TabStep, StutterAdvances DEF PageInv

LEMMA ClickStep ==
    ASSUME PageInv, Click
    PROVE  PageInv'
  <1> DEFINE o == Order
  <1>1. /\ UNCHANGED <<vars, net, origin>>
        /\ page' = [page EXCEPT !.phase = "signing", !.order = o]
        /\ OrderGood(o)
    BY OrderIsGood DEF Click
  <1> HIDE DEF o
  <1>2. /\ SameReading /\ page'.phase = "signing" /\ page'.order = o
    BY <1>1 DEF PageInv, TabOK, IsTab, SameReading
  <1>3. UNCHANGED <<vars, origin>> /\ net' = net
    BY <1>1
  <1>4. TypeOK' /\ HandsOK' /\ (\A tx \in net' : Sent(tx)') /\ TabOK'
    BY <1>2, <1>3, Quiet, TabGoesOn DEF PageInv
  <1>5. OrderGood(page.order)'
    BY <1>1, <1>2, <1>3, Quiet
  <1>6. OrderInHand'
    BY <1>2, <1>5 DEF OrderInHand
  <1>7. QED
    BY <1>4, <1>6 DEF PageInv

LEMMA GiveUpStep ==
    ASSUME PageInv, GiveUp
    PROVE  PageInv'
  <1>1. /\ UNCHANGED <<vars, origin>> /\ net' = net
        /\ page' = [page EXCEPT !.phase = "idle", !.order = <<>>, !.stage = 0]
    BY DEF GiveUp
  <1>2. SameReading /\ page'.phase = "idle"
    BY <1>1 DEF PageInv, TabOK, IsTab, SameReading
  <1>3. TypeOK' /\ HandsOK' /\ (\A tx \in net' : Sent(tx)') /\ TabOK'
    BY <1>1, <1>2, Quiet, TabGoesOn DEF PageInv
  <1>4. OrderInHand'
    BY <1>2 DEF OrderInHand
  <1>5. QED
    BY <1>3, <1>4 DEF PageInv

\* The signature that the claim will need.
LEMMA SignStep ==
    ASSUME PageInv, SignOrder
    PROVE  PageInv'
  <1> DEFINE o == page.order
  <1>1. TypeOK /\ TabOK /\ HandsOK /\ OrderInHand /\ OrderGood(o)
    BY DEF PageInv, OrderInHand, SignOrder
  <1>2. /\ signed' = signed \cup {<<o.holder, o.total, o.ts>>}
        /\ UNCHANGED <<now, config, record, treasury, wallet, buffer, paid>>
        /\ net' = net /\ origin' = origin
    BY DEF SignOrder, SignClaimMessage
  <1>3. page' = [page EXCEPT !.stage = 1,
                             !.phase = IF Inline(o) THEN "submitting" ELSE "staging"]
    BY DEF SignOrder
  <1>4. /\ SameReading /\ page'.order = o /\ page'.stage = 1
        /\ page'.phase = IF Inline(o) THEN "submitting" ELSE "staging"
    BY <1>1, <1>3 DEF TabOK, IsTab, SameReading
  <1>5. o.holder \in Holders /\ o.total \in Totals /\ o.ts \in SUBSET Tranches
        /\ (~Inline(o) => 1 \in 1..NumChunks(o))
    BY <1>1, OrderTypes DEF OrderGood
  <1>6. Advances
    <2>1. TypeOK'
      BY <1>1, <1>2, <1>5 DEF TypeOK
    <2>2. now \in Nat
      BY <1>1 DEF TypeOK
    <2>3. QED
      BY <1>2, <2>1, <2>2 DEF Advances, Past, Own
  <1>7. TypeOK' /\ TabOK' /\ HandsOK'
    <2>1. TypeOK' /\ TabOK'
      BY <1>1, <1>4, <1>6, TabStep DEF Advances
    <2>2. HandsOK'
      BY <1>1, <1>2 DEF HandsOK, Own
    <2>3. QED
      BY <2>1, <2>2
  <1>8. \A q : /\ OrderGood(q) => OrderGood(q)'
               /\ SignedFor(q) => SignedFor(q)'
               /\ \A k : InPlace(q, k) => InPlace(q, k)'
    <2>1. \A q : OrderGood(q) => OrderGood(q)'
      BY <1>1, <1>6, OrderStep
    <2>2. QED
      BY <1>2, <2>1 DEF SignedFor, InPlace, Own
  <1>9. \A tx \in net' : Sent(tx)'
    BY <1>2, <1>8 DEF PageInv, Sent
  <1>10. OrderInHand'
    <2>1. SignedFor(page.order)'
      BY <1>2, <1>4 DEF SignedFor
    <2>2. OrderGood(page.order)'
      BY <1>1, <1>4, <1>8
    <2>3. QED
      BY <1>4, <1>5, <2>1, <2>2 DEF OrderInHand
  <1>11. QED
    BY <1>7, <1>9, <1>10 DEF PageInv

\* A chunk is sent,
LEMMA SendStep ==
    ASSUME PageInv, SendStage
    PROVE  PageInv'
  <1> DEFINE o == page.order
  <1>1. /\ UNCHANGED <<vars, origin>> /\ net' = net \cup {Staged}
        /\ page' = [page EXCEPT !.phase = "confirming"] /\ page.phase = "staging"
    BY DEF SendStage
  <1>2. /\ SameReading /\ page'.phase = "confirming"
        /\ page'.order = o /\ page'.stage = page.stage
    BY <1>1 DEF PageInv, TabOK, IsTab, SameReading
  <1>3. Staged' = Staged /\ Staged.order = o /\ Staged.stage = page.stage
    BY <1>2 DEF Staged
  <1>4. /\ OrderGood(o) /\ SignedFor(o) /\ ~Inline(o) /\ page.stage \in 1..NumChunks(o)
        /\ NumChunks(o) \in Nat
        /\ page.stage > 1 => InPlace(o, page.stage - 1)
    <2>1. /\ OrderGood(o) /\ SignedFor(o) /\ ~Inline(o) /\ page.stage \in 1..NumChunks(o)
          /\ page.stage > 1 => InPlace(o, page.stage - 1)
      BY <1>1 DEF PageInv, OrderInHand
    <2>2. QED
      BY <2>1, OrderTypes
  <1>5. Sent(Staged)
    BY <1>3, <1>4 DEF Sent
  <1>6. TypeOK' /\ HandsOK' /\ TabOK' /\ \A tx \in net' : Sent(tx)'
    <2>1. \A tx \in net' : Sent(tx)
      BY <1>1, <1>5 DEF PageInv
    <2>2. QED
      BY <1>1, <1>2, <2>1, Quiet, TabGoesOn DEF PageInv
  <1>7. /\ OrderGood(page.order)' /\ SignedFor(page.order)'
        /\ page.stage > 1 => InPlace(page.order, page.stage - 1)'
    BY <1>1, <1>2, <1>4, Quiet
  <1>8. OrderInHand'
    BY <1>1, <1>2, <1>3, <1>4, <1>7 DEF OrderInHand
  <1>9. QED
    BY <1>6, <1>8 DEF PageInv

\* has landed,
LEMMA ConfirmStep ==
    ASSUME PageInv, Confirmed
    PROVE  PageInv'
  <1> DEFINE o == page.order
             i == page.stage
             more == i < NumChunks(o)
  <1>1. /\ UNCHANGED <<vars, origin>> /\ net' = net /\ page.phase = "confirming"
        /\ Staged \notin net
        /\ page' = IF more THEN [page EXCEPT !.phase = "staging", !.stage = i + 1]
                   ELSE [page EXCEPT !.phase = "submitting"]
    BY DEF Confirmed, PageInv, TabOK, IsTab
  <1>2. /\ SameReading /\ page'.order = o
        /\ more => page'.phase = "staging" /\ page'.stage = i + 1
        /\ ~more => page'.phase = "submitting"
    <2> HIDE DEF more
    <2>1. QED
      BY <1>1 DEF PageInv, TabOK, IsTab, SameReading
  <1>3. /\ OrderGood(o) /\ SignedFor(o) /\ ~Inline(o) /\ i \in 1..NumChunks(o)
        /\ InPlace(o, i)
    BY <1>1 DEF PageInv, OrderInHand
  <1>4. NumChunks(o) \in Nat
    BY <1>3, OrderTypes
  <1>5. TypeOK' /\ HandsOK' /\ (\A tx \in net' : Sent(tx)') /\ TabOK'
    BY <1>1, <1>2, Quiet, TabGoesOn DEF PageInv
  <1>6. /\ OrderGood(page.order)' /\ SignedFor(page.order)'
        /\ \A k : InPlace(o, k) => InPlace(page.order, k)'
    BY <1>1, <1>2, <1>3, Quiet
  <1>7. OrderInHand'
    <2>1. CASE more
      <3>1. i + 1 \in 1..NumChunks(o) /\ (i + 1) - 1 = i
        BY <1>3, <1>4, <2>1
      <3>2. page'.stage - 1 = i
        BY <1>2, <2>1, <3>1
      <3>3. InPlace(page.order, page.stage - 1)'
        BY <1>2, <1>3, <1>6, <3>2
      <3>4. QED
        BY <1>2, <1>3, <1>6, <2>1, <3>1, <3>3 DEF OrderInHand
    <2>2. CASE ~more
      <3>1. i = NumChunks(o)
        BY <1>3, <1>4, <2>2
      <3>2. InPlace(page.order, NumChunks(page.order))'
        BY <1>2, <1>3, <1>6, <3>1
      <3>3. QED
        BY <1>2, <1>6, <2>2, <3>2 DEF OrderInHand
    <2>3. QED
      BY <2>1, <2>2
  <1>8. QED
    BY <1>5, <1>7 DEF PageInv

\* and with all of them in place the claim is sent.
LEMMA SubmitStep ==
    ASSUME PageInv, Submit
    PROVE  PageInv'
  <1> DEFINE o == page.order
             tx == [order |-> o, stage |-> 0]
             asking == page.asking \cup {"cfg"} \cup (IF page.who = Nobody THEN {} ELSE {"done"})
  <1>1. /\ UNCHANGED <<vars, origin>> /\ net' = net \cup {tx} /\ page.phase = "submitting"
        /\ page' = [page EXCEPT !.phase = "idle", !.order = <<>>, !.stage = 0,
                                !.selected = {}, !.cfg = NoConfig, !.asking = asking]
    BY DEF Submit, PageInv, TabOK, IsTab
  <1>2. page' = [who |-> page.who, month |-> page.month, hit |-> page.hit, late |-> page.late,
                 cfg |-> NoConfig, seen |-> page.seen, done |-> page.done,
                 selected |-> {}, asking |-> asking,
                 phase |-> "idle", order |-> <<>>, stage |-> 0]
    <2> HIDE DEF asking
    <2>1. QED
      BY <1>1 DEF PageInv, TabOK, IsTab
  <1>3. Sent(tx)
    <2>1. OrderGood(o) /\ SignedFor(o) /\ (~Inline(o) => InPlace(o, NumChunks(o)))
      BY <1>1 DEF PageInv, OrderInHand
    <2>2. QED
      BY <2>1 DEF Sent
  <1>4. TypeOK' /\ HandsOK' /\ \A t \in net' : Sent(t)'
    <2>1. \A t \in net' : Sent(t)
      BY <1>1, <1>3 DEF PageInv
    <2>2. QED
      BY <1>1, <2>1, Quiet DEF PageInv
  <1>5. TabOK'
    <2>1. now' = now /\ record' = record
      BY <1>1 DEF vars
    <2>2. QED
      BY <1>2, <2>1 DEF PageInv, TabOK, IsTab, WasRead
  <1>6. OrderInHand'
    BY <1>2 DEF OrderInHand
  <1>7. QED
    BY <1>4, <1>5, <1>6 DEF PageInv

-----------------------------------------------------------------------------
(* The page: what holds of every behaviour with it.                        *)

LEMMA PageStart == PageInit => PageInv
  <1> SUFFICES ASSUME PageInit PROVE PageInv
    OBVIOUS
  <1>1. /\ Init /\ net = {} /\ origin = [h \in Holders |-> {}]
        /\ page = [who |-> Nobody, month |-> 0, hit |-> <<>>, late |-> Nobody, cfg |-> NoConfig,
                   seen |-> <<>>, done |-> {}, selected |-> {}, asking |-> {},
                   phase |-> "idle", order |-> <<>>, stage |-> 0]
    BY DEF PageInit, ClosedTab
  <1>2. TypeOK
    BY <1>1, TypeInit
  <1>3. TabOK
    BY <1>1, <1>2 DEF TabOK, IsTab, TypeOK
  <1>4. OrderInHand
    BY <1>1 DEF OrderInHand
  <1>5. \A h \in Users : Own(h) = NoBuffer
    BY <1>1, OwnBuffer DEF Own, Init
  <1>6. HandsOK
    BY <1>1, <1>5 DEF HandsOK
  <1>7. QED
    BY <1>1, <1>2, <1>3, <1>4, <1>6 DEF PageInv

LEMMA PageStep == PageInv /\ [PageNext]_<<vars, pageVars>> => PageInv'
  <1> SUFFICES ASSUME PageInv, [PageNext]_<<vars, pageVars>> PROVE PageInv'
    OBVIOUS
  <1>1. ASSUME UNCHANGED <<vars, pageVars>> PROVE PageInv'
    <2>1. UNCHANGED <<vars, net, origin>> /\ page' = page
      BY <1>1 DEF pageVars
    <2>2. SameReading
      BY <2>1 DEF PageInv, TabOK, SameReading
    <2>3. TabOK'
      BY <2>1, <2>2, TabGoesOn
    <2>4. QED
      BY <2>1, <2>3, ReadStep
  <1>2. QED
    BY <1>1, VisitStep, WalletStep, HitStep, ConfigStep, RecordStep, PickStep, ClickStep,
       SignStep, GiveUpStep, SendStep, ConfirmStep, SubmitStep, LandStep, ExpireStep,
       OthersStep DEF PageNext

\* With what it rests on, a claim that is still fresh passes every check.
LEMMA FreshIsAccepted ==
    ASSUME PageInv
    PROVE  RefusedHasACause
  <1>1. SUFFICES ASSUME NEW tx \in net, tx.stage = 0, StillFresh(tx.order)
                 PROVE  ClaimAccepted(tx.order)
    BY DEF RefusedHasACause
  <1> DEFINE o == tx.order
             h == o.holder
             pf == o.proof
             n == Len(pf)
             b == buffer[<<h, h>>]
             list == TrancheList(o)
  <1>2. TypeOK /\ OrderGood(o) /\ SignedFor(o) /\ (~Inline(o) => InPlace(o, NumChunks(o)))
    BY <1>1 DEF PageInv, Sent
  <1>3. ValidRequest(list) /\ Requested(list) = o.ts
    BY <1>2, TrancheListIsValid DEF OrderGood
  <1>4. h \in Users /\ h \in Holders /\ pf \in Seq(Siblings)
    BY <1>2, OrderTypes DEF OrderGood
  <1>5. CanClaim(h, o.total, list, h, pf)
    <2> HIDE DEF list
    <2>1. config = o.cfg /\ config # NoConfig
      BY <1>1, <1>2, AbsenceAssumption DEF StillFresh, OrderGood
    <2>2. VerifyInclusion(h, o.total, pf)
      BY <1>1, <1>2, <2>1 DEF StillFresh, OrderGood, VerifyInclusion
    <2>3. Consented(h, o.total, o.ts)
      BY <1>2 DEF SignedFor, Consented
    <2>4. Claimable(h, o.total, o.ts)
      <3>1. o.ts \cap Taken(h) = {}
        <4>1. PICK rec : o.known = <<rec>> /\ o.ts \cap ClaimedIn(rec) = {}
          BY <1>1, <1>2 DEF StillFresh, OrderGood
        <4>2. rec = record[h]
          BY <1>1, <4>1 DEF StillFresh
        <4>3. QED
          BY <4>1, <4>2 DEF Taken, ClaimedIn
      <3>2. \A i \in o.ts : Unlocked(config.genesis, now, i)
        <4>1. SUFFICES ASSUME NEW i \in o.ts
                       PROVE  Unlocked(config.genesis, now, i)
          OBVIOUS
        <4>2. /\ config.genesis \in Nat /\ i \in Tranches
              /\ o.month \in Nat /\ Unlocked(config.genesis, o.month, i)
          BY <1>2, <2>1, ConfigTypes DEF OrderGood
        <4>3. now \in Nat /\ o.month <= now
          BY <1>1, <1>2 DEF TypeOK, StillFresh
        <4>4. QED
          BY <4>2, <4>3, UnlockedLater
      <3>3. QED
        BY <1>1, <1>2, <2>1, <3>1, <3>2 DEF StillFresh, OrderGood, Claimable
    <2>5. QED
      BY <1>1, <1>3, <2>1, <2>2, <2>3, <2>4 DEF CanClaim, StillFresh
  <1>6. CASE Inline(o)
    BY <1>5, <1>6 DEF ClaimAccepted
  <1>7. CASE ~Inline(o)
    <2>1. o.known = <<record[h]>> /\ origin[h] \subseteq {pf}
      BY <1>1, <1>7 DEF StillFresh
    <2>2. b # NoBuffer /\ Filled(b, pf, NumChunks(o))
      BY <1>2, <1>7, <2>1 DEF InPlace, Own
    <2>3. NumChunks(o) = ChunksOf(n, ChunkLen)
      BY <1>2, OrderTypes
    <2>4. BufferReady(b, n) /\ StagedProof(b, n) = pf
      BY <1>4, <2>2, <2>3, FilledIsReady
    <2>5. QED
      BY <1>5, <1>7, <2>2, <2>4 DEF ClaimAccepted
  <1>8. QED
    BY <1>6, <1>7

\* Whatever the wallet, the admin, other clients and the network do meanwhile, a
\* claim that the page sent passes every check of the program, unless what the
\* order was made from has changed, the machine's clock was ahead of the chain's,
\* money is missing, or another hand was in the buffer: the page's calendar, its self-check, and staging transactions that
\* fail, expire or land late are never the reason.
THEOREM RefusalsAreExplained == PageSpec => []RefusedHasACause
  BY PageStart, PageStep, FreshIsAccepted, PTL DEF PageSpec

\* To the records, what the page does is a claim like any other, or nothing.
LEMMA PageMoves ==
    ASSUME PageInv, [PageNext]_<<vars, pageVars>>
    PROVE  RecordsMove /\ (RealMonths => RealMonths')
  <1>1. CASE UNCHANGED vars
    BY <1>1 DEF vars, RecordsMove, LeavesRecords, RealMonths
  <1>2. CASE Others
    BY <1>2, StepShape, RealMonthsStep DEF Others, PageInv
  <1>3. CASE SignOrder
    BY <1>3 DEF SignOrder, SignClaimMessage, RecordsMove, LeavesRecords, RealMonths
  <1>4. ASSUME NEW tx \in net, Execute(tx) PROVE RecordsMove /\ UNCHANGED <<now, config>>
    <2> DEFINE o == tx.order
               h == o.holder
               list == TrancheList(o)
               total == o.total
    <2>1. OrderGood(o) /\ TypeOK
      BY DEF PageInv, Sent
    <2>2. CASE InitAndWrite(o)
      BY <2>2 DEF InitAndWrite, RecordsMove, LeavesRecords
    <2>3. CASE WriteChunk(o, tx.stage)
      BY <2>3 DEF WriteChunk, WriteProofBuffer, RecordsMove, LeavesRecords
    <2>4. CASE ClaimInOne(o) \/ ClaimStaged(o)
      <3>1. h \in Holders /\ h \in Payers /\ total \in Totals /\ list \in Seq(Nat)
        BY <2>1, OrderTypes, TrancheListIsValid DEF OrderGood
      <3>2. PICK proof : SettleClaim(h, total, list, h, proof)
        BY <2>4 DEF ClaimInOne, ClaimStaged, ClaimMegadrop, ClaimMegadropFromBuffer
      <3>3. UNCHANGED <<now, config>>
        BY <3>2 DEF SettleClaim
      <3> HIDE DEF h, list, total
      <3>4. Pays(h, total, Requested(list))
        BY <2>1, <3>1, <3>2, SettlePays
      <3>5. QED
        BY <3>1, <3>3, <3>4 DEF RecordsMove
    <2>5. QED
      BY <1>4, <2>2, <2>3, <2>4 DEF Execute
  <1>5. ASSUME NEW tx \in net, Land(tx) PROVE RecordsMove /\ (RealMonths => RealMonths')
    <2>1. Execute(tx) \/ UNCHANGED vars
      BY <1>5 DEF Land
    <2>2. CASE Execute(tx)
      BY <1>4, <2>2 DEF RealMonths
    <2>3. QED
      BY <1>1, <2>1, <2>2
  <1>6. QED
    BY <1>1, <1>2, <1>3, <1>5
       DEF PageNext, Visit, ChangeWallet, AnswerHit, AnswerLate, AnswerConfig, AnswerDone,
           Toggle, SelectAll, Click, GiveUp, SendStage, Confirmed, Submit, Expire

\* What the program promises, it keeps with the page at work as well: claims made
\* by the page and by others, over buffers that both stage, pay each tranche once,
\* with the holder's signature, under the root of the moment, in its month or
\* later, and are steps of the vesting ledger.
THEOREM PageKeepsThePromises ==
    PageSpec => /\ []PaidMatchesBitmap
                /\ []ConsentedTranches
                /\ PaidUnderCurrentRoot
                /\ NothingEarly
                /\ VestingSpec
  <1> DEFINE Inv == PageInv /\ RealMonths /\ PaidMatchesBitmap /\ ConsentedTranches
  <1>1. PageInit => Inv
    BY PageStart, RealMonthsInit DEF PageInit, Init, PaidMatchesBitmap, ConsentedTranches, Recorded
  <1>2. Inv /\ [PageNext]_<<vars, pageVars>> => Inv'
    BY PageStep, PageMoves, PaidStep, ConsentStep DEF PageInv
  <1>3. Inv /\ [PageNext]_<<vars, pageVars>> =>
          [\A h \in Holders :
             record'[h] # record[h] =>
               /\ h \in DOMAIN Leaf[config.root]
               /\ record'[h].total = Leaf[config.root][h]]_vars
    BY PageMoves, RootStep DEF PageInv
  <1>4. Inv /\ [PageNext]_<<vars, pageVars>> =>
          [\A h \in Holders : \A i \in Taken(h)' \ Taken(h) :
             MonthIndex(now) - MonthIndex(config.genesis) >= i - 1]_vars
    BY PageMoves, MonthStep DEF PageInv
  <1>5. Inv /\ [PageNext]_<<vars, pageVars>> => [Vesting!VestNext]_(Vesting!vestVars)
    BY PageMoves, VestingStep DEF PageInv
  <1>6. PageInit => Vesting!VestInit
    BY DEF PageInit, Init, Vesting!VestInit, Taken
  <1>7. Inv => PaidMatchesBitmap /\ ConsentedTranches
    OBVIOUS
  <1> HIDE DEF Inv
  <1>8. QED
    BY <1>1, <1>2, <1>3, <1>4, <1>5, <1>6, <1>7, PTL
       DEF PageSpec, PaidUnderCurrentRoot, NothingEarly, VestingSpec, Vesting!VestSpec
=============================================================================
