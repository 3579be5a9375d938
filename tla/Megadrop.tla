------------------------------ MODULE Megadrop ------------------------------
(***************************************************************************)
(* The megadrop program (programs/megadrop): an allocation per holder,     *)
(* committed to by a Merkle root, that vests in monthly tranches; claims   *)
(* inline or from a staged proof buffer; and the admin's updates of the    *)
(* root, the first month and the treasury while claims go on.              *)
(*                                                                         *)
(* As in LazyClaim an instruction is one atomic action and SHA-256 is      *)
(* injective.  A bitmap is the set of its tranche numbers, and the signed  *)
(* tranche list, sorted and free of duplicates, is the set it lists.  The  *)
(* config's total_allocation_lamports, which no instruction reads, is      *)
(* left out.                                                               *)
(***************************************************************************)
EXTENDS Calendar, ProofBuffer, FiniteSets, FiniteSetsExt, Functions

CONSTANTS
    Wallets,         \* system accounts
    Holders,         \* pubkeys that may have a leaf
    Payers,          \* accounts that sign as relayer and fee payer
    Admin,           \* ADMIN_AUTHORITY
    NumTranches,     \* NUM_TRANCHES
    Roots,           \* Merkle roots the admin may install
    Leaf,            \* Leaf[r]: total allocation of each holder under root r
    Path,            \* Path[r]: inclusion proof of each of these leaves
    Treasuries,      \* accounts the config may name as treasury
    OwnTreasuries,   \* those that this program owns
    GenesisTreasury, \* lamports of each of them
    GenesisWallet,   \* lamports of each wallet
    ConfigRent, RecordRent, \* rent-exempt minimum of the two Anchor accounts
    Rent,            \* Rent[n]: rent-exempt minimum of a buffer of n siblings
    NoConfig,        \* the config PDA does not exist
    NoRecord,        \* a claimed_megadrop PDA does not exist
    GenesisMonths,   \* yyyymm values the admin may pass
    FirstMonth,      \* the month the model starts in
    LastMonth,       \* bound: the clock stops here
    Totals,          \* allocations a holder may sign for
    Requests,        \* tranche lists a claim may carry
    WriteChunks,     \* the byte strings a write may carry
    MaxSigned,       \* bound: messages signed
    MaxBuffers       \* bound: buffers open at the same time

Tranches == 1..NumTranches

ASSUME WalletAssumption ==
    /\ Holders \subseteq Wallets
    /\ Payers \subseteq Wallets
    /\ Admin \in Wallets
ASSUME TrancheAssumption == NumTranches \in Nat \ {0}
ASSUME TotalAssumption == Totals \subseteq Nat
ASSUME RequestAssumption == Requests \subseteq Seq(Nat)
ASSUME ChunkAssumption == WriteChunks \subseteq Seq(Siblings)
ASSUME RentAssumption ==
    /\ ConfigRent \in Nat
    /\ RecordRent \in Nat
    /\ Rent \in [BufferLens -> Nat]
ASSUME GenesisAssumption ==
    /\ OwnTreasuries \subseteq Treasuries
    /\ GenesisTreasury \in [Treasuries -> Nat]
    /\ GenesisWallet \in [Wallets -> Nat]
ASSUME MonthAssumption ==
    /\ GenesisMonths \subseteq Nat
    /\ FirstMonth \in Nat /\ (FirstMonth % 100) \in 1..12
    /\ LastMonth \in Nat

VARIABLES
    now,             \* yyyymm of the Clock sysvar
    config,          \* the MegadropConfig singleton
    record,          \* record[h]: the ClaimedMegadrop account of h
    treasury,        \* treasury[t]: its lamports
    wallet,          \* wallet[w]: its lamports
    buffer,          \* buffer[<<h, y>>]: the proof buffer payer y staged for h
    signed,          \* <<h, total, ts>>: h signed for these tranches
    paid             \* history: lamports claims have credited to h

vars == <<now, config, record, treasury, wallet, buffer, signed, paid>>

Keys == Holders \X Payers

Records == [total : Nat, claimed : SUBSET Tranches, lamports : Nat]

Configs == [root : Roots, genesis : GenesisMonths, treasury : Treasuries]

ASSUME AbsenceAssumption ==
    /\ NoRecord \notin Records
    /\ NoRecord \notin Nat
    /\ NoConfig \notin Configs

-----------------------------------------------------------------------------
(* megadrop.rs: the rules of vesting.                                      *)

\* is_tranche_unlocked
Unlocked(genesis, month, i) == month >= AddMonths(genesis, i - 1)

TrancheAmount(total) == total \div NumTranches

ClaimAmount(total, ts) == TrancheAmount(total) * Cardinality(ts)

\* validate_and_pack_tranches: not empty, in range, no duplicate.
ValidRequest(req) ==
    /\ req # <<>>
    /\ \A k \in 1..Len(req) : req[k] \in Tranches
    /\ IsInjective(req)

Requested(req) == {req[k] : k \in 1..Len(req)}

Recorded == {h \in Holders : record[h] # NoRecord}
Taken(h) == IF record[h] = NoRecord THEN {} ELSE record[h].claimed
OpenBuffers == {k \in Keys : buffer[k] # NoBuffer}

-----------------------------------------------------------------------------
Init ==
    /\ now = FirstMonth
    /\ config = NoConfig
    /\ record = [h \in Holders |-> NoRecord]
    /\ treasury = GenesisTreasury
    /\ wallet = GenesisWallet
    /\ buffer = [k \in Keys |-> NoBuffer]
    /\ signed = {}
    /\ paid = [h \in Holders |-> 0]

\* The Clock sysvar passes into the next month.
NextMonth ==
    /\ now < LastMonth
    /\ now' = IF now % 100 = 12 THEN now + 89 ELSE now + 1
    /\ UNCHANGED <<config, record, treasury, wallet, buffer, signed, paid>>

SignClaimMessage(h, total, ts) ==
    /\ Cardinality(signed) < MaxSigned
    /\ signed' = signed \cup {<<h, total, ts>>}
    /\ UNCHANGED <<now, config, record, treasury, wallet, buffer, paid>>

\* Signed by ADMIN_AUTHORITY, which pays the rent.
InitMegadrop(r, month, t) ==
    /\ config = NoConfig
    /\ PlausibleMonth(month)
    /\ ConfigRent <= wallet[Admin]
    /\ config' = [root |-> r, genesis |-> month, treasury |-> t]
    /\ wallet' = [wallet EXCEPT ![Admin] = @ - ConfigRent]
    /\ UNCHANGED <<now, record, treasury, buffer, signed, paid>>

\* Signed by ADMIN_AUTHORITY.  A field left out of the arguments is one that
\* is given its old value.
UpdateMegadrop(r, month, t) ==
    /\ config # NoConfig
    /\ PlausibleMonth(month)
    /\ config' = [root |-> r, genesis |-> month, treasury |-> t]
    /\ UNCHANGED <<now, record, treasury, wallet, buffer, signed, paid>>

\* Mutant: the leaf hash does not cover the allocation.
InclusionOfHolder(h, total, proof) ==
    h \in DOMAIN Leaf[config.root] /\ proof = Path[config.root][h]

VerifyInclusion(h, total, proof) ==
    /\ h \in DOMAIN Leaf[config.root]
    /\ total = Leaf[config.root][h]
    /\ proof = Path[config.root][h]

\* Mutant: the bitmap is not read.
ClaimableAgain(h, total, ts) ==
    /\ \A i \in ts : Unlocked(config.genesis, now, i)
    /\ record[h] # NoRecord => record[h].total = total

\* Mutant: the allocation is not compared with that of the first claim.
ClaimableAtAnyTotal(h, total, ts) ==
    /\ \A i \in ts : Unlocked(config.genesis, now, i)
    /\ ts \cap Taken(h) = {}

\* Each tranche is unlocked and not yet claimed, and the allocation is that
\* of the first claim.
Claimable(h, total, ts) ==
    /\ \A i \in ts : Unlocked(config.genesis, now, i)
    /\ ts \cap Taken(h) = {}
    /\ record[h] # NoRecord => record[h].total = total

\* Mutant: any signature of the holder will do.
ConsentOfHolder(h, total, ts) == \E s \in signed : s[1] = h

\* The ed25519 precompile signed the holder, the allocation and the tranches.
Consented(h, total, ts) == <<h, total, ts>> \in signed

\* The balance check, and the runtime's rule that only the owner debits.
TreasuryCovers(amount) ==
    /\ amount > 0 => config.treasury \in OwnTreasuries
    /\ amount <= treasury[config.treasury]

\* init_if_needed: the relayer pays for the record on the first claim.
RecordCost(h) == IF record[h] = NoRecord THEN RecordRent ELSE 0

CanClaim(h, total, req, payer, proof) ==
    /\ config # NoConfig
    /\ ValidRequest(req)
    /\ VerifyInclusion(h, total, proof)
    /\ Consented(h, total, Requested(req))
    /\ Claimable(h, total, Requested(req))
    /\ TreasuryCovers(ClaimAmount(total, Requested(req)))
    /\ RecordCost(h) <= wallet[payer]

\* Rent for the record first, then the credit to the holder.
Settled(h, amount, payer) ==
    [[wallet EXCEPT ![payer] = @ - RecordCost(h)] EXCEPT ![h] = @ + amount]

\* What claim_megadrop and claim_megadrop_from_buffer have in common.
SettleClaim(h, total, req, payer, proof) ==
    LET amount == ClaimAmount(total, Requested(req))
        before == IF record[h] = NoRecord THEN 0 ELSE record[h].lamports
    IN  /\ CanClaim(h, total, req, payer, proof)
        /\ record' = [record EXCEPT ![h] =
                        [total    |-> total,
                         claimed  |-> Taken(h) \cup Requested(req),
                         lamports |-> before + amount]]
        /\ treasury' = [treasury EXCEPT ![config.treasury] = @ - amount]
        /\ paid' = [paid EXCEPT ![h] = @ + amount]
        /\ UNCHANGED <<now, config, signed>>

ClaimMegadrop(h, total, req, payer, proof) ==
    /\ SettleClaim(h, total, req, payer, proof)
    /\ wallet' = Settled(h, ClaimAmount(total, Requested(req)), payer)
    /\ UNCHANGED buffer

InitProofBuffer(h, payer, n) ==
    /\ Cardinality(OpenBuffers) < MaxBuffers
    /\ buffer[<<h, payer>>] = NoBuffer
    /\ Rent[n] <= wallet[payer]
    /\ buffer' = [buffer EXCEPT ![<<h, payer>>] = NewBuffer(n)]
    /\ wallet' = [wallet EXCEPT ![payer] = @ - Rent[n]]
    /\ UNCHANGED <<now, config, record, treasury, signed, paid>>

\* No signer is required.
WriteProofBuffer(h, payer, off, bytes) ==
    /\ buffer[<<h, payer>>] # NoBuffer
    /\ off + Len(bytes) <= buffer[<<h, payer>>].total_len
    /\ buffer' = [buffer EXCEPT ![<<h, payer>>] = WriteInto(@, off, bytes)]
    /\ UNCHANGED <<now, config, record, treasury, wallet, signed, paid>>

\* The buffer is closed and its rent goes to the relayer.
ClaimMegadropFromBuffer(h, total, req, payer, proofLen) ==
    LET b == buffer[<<h, payer>>]
    IN  /\ b # NoBuffer
        /\ BufferReady(b, proofLen)
        /\ SettleClaim(h, total, req, payer, StagedProof(b, proofLen))
        /\ buffer' = [buffer EXCEPT ![<<h, payer>>] = NoBuffer]
        /\ wallet' = [Settled(h, ClaimAmount(total, Requested(req)), payer)
                        EXCEPT ![payer] = @ + Rent[b.total_len]]

Sign ==
    \E h \in Holders, total \in Totals, req \in Requests :
        ValidRequest(req) /\ SignClaimMessage(h, total, Requested(req))

Configure ==
    \E r \in Roots, month \in GenesisMonths, t \in Treasuries :
        InitMegadrop(r, month, t) \/ UpdateMegadrop(r, month, t)

ClaimInline ==
    \E h \in Holders, total \in Totals, req \in Requests, payer \in Payers :
        /\ config # NoConfig
        /\ \E q \in DOMAIN Path[config.root] :
               ClaimMegadrop(h, total, req, payer, Path[config.root][q])

ClaimBuffered ==
    \E h \in Holders, total \in Totals, req \in Requests, payer \in Payers, n \in BufferLens :
        ClaimMegadropFromBuffer(h, total, req, payer, n)

StageBuffer ==
    \E h \in Holders, payer \in Payers :
        \/ \E n \in BufferLens : InitProofBuffer(h, payer, n)
        \/ \E off \in BufferLens \cup {0}, bytes \in WriteChunks :
               WriteProofBuffer(h, payer, off, bytes)

Next == NextMonth \/ Sign \/ Configure \/ ClaimInline \/ ClaimBuffered \/ StageBuffer

Spec == Init /\ [][Next]_vars

-----------------------------------------------------------------------------
(* Properties *)

TypeOK ==
    /\ now \in Nat
    /\ config \in Configs \cup {NoConfig}
    /\ record \in [Holders -> Records \cup {NoRecord}]
    /\ treasury \in [Treasuries -> Nat]
    /\ wallet \in [Wallets -> Nat]
    /\ buffer \in [Keys -> Buffers \cup {NoBuffer}]
    /\ signed \subseteq Holders \X Totals \X SUBSET Tranches
    /\ paid \in [Holders -> Nat]

\* total_claimed_lamports is popcount(tranches_claimed) x (total / 10), and
\* that is what the holder was paid: no tranche pays twice, whatever lists the
\* claims carried and whatever the admin changed in between (state.rs).
PaidMatchesBitmap ==
    \A h \in Holders :
        IF record[h] = NoRecord
        THEN paid[h] = 0
        ELSE /\ paid[h] = record[h].lamports
             /\ paid[h] = Cardinality(record[h].claimed) * TrancheAmount(record[h].total)

\* A tranche is recorded only if its holder signed a list with it, for the
\* allocation on record: a relayer cannot claim what it was not asked to.
ConsentedTranches ==
    \A h \in Recorded : \A i \in record[h].claimed :
        \E s \in signed : s[1] = h /\ s[2] = record[h].total /\ i \in s[3]

MonthIndex(ym) == (ym \div 100) * 12 + (ym % 100)

\* Tranche i is recorded no earlier than i - 1 calendar months after the first
\* month of the config it is claimed under, across the turn of the year.
NothingEarly ==
    [][\A h \in Holders : \A i \in Taken(h)' \ Taken(h) :
         MonthIndex(now) - MonthIndex(config.genesis) >= i - 1]_vars

\* A claim settles only what the root of that moment commits to: after a
\* rotation neither an old proof nor an old allocation is worth anything.
PaidUnderCurrentRoot ==
    [][\A h \in Holders :
         record'[h] # record[h] =>
            /\ h \in DOMAIN Leaf[config.root]
            /\ record'[h].total = Leaf[config.root][h]]_vars

\* The program implements the vesting ledger: each tranche once, at one rate.
Vesting == INSTANCE VestingLedger
    WITH taken <- [h \in Holders |-> Taken(h)],
         rate <- [h \in Holders |-> IF record[h] = NoRecord THEN NoRecord
                                    ELSE TrancheAmount(record[h].total)],
         received <- paid, NoRate <- NoRecord,
         Rates <- {TrancheAmount(total) : total \in Totals}
VestingSpec == Vesting!VestSpec

\* "They never lose unclaimed tranches": a holder with a leaf who signs for
\* unlocked tranches it has not taken can claim them, given funds and rent.
NeverLoseTranches ==
    config # NoConfig =>
        \A h \in DOMAIN Leaf[config.root], req \in Requests, payer \in Payers :
            LET total == Leaf[config.root][h]
                ts == Requested(req)
            IN  /\ ValidRequest(req)
                /\ ts \cap Taken(h) = {}
                /\ \A i \in ts : Unlocked(config.genesis, now, i)
                /\ Consented(h, total, ts)
                /\ TreasuryCovers(ClaimAmount(total, ts))
                /\ RecordCost(h) <= wallet[payer]
                => CanClaim(h, total, req, payer, Path[config.root][h])
=============================================================================
