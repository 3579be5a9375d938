SPECIFICATION Spec
CONSTANTS
    alice = alice
    bob = bob
    relay = relay
    vault = vault
    tokenProgram = tokenProgram
    SystemProgramId = SystemProgramId
    sLeft = sLeft
    sRight = sRight
    sTop = sTop
    MaxU64 = 1000
    Wallets = {alice, bob, relay, vault}
    Claimants = {alice, bob}
    Payers = {bob, relay}
    Leaf <- McLeaf
    Path <- McPath
    Siblings = {sLeft, sRight, sTop}
    Blank = Blank
    GenesisTreasury <- McTreasury
    GenesisWallet <- McGenesisWallet
    MarkerRent = 1
    Rent <- McRent
    NoMarker = NoMarker
    NoBuffer = NoBuffer
    LazyClaimId = LazyClaimId
    Owners = {LazyClaimId, tokenProgram}
    Amounts = {1, 2}
    BufferLens = {1, 2}
    WriteChunks <- McChunks
    DrainAmounts = {2}
    DrainTo = {vault}
    FeePayers = {relay}
    FeeAmounts = {1}
    MaxBuffers = 2
INVARIANTS
    PaidOnceForLeaf
    ClaimedWithConsent
    TreasuryAccounted
    LamportsConserved
PROPERTIES
    HandoffFreezesClaims
    LedgerSpec
CHECK_DEADLOCK FALSE
