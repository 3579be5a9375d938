SPECIFICATION PageSpec
CONSTANTS
    alice = alice
    bob = bob
    carol = carol
    relay = relay
    friend = friend
    s1 = s1
    s2 = s2
    s3 = s3
    r1 = r1
    r2 = r2
    Nobody = Nobody
    Requests = {r1, r2}
    Visits <- McVisits
    Sponsor = relay
    LowBalance = 6
    InlineLowBalance = 2
    InlineMax = 1
    ChunkLen = 2
    MaxForeign = 2
    Wallets = {alice, bob, carol, relay, friend}
    Claimants = {alice, bob, carol}
    Payers = {relay, friend}
    Leaf <- McLeaf
    Path <- McPath
    Siblings = {s1, s2, s3}
    Blank = Blank
    GenesisTreasury = 4
    GenesisWallet <- McGenesisWallet
    MarkerRent = 1
    Rent <- McRent
    NoMarker = NoMarker
    NoBuffer = NoBuffer
    LazyClaimId = LazyClaimId
    Owners = {LazyClaimId}
    Amounts = {1, 2}
    BufferLens = {3}
    WriteChunks <- McChunks
    DrainAmounts = {}
    DrainTo = {}
    FeePayers = {}
    FeeAmounts = {}
    MaxBuffers = 1
INVARIANTS
    StagedBeforeClaim
    AnswersAreTrue
PROPERTIES
    EveryRequestAnswered
CHECK_DEADLOCK FALSE
