SPECIFICATION PageSpec
CONSTANTS
    alice = alice
    bob = bob
    admin = admin
    root1 = root1
    root2 = root2
    pda = pda
    other = other
    sLeft = sLeft
    sRight = sRight
    Wallets = {alice, bob, admin}
    Holders = {alice, bob}
    Payers = {alice, bob}
    Admin = admin
    NumTranches = 3
    Roots = {root1, root2}
    Leaf <- McLeaf
    Path <- McPath
    Siblings = {sLeft, sRight}
    Blank = Blank
    BufferLens = {2}
    NoBuffer = NoBuffer
    Treasuries = {pda, other}
    OwnTreasuries = {pda}
    GenesisTreasury <- McTreasury
    GenesisWallet <- McWallet
    ConfigRent = 1
    RecordRent = 1
    Rent <- McRent
    NoConfig = NoConfig
    NoRecord = NoRecord
    GenesisMonths = {202612, 202701, 202613}
    FirstMonth = 202612
    LastMonth = 202702
    Totals = {3, 7, 10}
    Requests <- McRequests
    WriteChunks <- McChunks
    Users = {alice, bob}
    Nobody = Nobody
    BrowserMonths = {202701}
    Unlimited = Unlimited
    InlineMax = 0
    ChunkLen = 1
    Budgets <- McBudgets
    MaxSigned = 2
    MaxBuffers = 1
INVARIANTS
    PaidMatchesBitmap
    ConsentedTranches
    RefusedHasACause
PROPERTIES
    NothingEarly
    PaidUnderCurrentRoot
    VestingSpec
CHECK_DEADLOCK FALSE
