SPECIFICATION AlgorithmsSpec
CONSTANTS
    ShardWidth = 2
    Unit = 3
    TokenUnit = 2
    LastDay = 158000
    MaxAdded = 9
    Policies <- McPolicies
    Holdings <- McHoldings
    MaxHolders = 5
    MaxNodes = 3
    MaxProof = 2
    IntentKinds <- McKinds
    Amms <- McAmms
    MaxBatch = 4
    MaxText = 5
    Nonces = {0, 1}
    Radix = 3
    PayloadChars = 2
    PayloadBits = 4  LenBits = 2  SequenceBits = 1  VersionBits = 1
    Checksum <- McChecksum
    ChecksumBits = 1
    HalfBits = 5
    Rounds = 3
    RoundFunction <- McRoundFunction
    Refused = Refused
    One = 2
    Quotes = {1}
    Agents = {a1, a2}
    a1 = a1  a2 = a2
    FaucetArgs <- McFaucetArgs
    ClaimAmounts = {0, 1, 2}
    MaxU64 = 3
    LastSlot = 4
    NoConfig = NoConfig
    NoRecord = NoRecord
INVARIANTS
    CalendarMatchesWalk
    LookupsVerify
    OnlyBuiltProofsVerify
    AllocationsAddUp
    ClearsFairly
    ReplayInvariant
    QuotaHolds
    OnlyWholeTextsDecode
CHECK_DEADLOCK FALSE
