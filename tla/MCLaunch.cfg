SPECIFICATION LaunchSpec
CONSTANTS
    VirtualSol = 3
    VirtualTokens = 25
    GraduationThreshold = 7
    FeeBps = 1
    BpsDenom = 4
    MaxU64 = 27
    SolInputs = {0, 4}
    TokenInputs = {4}
    MinOuts = {}
    Gifts = {}
    MaxGift = 0
    MaxOutside = 0
    u1 = u1  u2 = u2  t1 = t1  t2 = t2  treasuryAccount = treasuryAccount
    Users = {u1, u2}
    Panels = {t1, t2}
    Opened <- McOpened
    PageTreasury = treasuryAccount
    CurveTreasury = treasuryAccount
    Creator = u1
    Slips = {1}
    SlipDenom = 2
    MaxDeposit = 9
    TxFee = 1
    AtaRent = 2
    LaunchRent = 4
    SeedRent = 2
    Fetched = 2
    MaxOrders = 3
    Budgets <- McBudgets
    Nothing = Nothing
INVARIANTS
    ExtrasAreCovered
    UnconfiguredHasACause
    RowsNearlyExact
PROPERTIES
    TableCatchesUp
CHECK_DEADLOCK FALSE
