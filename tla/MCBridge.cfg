SPECIFICATION BridgeSpec
CONSTANTS
    t1 = t1  t2 = t2  w1 = w1  w2 = w2  b1 = b1  b2 = b2  b3 = b3
    Tabs = {t1, t2}
    Wallets = {w1, w2}
    Assets = {"staccana", "ssUsdc"}
    PageAsset = "staccana"
    MintProgram = "token22"
    Orders = {b1, b2, b3}
    Cap = 2
    NoWrite = NoWrite
    Window = 1
    Budgets <- McBudgets
INVARIANTS
    DepositsFromOwnAccounts
    UntrackedHasACause
    MarkedWasReleased
PROPERTIES
    ReleasedIsNoticed
CHECK_DEADLOCK FALSE
