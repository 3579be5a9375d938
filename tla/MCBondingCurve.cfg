SPECIFICATION Spec
CONSTANTS
    VirtualSol = 3
    VirtualTokens = 25
    GraduationThreshold = 7
    FeeBps = 1
    BpsDenom = 4
    MaxU64 = 27
    SolInputs <- McSolInputs
    TokenInputs <- McTokenInputs
    MinOuts = {0, 3}
    Gifts = {1}
    MaxGift = 1
    MaxOutside = 2
INVARIANTS
    DriftNeverAddsUp
    QuotesNeverBreak
    ReservesBacked
    EveryTokenSellable
    HoldersCanLeave
    RoundTripNeverProfits
CHECK_DEADLOCK FALSE
