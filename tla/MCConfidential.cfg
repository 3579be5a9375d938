SPECIFICATION ConfidentialSpec
CONSTANTS
    o1 = o1  o2 = o2  s1 = s1
    Buttons = {o1, o2}
    Sends = {s1}
    Amounts = {1, 2}
    Funds = 1
    Held = {0, 1}
    MaxCredits = 1
SYMMETRY Symmetric
INVARIANTS
    DriftHasACause
    PaidTwiceOnlyIfLost
    RentLeftHasACause
CHECK_DEADLOCK FALSE
