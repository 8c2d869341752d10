SPECIFICATION Spec
CONSTANTS
    Call = {c1, c2}
    Identity = {i1, i2}
    Listed = {i1}
    MaxTokens = 3
    MaxFaults = 1
    MaxLaunches = 2
    MaxCalls = 4
SYMMETRY MCSymmetry
CHECK_DEADLOCK FALSE
INVARIANTS
    NothingLeftBehind
    StoredTokenIsGood
    StoredWhileSignedIn
    FlagIsDecided
