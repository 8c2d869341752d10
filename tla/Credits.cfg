SPECIFICATION CreditsSpec
CONSTANTS
    Account = {a1, a2}
    Session = {s1}
    Call = {k1, k2, k3}
    NoSession = NoSession
    NoRow = NoRow
    Unbilled = Unbilled
    SttRate = 2
    LlmRate = 1
    Opening <- MCOpening
    Delta <- MCSttDelta
    Trigger = {"user-ended", "disconnected"}
    MaxUnits = 1
    MaxFaults = 1
SYMMETRY MCSymmetry
CHECK_DEADLOCK FALSE
INVARIANTS
    CreditsTypeOK
    SettledExactlyOnce
    ReportedIsCharged
    NeverOvercharged
PROPERTIES
    FirstReasonWins
    OnlySettlementMovesBalance
    LedgerAppendOnly
    ImplementsSettlement
