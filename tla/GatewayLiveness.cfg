SPECIFICATION FairGatewaySpec
CONSTANTS
    Account = {a1}
    Session = {s1, s2}
    Call = {k1, k2}
    Conn = {c1}
    NoSession = NoSession
    NoRow = NoRow
    NoConn = NoConn
    NoAccount = NoAccount
    SttRate = 1
    LlmRate = 1
    Opening <- MCOpening
    Delta <- MCDelta
    Trigger = {"user-ended", "credits-exhausted", "disconnected"}
    TokenOf <- MCTokenOf
    ModeOf <- MCModeOf
    MeterAt = 2
    MaxMessages = 3
    MaxAudio = 3
    MaxUnits = 9
    MaxFaults = 0
CHECK_DEADLOCK FALSE
PROPERTIES
    ClosedSessionsEnd
    ExhaustedSessionsEnd
