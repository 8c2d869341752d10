SPECIFICATION FairSpec
CONSTANTS
    MaxFrames = 5
    FrameTenths = 17
    MeterAt = 3
    Configured = {Unset, 0, 99}
    Unset = Unset
    MaxReconnectAttempts = 2
    PreopenBufferCap = 2
    MaxRequests = 2
CHECK_DEADLOCK FALSE
INVARIANTS
    SpeechPreserved
    EveryFrameMetered
    NeverDead
    KeptUntilTranscribed
PROPERTIES
    RelayRecovers
