SPECIFICATION CaptureSpec
CONSTANTS
    MaxMounts = 2
    MaxRequests = 5
    MaxFrames = 5
    VAD_HANGOVER = 2
    VAD_PREROLL_FRAMES = 2
CHECK_DEADLOCK FALSE
INVARIANTS
    DevicesReleased
