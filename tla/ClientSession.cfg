SPECIFICATION FairSpec
CONSTANTS
    MaxSockets = 2
    MaxAttempts = 2
    MaxInterviews = 2
    MaxCommands = 1
    MaxBypassed = 3
    MaxFaults = 2
CHECK_DEADLOCK FALSE
INVARIANTS
    HandshakeInOrder
    OneConnection
    NeverStranded
    NeverAutoUnasked
PROPERTIES
    InterviewResumes
