SPECIFICATION Spec
CONSTANTS
    Question = {q1, q2, Screenshot}
    NoQuestion = NoQuestion
    Screenshot = Screenshot
    MaxTurns = 2
    MaxGenerations = 3
SYMMETRY MCSymmetry
CHECK_DEADLOCK FALSE
INVARIANTS
    TranscriptHoldsAnswers
    MemoryIsOfShownAnswers
    PendingIsWaiting
