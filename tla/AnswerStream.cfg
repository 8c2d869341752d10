SPECIFICATION StreamSpec
CONSTANTS
    Question = {q1, Screenshot}
    NoQuestion = NoQuestion
    Screenshot = Screenshot
    MaxTurns = 2
    MaxGenerations = 2
    Request <- Generation
    Config <- MCConfig
    MaxChunks = 1
    MaxCommands = 3
CHECK_DEADLOCK FALSE
INVARIANTS
    CardShowsOneAnswer
    WaitsForAnAnswer
