SPECIFICATION AllFairSpec
CONSTANTS
    r1 = r1
    w1 = w1
    s1 = s1
    Runs <- MCRuns
    Calls = {r1}
    Waits = {w1}
    Sends = {s1}
    MaxEvents = 2
    Limit = 2
    BatchSize = 2
    MayPanic = TRUE
INVARIANTS
    TypeOK
    RunTruthful
    LinesInOrder
    LinesAheadBounded
    LineOnce
    OneOwner
PROPERTIES
    ImplementsCommandQueue
    RunAnswered
    WaitAnswered
    LinesWritten
    DroppedReleased
CHECK_DEADLOCK FALSE
