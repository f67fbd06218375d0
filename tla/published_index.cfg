\* A reader that counts from the end of a published deque.
SPECIFICATION Spec
CONSTANTS
    Parts = {"deques"}
    Settings <- MCNoSettings
    WellFormed = {}
    MaxPort = 0
    MaxU32 = 0
    MaxSeconds = 0
    Ceiling = 0
    Lease = {}
    Reporting = {}
    Levels = 1
    Rescued = {}
    Parameters = {}
    MaxDeclarations = 0
    Unit = 2
    Half = 1
    LastSecond = 0
    Given = {}
    MaxElements = 3
    OwnedIndexes = {}
    ReadIndexes <- MCFromTheEnd
INVARIANTS
    AnsweredAsOfSomeMoment
CHECK_DEADLOCK FALSE
