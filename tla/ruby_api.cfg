\* Options, handler classes, timers, and deques as their owner and, from the
\* front, their readers see them.
SPECIFICATION Spec
CONSTANTS
    Parts = {"configuration", "classes", "timers", "deques"}
    Settings <- MCSettings
    WellFormed = {"fine"}
    MaxPort = 3
    MaxU32 = 5
    MaxSeconds = 4
    Ceiling = 4
    Lease = {4, 5, 6}
    Reporting = {1, 2, 3, 4}
    Levels = 2
    Rescued <- MCRescued
    Parameters <- MCParameters
    MaxDeclarations = 2
    Unit = 4
    Half = 2
    LastSecond = 2
    Given <- MCGiven
    MaxElements = 3
    OwnedIndexes <- MCOwned
    ReadIndexes <- MCDirect
INVARIANTS
    RefusesInconvertible
    SettingsReachCore
    AcceptedHandlersRun
    DeclaredVerdict
    TimersNearest
    AnsweredAsOfSomeMoment
CHECK_DEADLOCK FALSE
