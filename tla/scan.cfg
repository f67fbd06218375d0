\* Every hash of up to three keywords over a collection of four.
SPECIFICATION Spec
CONSTANTS
    Live <- MCLive
    Prefixed <- MCPrefixed
    Inputs <- MCInputs
    MaxUsize = 5
    Chunk = 2
INVARIANTS
    TypeOK
    YieldsPromised
    PagesCover
    ClosedOnce
PROPERTIES
    CursorCloses
