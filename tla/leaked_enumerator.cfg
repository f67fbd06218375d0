\* An Enumerator kept by the handler and used after it.
SPECIFICATION Spec
CONSTANTS
    Live <- MCLive
    Prefixed <- MCPrefixed
    Inputs <- MCInputs
    MaxUsize = 5
    Chunk = 2
PROPERTIES
    LeakedRaises
