SPECIFICATION Spec
CONSTANTS
    a1 = a1
    a2 = a2
    b1 = b1
    i1 = i1
    Tasks = {a1, a2, i1}
    Key <- MCKey
    Replying = {a1}
    Internal = {i1}
    Faults = {"capture", "fatal", "bridge"}
INVARIANTS
    TypeOK
    ResultTruthful
    KeyExclusive
    NoSpuriousStop
    GracefulShutdown
PROPERTIES
    FirstResultWins
    ImplementsContract
