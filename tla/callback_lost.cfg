SPECIFICATION Spec
CONSTANTS
    a1 = a1
    a2 = a2
    b1 = b1
    i1 = i1
    Tasks = {a1}
    Key <- MCKey
    Replying = {}
    Internal = {}
    Faults = {"capture"}
INVARIANTS
    CompletedTaskReported
