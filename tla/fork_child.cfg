\* The child makes its own client.
SPECIFICATION Spec
CONSTANTS
    Process <- MCProcess
    First = "parent"
    None = None
INVARIANTS
    OwnObjectsAnswered
