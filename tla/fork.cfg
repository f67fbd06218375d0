\* A parent that forks once, at any time.
SPECIFICATION Spec
CONSTANTS
    Process <- MCProcess
    First = "parent"
    None = None
INVARIANTS
    TypeOK
    GuardedAnswered
