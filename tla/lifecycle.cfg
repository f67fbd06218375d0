\* Three calls of any kind: two subscribes against a shutdown, two shutdowns
\* against a subscribe, and the rest.
SPECIFICATION Spec
CONSTANTS
    Call <- MCCall
    Initial <- MCInitial
    None = None
INVARIANTS
    TypeOK
    SubscriptionServed
    OneShutdown
PROPERTIES
    AbandonedStops
    ShutdownCompletes
    CallsReturn
