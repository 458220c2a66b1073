SPECIFICATION Spec
CONSTANTS
    Events <- MCEvents
    Kinds <- MCKinds
    MaxUntil = 2
    MaxFollowups = 2
INVARIANTS
    TraceOrdered
    PendingAhead
    ExactlyOnce
PROPERTIES
    RunReachesStop
