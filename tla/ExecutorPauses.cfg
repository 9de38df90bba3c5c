SPECIFICATION Spec
CONSTANTS
    Flows <- AllFlows
    MaxAttempts = 2
    MaxRetries = 2
    Faults = {}
INVARIANTS
    TypeOK
    PayloadIsReadOnce
    AwaitsOneStep
    OneRoute
PROPERTIES
    SucceedsOnce
    CalledInOrder
CHECK_DEADLOCK FALSE
