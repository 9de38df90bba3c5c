SPECIFICATION Spec
CONSTANTS
    Flows <- LoopOnly
    MaxAttempts = 2
    MaxRetries = 0
    Faults = {"redeliver"}
PROPERTIES
    FinishedStepsAreReused
CHECK_DEADLOCK FALSE
