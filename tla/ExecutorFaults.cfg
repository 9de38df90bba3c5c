SPECIFICATION FairSpec
CONSTANTS
    Flows <- ShorterFlows
    MaxAttempts = 2
    MaxRetries = 1
    Faults = {"redeliver", "kill", "resolve"}
PROPERTIES
    SavedStepsAreReused
    JobsEnd
CHECK_DEADLOCK FALSE
