SPECIFICATION FairSpec
CONSTANTS
    NSteps = 3
    Links = {}
    Delays = {3}
    MaxSignals = 1
    MaxFlushes = 1
    Events = {"cancel"}
INVARIANTS
    NoReportIsLost
PROPERTIES
    RunCompletes
    CanceledRunIsNotResumed
    ResumeFindsPausedStep
CHECK_DEADLOCK FALSE
