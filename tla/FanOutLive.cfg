SPECIFICATION FairSpec
CONSTANTS
    Dispatchers = {d1}
    NSignals = 3
    ChunkSize = 2
    MaxClaims = 2
    MaxAttempts = 2
    FaultKinds = {"repeat"}
    LoneFaults = {}
    FaultBudget = 1
INVARIANTS
    NoSignalLeftUnclaimed
    NoClaimWithoutChild
    UnstartedChildIsCanceled
PROPERTIES
    BarrierEventuallyCloses
CHECK_DEADLOCK FALSE
