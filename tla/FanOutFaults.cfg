SPECIFICATION Spec
CONSTANTS
    Dispatchers = {d1, d2}
    NSignals = 2
    ChunkSize = 1
    MaxClaims = 2
    MaxAttempts = 2
    FaultKinds = {"stall", "crash", "abort", "cancel", "outage"}
    LoneFaults = {"cancel", "stall"}
    FaultBudget = 2
INVARIANTS
    TypeOK
    OneChildPerSignal
    LiveChildIsAwaited
    CancelReachesEveryChild
    LastSettlementIsEvaluated
PROPERTIES
    KeepsPromise
SYMMETRY DispatcherSymmetry
CHECK_DEADLOCK FALSE
