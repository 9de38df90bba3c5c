SPECIFICATION Spec
CONSTANTS
    FlowJobs = {f1, f2}
    PollJobs = {p1, p2}
    Loads <- FlowsOrPolls
    Workers = {w1, w2}
    MaxConnections = 3
    NTokens = 5
    Limit = 1
    Attempts = 2
    MaxStalledCount = 1
    FaultSets = {{"drop", "redis"}, {"drop", "cleanup"}, {"drop", "timeout"}, {"lapse", "redis"}, {"slow", "redis"}, {"failure"}, {"disable"}, {"crash"}}
SYMMETRY Symmetry
INVARIANTS
    TypeOK
    LimitHoldsUndisturbed
    OnePollUndisturbed
    SlotIsHeldForAJob
    LiveCopyKeepsItsJob
CHECK_DEADLOCK FALSE
