SPECIFICATION Spec
CONSTANTS
    FlowJobs = {f1, f2}
    PollJobs = {}
    Loads <- FlowsOrPolls
    Workers = {w1, w2}
    MaxConnections = 3
    NTokens = 5
    Limit = 1
    Attempts = 2
    MaxStalledCount = 1
    FaultSets = {{"drop"}}
INVARIANTS
    ConcurrencyIsLimited
CHECK_DEADLOCK FALSE
