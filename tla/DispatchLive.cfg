SPECIFICATION FairSpec
CONSTANTS
    FlowJobs = {f1, f2}
    PollJobs = {p1, p2}
    Loads <- FlowsOrPolls
    Workers = {w1}
    MaxConnections = 2
    NTokens = 4
    Limit = 1
    Attempts = 2
    MaxStalledCount = 1
    FaultSets = {{"drop"}, {"redis", "lapse"}, {"dequeue"}, {"failure"}, {"slow"}, {"timeout"}, {"disable"}, {"cleanup"}, {"crash"}}
PROPERTIES
    EveryJobEnds
CHECK_DEADLOCK FALSE
