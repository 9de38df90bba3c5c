SPECIFICATION FairSpec
CONSTANTS
    NBarriers = 1
    Approvals = {a1}
    Children = {c1}
    SignalSets <- Asked
    Policies <- AllOrFirst
    Evaluators = {e1}
    Deadline = deadline
    FaultSets = {{"crash", "deliver"}, {"stall"}, {"create", "wake"}, {"retry"}, {"cancel"}}
INVARIANTS
    TypeOK
    RecordedDecisionCounts
    ReleaseIsJustified
    ReadyBarrierIsEvaluated
PROPERTIES
    KeepsPromise
    BarrierIsDelivered
CHECK_DEADLOCK FALSE
