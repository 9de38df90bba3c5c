SPECIFICATION Spec
CONSTANTS
    NSteps = 2
    Links = {1}
    Delays = {}
    MaxSignals = 2
    MaxFlushes = 0
    Events = {"hasty", "subflow", "deliveryFails"}
INVARIANTS
    TypeOK
    ParkedSignalIsDelivered
PROPERTIES
    ReportIsClearedOnceSaved
    ResumedAtMostOnce
CHECK_DEADLOCK FALSE
