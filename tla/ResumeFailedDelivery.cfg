SPECIFICATION Spec
CONSTANTS
    NSteps = 1
    Links = {}
    Delays = {}
    MaxSignals = 1
    MaxFlushes = 0
    Events = {"deliveryFails"}
INVARIANTS
    NoParkedSignalIsForgotten
CHECK_DEADLOCK FALSE
