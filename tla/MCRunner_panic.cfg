CONSTANTS
    Callers = {c1}
    Folders = 1
    BgCap = 1
    BreakerThreshold = 2
    CanIDLE = FALSE
    MaxFaults = 2
SPECIFICATION Spec
INVARIANTS NeverPanics
CHECK_DEADLOCK FALSE
