CONSTANTS
    Msgs = {m1, m2}
    Handlers = {h1, h2}
    MaxOps = 2
    MaxWritebackAttempts = 2
    BgCap = 1
    MaxFaults = 2
    MaxCrashes = 1
SYMMETRY Symmetry
SPECIFICATION Spec
INVARIANTS TypeOK NoAcceptedOpLost QuietAgreement
CHECK_DEADLOCK FALSE
