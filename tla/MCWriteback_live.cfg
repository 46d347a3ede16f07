CONSTANTS
    Msgs = {m1}
    Handlers = {h1, h2}
    MaxOps = 2
    MaxWritebackAttempts = 2
    BgCap = 1
    MaxFaults = 2
    MaxCrashes = 1
SPECIFICATION FairSpec
PROPERTIES
    ImplementsDurableQueue
CHECK_DEADLOCK FALSE
