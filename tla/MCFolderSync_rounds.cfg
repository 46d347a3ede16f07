CONSTANTS
    MaxUID = 2
    BatchSize = 1
    SyncDepth = 1
    Servers = {TRUE, FALSE}
    MaxEpoch = 2
    MaxFaults = 2
    MaxCrashes = 1
SPECIFICATION FairSpec
INVARIANTS TypeOK NothingSkipped OneEpoch
PROPERTIES NoDuplicateNotice CatchesUp
CHECK_DEADLOCK FALSE
