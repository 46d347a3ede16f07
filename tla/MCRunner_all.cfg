CONSTANTS
    Callers = {c1, c2}
    Folders = 2
    BgCap = 1
    BreakerThreshold = 2
    CanIDLE = TRUE
    MaxFaults = 2
SPECIFICATION FairSpec
INVARIANTS TypeOK OneConnection TakenIsExecuted
PROPERTIES GatesRespected Answered PollsResume
CHECK_DEADLOCK FALSE
