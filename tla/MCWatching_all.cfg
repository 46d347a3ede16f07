CONSTANTS
    MaxChanges = 4
    Subjects = {"a", "b"}
    MaxVersion = 3
    MaxCalls = 2
    MaxMoves = 2
    MaxFails = 1
SPECIFICATION Spec
INVARIANTS TypeOK QuietViewIsCurrent
PROPERTIES SpinnerEnds PollsSettle
CHECK_DEADLOCK FALSE
