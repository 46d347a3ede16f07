CONSTANTS
    Accounts = {a1, a2}
    Folders = 2
    Limits = {2}
SPECIFICATION FairSpec
PROPERTIES TriggersFinish
CHECK_DEADLOCK FALSE
