CONSTANTS
    Accounts = {a1, a2, a3}
    Folders = 1
    Limits = {4, 5}
SPECIFICATION FairSpec
INVARIANTS TypeOK SlotsAccounted LimitKept
PROPERTIES TriggersFinish ReconcileReturns
