CONSTANTS
    Accounts = {a, b}
    Signed = {a}
    Drafts = {d1}
    Places = {"to"}
    MaxSessions = 2
    MaxRequests = 2
    None = none
    Records = {1, 2}
    MaxContent = 2
    MaxNet = 2
    MaxClicks = 2
    MaxActs = 3
    Sections = {"accounts", "proxies"}
    MaxImports = 2
    PolicyRows = {"bill", "social"}
    MaxChanges = 3
    MaxOpenings = 3
    Rows = {1, 2, 3}
    MaxMoves = 3
    MaxFlight = 2
    MaxOther = 1
    MaxValue = 2
    MaxEdits = 2
    MaxElse = 2
    Windows = {w1, w2}
    Slots = {s1, s2}
    MaxPairs = 3
    MaxFails = 1
SPECIFICATION FormsSpec
CONSTRAINT Undisturbed
INVARIANTS TypesOK OneSendAtATime SignatureOfSender NothingUnmeant QuietIsStored MovesAdd StaysSignedIn
PROPERTIES RightDraftDeleted TypingSurvives
CHECK_DEADLOCK FALSE
