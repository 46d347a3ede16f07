CONSTANTS
    Mails = {1, 2}
    Folders = {"inbox", "archive"}
    FolderViews = {"inbox"}
    Words = {w1, w2}
    PageSize = 1
    MaxRequests = 1
    Gone = gone
    None = none
    CacheMails = {1}
    MaxOps = 2
    MaxRemote = 1
SPECIFICATION PagesSpec
PROPERTIES UndoIsOffered
CHECK_DEADLOCK FALSE
