\* Two overlapping calls, two conversations, two notes; the channel breaks twice and
\* any call may fail.  Two Studio pages and two versions, three when no visitor looks.
SPECIFICATION Spec
CONSTANTS
    Slots = {x1, x2}
    Conversations = {d1, d2}
    MaxBreaks = 2
    MayFail = TRUE
    PageSize = 1
    MaxNotification = 2
    InitNotifications = 1
    MaxFeed = 1
    MaxMessage = 3
    InitMessages = 2
    PropsWindow = 2
    MaxPages = 2
    MaxAttempts = 2
    Fetches = {f1}
    MaxChanges = 2
    Notes = {n1, n2}
    InitNotes = {n1}
    MaxClock = 3
    Browsers = {b1}
    UrlBuckets = 2
    MaxEdit = 1
    MaxVersion = 2
    MaxBucket = 2
SYMMETRY Symmetry
INVARIANTS TypeOK BellSettles ThreadSettles InboxSettles PanelSettles SkippedIsOvertaken CacheIsItsVersion
PROPERTIES ReplacesWhatWasShown RevalidatedUrlsWork
\* Nothing is left to do when changes, notes and versions are used up.
CHECK_DEADLOCK FALSE
