\* The visitor posts while the channel is being made again.
SPECIFICATION FairSpec
CONSTANTS
    Calls = {k1}
    PageSize = 4
    MaxPages = 1
    MaxMessages = 4
    MaxPosts = 1
    MaxDrops = 1
    MaxOfflines = 0
    MaxFailures = 0
PROPERTIES CoveredIsReceived
CHECK_DEADLOCK FALSE
