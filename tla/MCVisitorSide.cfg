\* Two attempts of a message with two files;
\* a post that loses its answer; four identify calls; two tabs.
SPECIFICATION SideSpec
CONSTANTS
    Slots = {x1, x2}
    Actors = {"visitor", "operator"}
    MaxBatches = 2
    MaxCompletes = 2
    MaxCancels = 1
    MaxConversations = 2
    PageSize = 1
    MaxPages = 2
    MaxMessages = 3
    MaxPosts = 1
    MaxDrops = 0
    MaxOfflines = 1
    MaxFailures = 1
    Fields = {name, email}
    MaxCalls = 4
    MaxSessions = 3
    MayFail = TRUE
SYMMETRY Symmetry
INVARIANTS TypesOK ConfirmedIsAttached OncePerConversation AttachmentsAreStored CancelledStaysOut AcknowledgesReceived StoredTokenWorks
PROPERTIES ShownStays IdentifyInOrder
\* Attempts, calls and sessions run out.
CHECK_DEADLOCK FALSE
