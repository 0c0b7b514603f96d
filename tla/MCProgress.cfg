\* Two catch-up calls that overlap, three pages of one message, one break; two
\* members, two events, two overlapping transactions; three tabs, one heartbeat
\* too late.
SPECIFICATION AllFairSpec
CONSTANTS
    Slots = {x1, x2, x3}
    Txns = {x1, x2}
    OneCall = {x1}
    Members = {a1, a2}
    Keys = {e1, e2}
    PageSize = 1
    MaxPages = 3
    MaxMessages = 3
    MaxPosts = 0
    MaxDrops = 1
    MaxOfflines = 0
    MaxFailures = 0
    NoTab = NoTab
    MaxLate = 1
INVARIANTS CounterIsExact LeaderHasLease
PROPERTIES ReaderCatchesUp EveryTransactionEnds SettlesOnOneLeader
\* Every tab may be closed, and the messages run out.
CHECK_DEADLOCK FALSE
