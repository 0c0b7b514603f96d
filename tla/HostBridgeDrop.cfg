\* Four identify calls of the host page; no request fails.
SPECIFICATION Spec
CONSTANTS
    Fields = {name, email}
    MaxCalls = 4
    MayFail = FALSE
INVARIANTS NoIdentifyIsDropped
CHECK_DEADLOCK FALSE
