\* A retry whose first answer was lost, around an operator closing the conversation.
SPECIFICATION Spec
CONSTANTS
    Sessions = {s1}
    Conversations = {c1, c2}
    Requests = {r1}
    ClientIds = {m1}
    MaxResolutions = 2
    NoConversation = NoConversation
    NoClientId = NoClientId
    NoSession = NoSession
    NoOrigin = NoOrigin
SYMMETRY Symmetry
INVARIANTS RetryIsRecognised
CHECK_DEADLOCK FALSE
