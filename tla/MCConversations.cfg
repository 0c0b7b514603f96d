\* One visitor session, two overlapping operator sends, three conversations.
SPECIFICATION Spec
CONSTANTS
    Sessions = {s1}
    Conversations = {c1, c2, c3}
    Requests = {r1, r2}
    ClientIds = {m1, m2}
    MaxResolutions = 2
    NoConversation = NoConversation
    NoClientId = NoClientId
    NoSession = NoSession
    NoOrigin = NoOrigin
SYMMETRY Symmetry
INVARIANTS TypeOK AnsweredIsStored
PROPERTIES SendIsViewable ImplementsLog
