\* Two members and two overlapping transactions; two conversations; one invitation.
SPECIFICATION BothSpec
CONSTANTS
    Users = {a1, a2}
    Calls = {x1, x2}
    Conversations = {c1, c2}
    MaxVersion = 0
    NoMember = NoMember
    NoVersion = NoVersion
    Invitations = {i1}
    Founding = Founding
SYMMETRY Symmetry
INVARIANTS TypesOK OnlyTakeOutlivesDeactivation RemovedIsUnreferenced
PROPERTIES RemovalSparesOwners SettledOnce
\* Everything may be done: members removed, invitations settled.
CHECK_DEADLOCK FALSE
