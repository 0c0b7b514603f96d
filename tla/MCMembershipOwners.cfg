\* Two users, two overlapping transactions.
SPECIFICATION Spec
CONSTANTS
    Users = {u1, u2}
    Invitations = {i1}
    Calls = {k1, k2}
    Founding = Founding
SYMMETRY Symmetry
INVARIANTS AlwaysAnOwner
CHECK_DEADLOCK FALSE
