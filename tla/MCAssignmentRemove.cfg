\* A member who has assigned a conversation to another is removed.
SPECIFICATION Spec
CONSTANTS
    Members = {a1, a2}
    Conversations = {c1}
    Requests = {r1}
    MaxVersion = 1
    NoMember = NoMember
    NoVersion = NoVersion
SYMMETRY Symmetry
INVARIANTS RemovalSucceeds
CHECK_DEADLOCK FALSE
