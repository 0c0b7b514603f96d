\* Two operators and the visitor, two overlapping mark calls, two messages.
SPECIFICATION Spec
CONSTANTS
    Members = {a1, a2}
    Requests = {r1, r2}
    MaxSequence = 2
SYMMETRY Symmetry
INVARIANTS CursorsOrdered NeverOvercounts ExactUnlessOvertaken
PROPERTIES CursorsNeverRegress
