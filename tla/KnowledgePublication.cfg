\* Two requests that race for the pointer, two dispatchers and one fault.
\* When all is settled nothing is left to do.
CONSTANTS
    Publications = {p1, p2}
    Dispatchers = {d1, d2}
    MaxAttempts = 2
    MaxFaults = 1
    MaxEdits = 0
    Before = Before
    NoDispatcher = NoDispatcher
SYMMETRY PublicationSymmetry
SPECIFICATION Spec
CHECK_DEADLOCK FALSE
INVARIANTS
    PointerIsTheActiveOne
    OneSuccessorPerBase
PROPERTIES
    FateIsFinal
