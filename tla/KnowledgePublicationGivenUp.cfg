\* Violated: an event is given up while its publication is being activated.
CONSTANTS
    Publications = {p1}
    Dispatchers = {d1, d2}
    MaxAttempts = 2
    MaxFaults = 0
    MaxEdits = 0
    Before = Before
    NoDispatcher = NoDispatcher
SPECIFICATION Spec
CHECK_DEADLOCK FALSE
INVARIANTS
    GivenUpWasNotActivated
