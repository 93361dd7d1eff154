\* One request with more faults, and with edits of draft, policy and test cases.
CONSTANTS
    Publications = {p1}
    Dispatchers = {d1, d2}
    MaxAttempts = 2
    MaxFaults = 2
    MaxEdits = 2
    Before = Before
    NoDispatcher = NoDispatcher
SPECIFICATION LiveSpec
CHECK_DEADLOCK FALSE
INVARIANTS
    PublicationInvariant
PROPERTIES
    RequestIsSettled
