\* One event with a deadline (which need not pass) and a cascade, two racing dispatch
\* calls, three faults.  A settled event is a state where nothing more happens.
CONSTANTS
    Events = {e1}
    Calls = {c1, c2}
    Deadlined = {e1}
    Cascading = {e1}
    Replies = {e1}
    MaxAttempts = 3
    MaxFaults = 3
    NoCall = NoCall
    Orphan = Orphan
    NoEvent = NoEvent
SPECIFICATION FairOutboxSpec
CHECK_DEADLOCK FALSE
INVARIANTS
    GivenUpForCause
PROPERTIES
    ImplementsDelivery
    EveryEventSettles
