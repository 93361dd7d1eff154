\* Violated: a processor starts although the result is stored.
CONSTANTS
    Events = {e1}
    Calls = {c1}
    Deadlined = {}
    Cascading = {e1}
    Replies = {e1}
    MaxAttempts = 1
    MaxFaults = 0
    NoCall = NoCall
    Orphan = Orphan
    NoEvent = NoEvent
    Workers = {w1, w2}
    JobAttempts = 2
    DlqCloses = {}
    TimeoutCloses = {}
    MaxWorkerFaults = 2
    NoWorker = NoWorker
SPECIFICATION Spec
CHECK_DEADLOCK FALSE
PROPERTIES
    DuplicateExecutionSuppressed
