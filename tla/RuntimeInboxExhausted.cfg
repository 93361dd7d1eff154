\* Violated: a reply or channel event whose job failed for good stays open.
CONSTANTS
    Events = {e1}
    Calls = {c1}
    Deadlined = {}
    Cascading = {e1}
    Replies = {e1}
    MaxAttempts = 1
    MaxFaults = 0
    NoCall = NoCall
    Orphan = Orphan
    NoEvent = NoEvent
    Workers = {w1, w2}
    JobAttempts = 2
    DlqCloses = {}
    TimeoutCloses = {}
    MaxWorkerFaults = 0
    NoWorker = NoWorker
SYMMETRY WorkerSymmetry
SPECIFICATION Spec
CHECK_DEADLOCK FALSE
INVARIANTS
    ExhaustedWorkIsClosed
