\* One event, one dispatch call without faults of its own, two overlapping handler runs
\* and two worker faults: one that loses the job's lock and one that loses the claim.
CONSTANTS
    Events = {e1}
    Calls = {c1}
    Deadlined = {e1}
    Cascading = {e1}
    Replies = {e1}
    MaxAttempts = 1
    MaxFaults = 0
    NoCall = NoCall
    Orphan = Orphan
    NoEvent = NoEvent
    Workers = {w1, w2}
    JobAttempts = 2
    DlqCloses = {e1}
    TimeoutCloses = {e1}
    MaxWorkerFaults = 2
    NoWorker = NoWorker
SPECIFICATION FairSpec
CHECK_DEADLOCK FALSE
INVARIANTS
    InboxInvariant
PROPERTIES
    ResultIsFinal
    LiveClaimIsUndisturbed
    ImplementsOutbox
    JobsFinish
