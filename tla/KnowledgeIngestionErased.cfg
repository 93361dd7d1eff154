\* Violated: an attempt that was replaced writes its objects after they were deleted.
SPECIFICATION Spec
CONSTANTS
    Workers = {w1, w2}
    Contents = {c1}
    MaxAttempts = 2
    MaxGeneration = 2
    MaxFaults = 1
    MaxUpserted = 1
    None = None
INVARIANTS
    DeletedHasNoObjects
CHECK_DEADLOCK FALSE
