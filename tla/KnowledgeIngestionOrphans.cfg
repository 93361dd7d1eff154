\* Violated: points of a preparation that did not commit outlive the deleted source.
SPECIFICATION Spec
CONSTANTS
    Workers = {w1}
    Contents = {c1}
    MaxAttempts = 1
    MaxGeneration = 2
    MaxFaults = 0
    MaxUpserted = 1
    None = None
INVARIANTS
    DeletedHasNoPoints
CHECK_DEADLOCK FALSE
