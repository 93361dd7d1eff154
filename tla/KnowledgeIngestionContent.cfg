\* The answer of a commit is lost and the attempt deletes the revision's objects.
SPECIFICATION Spec
CONSTANTS
    Workers = {w1, w2}
    Contents = {c1, c2}
    MaxAttempts = 2
    MaxGeneration = 2
    MaxFaults = 1
    MaxUpserted = 1
    None = None
INVARIANTS
    LiveContentIsStored
SYMMETRY Symmetry
CHECK_DEADLOCK FALSE
