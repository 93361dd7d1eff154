\* Two executions of the jobs overlap, over two generations; the content changes.
SPECIFICATION Spec
CONSTANTS
    Workers = {w1, w2}
    Contents = {c1, c2}
    MaxAttempts = 2
    MaxGeneration = 2
    MaxFaults = 1
    MaxUpserted = 1
    None = None
INVARIANTS
    SourceInvariant
    CleanupIsProven
SYMMETRY Symmetry
CHECK_DEADLOCK FALSE
