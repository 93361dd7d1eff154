\* Violated: the row of the raw artifact is deleted under an import that can
\* be retried.
CONSTANTS
    Workers = {w1}
    Collectors = {c1}
    MaxGeneration = 2
    MaxFaults = 2
    None = None
SPECIFICATION Spec
INVARIANTS
    RetryableCanGoOn
CHECK_DEADLOCK FALSE
