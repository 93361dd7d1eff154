\* Violated: a run that dies after its claim leaves an operation nobody may settle.
CONSTANTS
    Runs = {d1, d2}
    Routes = {k1}
    MaxAttempts = 2
    NoRun = NoRun
    NoRoute = NoRoute
SPECIFICATION Spec
CHECK_DEADLOCK FALSE
INVARIANTS
    StartedHasAWayOn
