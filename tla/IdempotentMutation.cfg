\* Three calls with one key and two requests.
CONSTANTS
    Executions = {e1, e2, e3}
    Requests = {r1, r2}
    None = None
SPECIFICATION Spec
INVARIANTS
    MutationInvariant
PROPERTIES
    ImplementsOncePerKey
    EveryCallIsAnswered
CHECK_DEADLOCK FALSE
