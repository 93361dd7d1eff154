\* Two executions of the import's jobs overlap, over two generations.
CONSTANTS
    Workers = {w1, w2}
    Collectors = {c1}
    MaxGeneration = 2
    MaxFaults = 2
    None = None
SYMMETRY WorkerSymmetry
SPECIFICATION Spec
INVARIANTS
    ImportInvariant
    ReferencedIsStored
PROPERTIES
    EndedIsFinal
CHECK_DEADLOCK FALSE
