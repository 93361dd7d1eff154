\* Violated: a resumed update of a known message runs a workflow.
CONSTANTS
    Sources = {"telegram"}
    Handlers = {h1, h2}
    MaxFaults = 2
    NoHandler = NoHandler
SYMMETRY HandlerSymmetry
SPECIFICATION Spec
CHECK_DEADLOCK FALSE
INVARIANTS
    KnownMessageIsNotRepeated
