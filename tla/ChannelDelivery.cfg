\* Two overlapping executions of one delivery while the channel is bound to another
\* account and back.  Every run may end, so the system may stop.
CONSTANTS
    Runs = {d1, d2}
    Routes = {k1, k2}
    MaxAttempts = 2
    NoRun = NoRun
    NoRoute = NoRoute
SYMMETRY DeliverySymmetry
SPECIFICATION Spec
CHECK_DEADLOCK FALSE
INVARIANTS
    OneCallPerOperation
    WrittenOffWasNotDelivered
    SendsUnderTheFence
PROPERTIES
    SettledOperationsStaySettled
