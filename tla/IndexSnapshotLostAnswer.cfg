\* Violated: a preparer whose commit was made and not answered deletes the points
\* it has just published; one caller, no preparation that takes too long.
CONSTANTS
    Preparers = {a}
    Partitions = {x}
    MaxErrors = 1
    MaxStalls = 0
    MaxLosses = 0
    NoPreparer = NoPreparer
SPECIFICATION SnapshotSpec
CHECK_DEADLOCK FALSE
PROPERTIES
    PublishedSnapshotIsImmutable
