\* Violated: a preparer that was taken for dead deletes the published points.
CONSTANTS
    Preparers = {a, b}
    Partitions = {x}
    MaxErrors = 0
    MaxStalls = 1
    MaxLosses = 0
    NoPreparer = NoPreparer
SPECIFICATION SnapshotSpec
CHECK_DEADLOCK FALSE
PROPERTIES
    PublishedSnapshotIsImmutable
