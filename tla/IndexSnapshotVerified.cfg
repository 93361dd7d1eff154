\* Violated: a verification publishes the snapshot while another caller, whose
\* verification the index has failed, repairs it and deletes its points.
CONSTANTS
    Preparers = {a, b}
    Partitions = {x}
    MaxErrors = 0
    MaxStalls = 0
    MaxLosses = 1
    NoPreparer = NoPreparer
SPECIFICATION SnapshotSpec
CHECK_DEADLOCK FALSE
PROPERTIES
    PublishedSnapshotIsImmutable
