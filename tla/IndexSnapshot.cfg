\* Two callers of one manifest with two partitions, two errors or deaths, one
\* preparation that takes too long and one partition lost or verification failed.
CONSTANTS
    Preparers = {a, b}
    Partitions = {x, y}
    MaxErrors = 2
    MaxStalls = 1
    MaxLosses = 1
    NoPreparer = NoPreparer
SPECIFICATION LiveSpec
CHECK_DEADLOCK FALSE
INVARIANTS
    ReadyIsComplete
    SnapshotInvariant
PROPERTIES
    PreparedInTheEnd
