\* Two collectors, who take each other for dead, delete the objects of an
\* import with one worker.
CONSTANTS
    Workers = {w1}
    Collectors = {c1, c2}
    MaxGeneration = 2
    MaxFaults = 3
    None = None
SPECIFICATION Spec
PROPERTIES
    DeletionIsOneWay
    DeletionsAreDone
CHECK_DEADLOCK FALSE
