SPECIFICATION SpecAll
CONSTANTS
    Jobs = {j1, j2}
    Drains = {d1, d2}
    MaxRetries = 2
    Memories = {a, b}
    MinCluster = 2
    ListLimit = 3
INVARIANTS
    AtLeastOnce
CHECK_DEADLOCK FALSE
