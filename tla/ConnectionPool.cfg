SPECIFICATION Spec
CONSTANTS
    c1 = c1
    c2 = c2
    c3 = c3
    k1 = k1
    k2 = k2
    t1 = t1
    t2 = t2
    n1 = n1
    x = x
    y = y
    Backend = "postgres"
    Tenants = {t1, t2}
    Namespaces = {n1}
    Memories = {x, y}
    Calls = {c1, c2, c3}
    Conns = {k1, k2}
    Asks <- MCAsks
    ListLimit = 1
    Accessed <- MCAccessed
    MaxLeaks = 1
INVARIANTS
    ReadsAreScopedAndFresh
    AddsAreDurable
PROPERTIES
    EveryCallEnds
CHECK_DEADLOCK FALSE
