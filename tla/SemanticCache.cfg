SPECIFICATION Spec
CONSTANTS
    o1 = o1
    o2 = o2
    o3 = o3
    q1 = q1
    q1b = q1b
    q2 = q2
    s1 = s1
    s2 = s2
    NoTtl = NoTtl
    Ops = {o1, o2, o3}
    Queries = {q1, q1b, q2}
    Norm <- MCNorm
    Similarity <- MCSimilarity
    Threshold = 92
    Requests <- MCRequests
    Ttls = {NoTtl, 0, 1}
    DefaultTtl = 2
    MaxTime = 2
SYMMETRY Symmetry
INVARIANTS
    IInv
PROPERTIES
    ServedWithinLifetime
    StoredIsFound
    ImplementsAtomicCache
CHECK_DEADLOCK FALSE
