SPECIFICATION RetrieveSpec
CONSTANTS
    a = a
    b = b
    c = c
    d = d
    Memories = {a, b, c, d}
    Likeness <- MCLikeness
    Cosines = {50, 55}
    Bm25s = {0, 1}
    Signals <- MCSignals
    Ks = {2, 12}
    RrfK = 60
    Unit = 3782
    NDense = 2
    NSparse = 2
    MaxCandidates = 4
    MmrLambda = 70
    CosDup = 95
INVARIANTS
    RetrieveInv
    LeftOutIsAlike
CHECK_DEADLOCK FALSE
