SPECIFICATION GatewaySpec
CONSTANTS
    r1 = r1
    r2 = r2
    t1 = t1
    t2 = t2
    n1 = n1
    n2 = n2
    s1 = s1
    s2 = s2
    m1 = m1
    m2 = m2
    q1 = q1
    q1b = q1b
    q2 = q2
    Queries = {q1, q1b, q2}
    Norm <- MCNorm
    Similarity <- MCSimilarity
    Threshold = 92
    Requests = {r1, r2}
    Tenants = {t1, t2}
    Namespaces = {n1, n2}
    Systems = {s1, s2}
    Models = {m1, m2}
    Names = {m1, m2}
    ReportedAs <- Reports
    Memories = {a}
    Inputs <- GatewayInputs
    Wired <- Wiring
    MayRoute = {t1, t2}
    RoutedModels <- NoRoutes
    TopK = 2
    CacheMayFail = FALSE
    MaxRestarts = 1
INVARIANTS
    HandlesResolve
    SpendMatchesReplies
PROPERTIES
    IdenticalQueryIsServed
    EveryRequestEnds
CHECK_DEADLOCK FALSE
