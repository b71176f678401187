SPECIFICATION Spec
CONSTANTS
    r1 = r1
    r2 = r2
    r3 = r3
    t1 = t1
    t2 = t2
    t3 = t3
    n1 = n1
    n2 = n2
    s1 = s1
    s2 = s2
    m1 = m1
    m2 = m2
    q1 = q1
    q1b = q1b
    q2 = q2
    Queries = {q1, q1b, q2}
    Norm <- MCNorm
    Similarity <- MCSimilarity
    Threshold = 92
    Requests = {r1, r2}
    Tenants = {t1, t2, t3}
    Namespaces = {n1, n2}
    Systems = {s1, s2}
    Models = {m1, m2}
    Names = {m1, m2}
    ReportedAs <- Reports
    Memories = {a}
    Inputs <- RoutedInputs
    Wired <- Everything
    MayRoute = {t1, t2}
    RoutedModels <- RoutedModelsOf
    TopK = 2
    CacheMayFail = FALSE
INVARIANT BundleNamesRoutedModel
CHECK_DEADLOCK FALSE
