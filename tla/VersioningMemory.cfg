SPECIFICATION Spec
CONSTANTS
    Backend = "memory"
    Tenants = {t1, t2}
    Namespaces = {n1, n2}
    Memories = {a, b, c}
    Callers = {c1, c2}
    Branches = {main, dev}
    Limit = 2
    MaxCommits = 2
SYMMETRY Symmetry
INVARIANTS
    IInv
    SnapshotsStayInScope
PROPERTY RollbackRestores
CHECK_DEADLOCK FALSE
