SPECIFICATION Spec
CONSTANTS
    Backend = "postgres"
    Tenants = {t1}
    Namespaces = {n1, n2}
    Memories = {a, b}
    Callers = {c1, c2}
    Branches = {main}
    Limit = 2
    MaxCommits = 2
INVARIANT SnapshotsStayInScope
