SPECIFICATION PolicySpec
CONSTANTS
    Policies <- MCPolicies
    Resources <- MCResources
    Tenants = {"t1"}
    Users = {"u1"}
    Namespaces = {"team"}
    UserNamespace <- MCUserNamespace
    Missing = None
INVARIANTS
    VerdictIsOrderFree
    TenantBoundary
CHECK_DEADLOCK FALSE
