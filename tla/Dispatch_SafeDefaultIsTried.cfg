SPECIFICATION Spec
CONSTANTS
    c1 = c1
    c2 = c2
    c3 = c3
    cheap = cheap
    strong = strong
    local = local
    Calls = {c1, c2}
    Backends = {cheap, strong}
    BackendOf <- MCBackendOf
    NameOrder <- MCNameOrder
    Demands <- EasyDemand
    Threshold = 2
    Cooldown = 2
INVARIANT SafeDefaultIsTried
