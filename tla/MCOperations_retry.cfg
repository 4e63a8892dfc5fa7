SPECIFICATION SlicedSpec
CONSTANTS
    scim = scim
    events = events
    jarm = jarm
    device = device
    sso = sso
    i1 = i1
    i2 = i2
    r1 = r1
    r2 = r2
    w1 = w1
    w2 = w2
    Modules <- Catalog
    Instances <- TwoInstances
    Requests <- TwoRequests
    Deps <- SecurityEvents
    DisablePolicy <- Policies
    Available <- Constructed
    Pinned <- OnlyJarm
    MaxRevision = 4
    MaxFaults = 2
SYMMETRY Symmetric
INVARIANTS RetryIdempotent
CHECK_DEADLOCK FALSE
