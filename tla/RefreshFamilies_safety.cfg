SPECIFICATION SlicedSpec
CONSTRAINT Bounds
SYMMETRY Symmetry
CONSTANTS
    Requests = {q1, q2}
    Resources = {a, b}
    Policies = {"none", "fapi2"}
    Contracts = {c1}
    TTL = 2
    RetryWindow = 1
    ProofLimit = 1
    MaxActive = 1
    BatchLimit = 1
    MaxFamily = 2
    MaxMember = 3
    MaxTime = 2
    MaxEpoch = 1
    ContractAge = 2
INVARIANTS
    TypeOK
    LineageUnforked
    SpentMintsOnlyInRetry
    AudienceNeverWidens
    PrincipalFence
    LimitsHold
    ContractsReferenced
PROPERTIES
    LifeCycle
CHECK_DEADLOCK FALSE
