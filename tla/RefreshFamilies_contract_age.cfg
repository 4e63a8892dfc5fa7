SPECIFICATION ReclaimSpec
CONSTANTS
    Requests = {q1}
    Resources = {a}
    Policies = {"none"}
    Contracts = {c1}
    TTL = 2
    RetryWindow = 1
    ProofLimit = 1
    MaxActive = 1
    BatchLimit = 1
    MaxFamily = 1
    MaxMember = 3
    MaxTime = 2
    MaxEpoch = 0
    ContractAge = 2
PROPERTIES
    ContractsAgeBeforeRemoval
CHECK_DEADLOCK FALSE
