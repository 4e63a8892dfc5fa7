CONSTANTS
    k1 = k1
    Requests = {q1, q2}
    Codes = {c1}
    Keys <- OneKey
    Presented <- AllFacts
    CodeTTL = 1
    AccessTTL = 1
    Skew = 1
    MaxId = 2
    MaxTime = 3
SPECIFICATION PairedSpec
SYMMETRY Symmetric
CHECK_DEADLOCK FALSE
INVARIANTS TypeOK RedeemedOnce TokensGuarded
PROPERTIES ReplaysAnswered ImplementsSingleUse
