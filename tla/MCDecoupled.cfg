SPECIFICATION Spec
CONSTANTS
    None = None
    h1 = h1
    h2 = h2
    u1 = u1
    u2 = u2
    w1 = w1
    w2 = w2
    w3 = w3
SYMMETRY Symmetry
INVARIANTS DecoupledSound
PROPERTIES DecisionsHold ImplementsSingleUse
CHECK_DEADLOCK FALSE
