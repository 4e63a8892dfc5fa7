SPECIFICATION Spec
CONSTANTS
    None = None
    Gone = Gone
    h1 = h1
    h2 = h2
SYMMETRY Symmetry
INVARIANTS DecisionsBackCodes FactorsSound AccountsBacked AvatarsIntact
CHECK_DEADLOCK FALSE
