SPECIFICATION Spec
CONSTANTS
    None = None
    h1 = h1
    h2 = h2
SYMMETRY Symmetry
INVARIANTS ResourcesWhole ClientsStand ProvisioningTrue LogoutTold
PROPERTIES RankedStep
CHECK_DEADLOCK FALSE
