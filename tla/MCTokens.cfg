SPECIFICATION Spec
CONSTANTS
    None = None
    Gone = Gone
    h1 = h1
    h2 = h2
SYMMETRY Symmetry
INVARIANTS CredentialsSound GrantsSound ProofsOnce
PROPERTIES NativeStep
CHECK_DEADLOCK FALSE
