SPECIFICATION Spec
CONSTANTS
    None = None
    Torn = Torn
    Undecodable = Undecodable
    h1 = h1
    h2 = h2
    t1 = t1
    t2 = t2
    x = x
    y = y
SYMMETRY Symmetry
INVARIANTS KeysServe ControlSound DirectoryServes
PROPERTIES RecordsExtend
CHECK_DEADLOCK FALSE
