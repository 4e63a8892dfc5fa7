SPECIFICATION Spec
CONSTANTS
    Nil = Nil
    Undecodable = Undecodable
    w1 = w1
    w2 = w2
    t1 = t1
    t2 = t2
    x = x
PROPERTIES WorkersFinish StateConverges
CHECK_DEADLOCK FALSE
