CONSTANTS
    Sandboxes = {s1, s2}
    PoolIds = {p1, p2, p3, p4}
    MaxVersion = 2
    PoolSize = 1
    Torn = Torn
    None = None
SPECIFICATION Spec
INVARIANTS CreatedIsThere 
PROPERTY PoolSettles
CHECK_DEADLOCK FALSE
