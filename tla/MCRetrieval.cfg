SPECIFICATION RetrievalFairSpec
CONSTANTS
    p1 = p1
    b1 = b1
    n1 = n1
    n2 = n2
    r1 = r1
    r2 = r2
    c1 = c1
    c2 = c2
    w1 = w1
    w2 = w2
    Repos <- OneRepo
    Served = r1
    Clients = {c1, c2}
    Writers = {w1}
    Patient = TRUE
    MaxFaults = 1
    None = None
INVARIANTS
    BackendShared
PROPERTIES
    
    RetrievalEnds
CHECK_DEADLOCK FALSE
