SPECIFICATION Spec
CONSTANTS
    p1 = p1
    p2 = p2
    o1 = o1
    o2 = o2
    t1 = t1
    t2 = t2
    None = None
    Keys = {k1}
    Targets = {t1, t2}
    Procs = {p1, p2}
    Owners = {o1}
    OwnerOf <- MCSharedOwner
    MaxNow = 4
SYMMETRY SharedSymmetry
PROPERTIES
    NewestRequestWins
    ImplementsWorkQueue
CHECK_DEADLOCK FALSE
