SPECIFICATION Spec
CONSTANTS
    p1 = p1
    p2 = p2
    o1 = o1
    o2 = o2
    t1 = t1
    t2 = t2
    None = None
    Keys = {k1}
    Targets = {t1, t2}
    Procs = {p1, p2}
    Owners = {o1, o2}
    OwnerOf <- MCOwnOwners
    MaxNow = 3
SYMMETRY OwnSymmetry
INVARIANTS
    IInv
    QuarantineHoldsClaim
    QuarantineClearable
PROPERTIES
    ClaimLeavesTrace
    FreshPublication
    ImplementsWorkQueue
CHECK_DEADLOCK FALSE
