SPECIFICATION KilledSpec
CONSTANTS
    p1 = p1
    p2 = p2
    o1 = o1
    o2 = o2
    t1 = t1
    t2 = t2
    t3 = t3
    w1 = w1
    Kinds = {"codegraph", "ingest", "code_vec"}
    Workers = {w1}
    MaxRequests = 3
    MaxRetries = 1
    Keys = {"key"}
    Targets = {t1, t2}
    Procs = {p1, p2}
    Owners = {o1, o2}
    OwnerOf <- OwnOwner
    ServerKills = FALSE
    MaxNow = 3
    None = None
PROPERTIES
    KilledIsFresh
CHECK_DEADLOCK FALSE
