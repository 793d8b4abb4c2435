SPECIFICATION ServicesFairSpec
CONSTANTS
    a1 = a1
    a2 = a2
    w1 = w1
    w2 = w2
    w3 = w3
    l1 = l1
    Checked = {p1, p2}
    HealthOps = 9
    HealthRequests = 2
    HealthFaults = 2
    Operators = {a1}
    MaxWindowRuns = 3
    MaxInvocations = 4
    MaxWindowFaults = 2
    Moved = {1}
    HeldByOld = {1}
    Strangers = TRUE
    MoveRequests = 2
    MoveClaims = 2
    MoveFaults = 1
    Procs = {w1, w2, w3}
    Launchers = {l1}
    Pids = {1, 2}
    MaxCommits = 1
    MaxFaults = 1
    None = None
INVARIANTS
    HealthIsTrue
    WindowIsQuiet
    OneWorker
PROPERTIES
    CommandsAreSound
    ServicesEnd
CHECK_DEADLOCK FALSE
