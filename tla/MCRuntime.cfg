SPECIFICATION RuntimeFairSpec
CONSTANTS
    c1 = c1
    c2 = c2
    a1 = a1
    a2 = a2
    g0 = g0
    g1 = g1
    g2 = g2
    s1 = s1
    d1 = d1
    hook = hook
    web = web
    idx = idx
    o1 = o1
    o2 = o2
    StoreControllers = {c1, c2}
    StoreAttempts = {a1}
    StoreGenerations = {g0, g1, g2}
    FirstGeneration = g1
    GenerationBefore = g0
    StoreStamps = {1, 2}
    StoreEpochs = 3
    StoreFences = 2
    StoreFaults = 2
    StandardUnits = {s1}
    DeferredUnits = {d1}
    UnitsToEnable = {s1, d1}
    UnitsToRestart = {s1, d1}
    UnitBudgets <- TheBudgets
    LayoutFaults = 2
    LayoutCrashes = 2
    LayoutEdits = 1
    GuardedUnits <- TheUnits
    StoppedUnits <- TheWriters
    WebHook = hook
    GatePlans = {p1, p2}
    GateForeign = {web}
    GateFaults = 2
    Controllers = {c1, c2}
    Attempts = {a1}
    LineageLimit = 3
    ActsPerStep = 2
    MaxEpoch = 2
    MaxActs = 2
    MaxFaults = 2
    None = None
INVARIANTS
    LeaseSound
    InstallSound
    GatesHold
PROPERTIES
    ServingSound
    RuntimeEnds
CHECK_DEADLOCK FALSE
