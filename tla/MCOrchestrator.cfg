SPECIFICATION Spec
CONSTANTS
    None = None
    Keys = {k1, k2}
    Targets = {t1, t2}
    Tokens = {c1, c2}
    MaxFaults = 3
    LeasesExpire = TRUE
    RecoveryRenewFails = TRUE
SYMMETRY MCSymmetry
INVARIANTS
    IInv
    NoStrayObserver
    InputsOutliveObserver
PROPERTIES
    PublicationSound
CHECK_DEADLOCK FALSE
