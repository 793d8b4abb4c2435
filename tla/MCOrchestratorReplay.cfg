SPECIFICATION Spec
CONSTANTS
    None = None
    Keys = {k1, k2}
    Targets = {t1, t2}
    Tokens = {c1, c2}
    MaxFaults = 2
    LeasesExpire = TRUE
    RecoveryRenewFails = TRUE
SYMMETRY MCSymmetry
INVARIANTS
    CheckpointReplayable
CHECK_DEADLOCK FALSE
