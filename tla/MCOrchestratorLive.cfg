SPECIFICATION FairSpec
CONSTANTS
    None = None
    Keys = {k1}
    Targets = {t1, t2}
    Tokens = {c1, c2}
    MaxFaults = 2
    LeasesExpire = TRUE
    RecoveryRenewFails = FALSE
INVARIANTS
    RecoveryFindsItsClaim
    CheckpointReplayable
PROPERTIES
    AttemptsEnd
CHECK_DEADLOCK FALSE
