SPECIFICATION ProcessesFairSpec
CONSTANTS
    None = None
    GroupKids = {1, 2}
    MaxGroupCrashes = 2
    MaxGroupFaults = 1
    MaxJobKids = 3
    MaxJobCrashes = 2
    MaxJobFaults = 2
    MaxTreeKids = 3
    MaxTreeBoots = 2
    MaxTreeCrashes = 2
    MaxTreeFaults = 2
    Clones = {1, 2}
    MaxInputCommit = 2
    MaxInputFaults = 1
    MaxFileCrashes = 2
    MaxFileFaults = 1
    MaxKids = 2
    MaxFaults = 2
INVARIANTS
    ScopeSound
    SuccessIsExact
    FilesRecover
PROPERTIES
    DeathProved
    IndexesServed
    ProcessesEnd
CHECK_DEADLOCK FALSE
