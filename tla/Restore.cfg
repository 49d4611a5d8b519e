SPECIFICATION Spec
CONSTANTS
    None = None
    Torn = Torn
    RetentionCount = 2
    DefaultCount = 2
    MaxCommits = 2
    MaxBackups = 3
    MaxTools = 2
    MaxFaults = 1
INVARIANTS
    OnlyLogLost
    ServesGenuineData
    SourcesSurvive
    RollbackBackupKept
CHECK_DEADLOCK FALSE
