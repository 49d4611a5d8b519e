SPECIFICATION Spec
CONSTANTS
    None = None
    Torn = Torn
    RetentionCount = 2
    DefaultCount = 2
    MaxCommits = 2
    MaxBackups = 1
    MaxTools = 1
    MaxFaults = 1
INVARIANTS
    PreRestoreKept
CHECK_DEADLOCK FALSE
