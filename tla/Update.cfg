SPECIFICATION Spec
CONSTANTS
    Versions = {1, 2, 3}
    Digests = {1, 2}
    MaxPublishes = 1
    MaxUpdates = 2
    MaxRollbacks = 2
    MaxOperations = 3
    MaxFaults = 1
INVARIANTS
    ConfirmedOnly
    RollbackFits
    NewVersionJudged
    FailureKept
CHECK_DEADLOCK FALSE
