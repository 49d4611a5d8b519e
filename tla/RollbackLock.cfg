SPECIFICATION LockSpec
CONSTANTS
    Clis = {r1, r2}
    Service = service
    Child = child
    Nobody = Nobody
    Attempts = 3
    MaxFailures = 2
SYMMETRY CliSymmetry
INVARIANTS
    LockTypeOK
    HolderOwnsLock
    RefusedOnlyIfContended
PROPERTIES
    HandoffKept
CHECK_DEADLOCK FALSE
