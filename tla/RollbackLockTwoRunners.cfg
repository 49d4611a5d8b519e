SPECIFICATION LockSpec
CONSTANTS
    Clis = {r1}
    Service = service
    Child = child
    Nobody = Nobody
    Attempts = 3
    MaxFailures = 0
INVARIANTS
    SingleFlight
CHECK_DEADLOCK FALSE
