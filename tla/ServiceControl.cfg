SPECIFICATION Spec
CONSTANTS
    Services = {s1, s2}
    Controllers = {c1, c2}
    None = None
    Packaged = TRUE
    MaxCommands = 3
    MaxFaults = 1
INVARIANTS
    TypeOK
    WorkingServiceRecorded
    StopMeansStopped
    RequestNotLost
    StrangersUnharmed
PROPERTIES
    AcceptedStopEnds
CHECK_DEADLOCK FALSE
