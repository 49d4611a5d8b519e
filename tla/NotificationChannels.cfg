SPECIFICATION BoundedSpec
CONSTANTS
    MaxEvents = 2
    o1 = o1
    o2 = o2
    p1 = p1
    p2 = p2
    Offers = {o1, o2}
    Products = {p1, p2}
    NumChannels = 2
    Local = {1}
    Switchable = {2}
    MaxFaults = 1
PROPERTIES
    KeepsPromise
    NoRepeatedSummary
    EventSettled
CHECK_DEADLOCK FALSE
