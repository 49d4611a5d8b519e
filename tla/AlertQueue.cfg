SPECIFICATION Spec
CONSTANTS
    MaxAlerts = 2
    Products = {p1, p2}
    NoProduct = NoProduct
    Watchlists = {w1}
    NumChannels = 2
    Local = {1}
    Switchable = {2}
    MaxFaults = 1
PROPERTIES
    KeepsPromise
    NoRepeatedAlert
    AlertSettled
CHECK_DEADLOCK FALSE
