SPECIFICATION Spec
CONSTANTS
    Offers = {o1}
    Requests = {r1}
    States = {"in_stock", "out_of_stock", "unknown"}
    ArchiveAfter = 2
    Confirmations = 2
    PreorderIsPurchasable = FALSE
    MaxListings = 1
    MaxFaults = 1
INVARIANTS
    NeverExposesOldStock
    ArchiveJustified
    SettledRowsConsistent
    NoStrandedRequest
PROPERTIES
    StableTransition
    TransitionHandedOn
    RunsAreRecovered
    RequestSettled
CHECK_DEADLOCK FALSE
