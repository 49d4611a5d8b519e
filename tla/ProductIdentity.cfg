SPECIFICATION Spec
CONSTANTS
    Pages = {p1, p2, p3}
    Listings <- MCListings
    Catalogued = {m1, m2}
    None = None
    MaxProducts = 3
    MaxFaults = 1
    b1 = b1
    k1 = k1
    k2 = k2
    m1 = m1
    m2 = m2
INVARIANTS
    TypeOK
    BarcodesDistinct
    AutomaticJoinsAgree
    CatalogAgrees
    EventsFollowOffers
SYMMETRY PageSymmetry
CHECK_DEADLOCK FALSE
