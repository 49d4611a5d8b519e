SPECIFICATION Spec
CONSTANTS
    a = a
    b = b
    d = d
    s1 = s1
    s2 = s2
    c1 = c1
    u2 = u2
    None = None
    Sites = {s1, s2}
    Pages = {a, b, d}
    SiteOf <- MCSiteOf
    Keys = {c1, u2}
    ConfigKeys = {c1}
    KeySite <- MCKeySite
    ConfigPages <- MCConfigPages
    DueLimit = 2
    MaxActs = 2
INVARIANTS
    ScheduledWhenEnabled
PROPERTIES
    FailedRecipeRests
    RunsAreRecovered
CHECK_DEADLOCK FALSE
