CONSTANTS
    d1 = d1
    k1 = k1
    k2 = k2
    d2 = d2
    a1 = a1
    a2 = a2
    t1 = t1
    t2 = t2
    None = None
    Devices = {d1}
    Codes = {k1, k2}
    Fits <- MCFits
    OnNetwork = {k2}
    Scans = {t1}
    Adders = {a1}
    MaxCards = 2
    MaxRemovals = 1
    MaxDrops = 1
    Plugs = {s1, s2}
    NoPlug = NoPlug
    MaxJobs = 2
    MaxKills = 0
    MaxResets = 0
SPECIFICATION SeenSpec
INVARIANT CardsAreServed
PROPERTIES CardsAreTried GivenIsLooked
CHECK_DEADLOCK FALSE
