CONSTANTS
    n1 = n1
    n2 = n2
    Sticks = {s1, s2}
    NoStick = NoStick
    MaxApplies = 1
    MaxFailures = 1
    MaxLosses = 1
    MaxPermits = 2
    Nodes = {n1, n2}
    Listening = {n1}
    Order <- MCOrder
    MaxSilences = 2
    MaxLinkLosses = 1
    MaxRaises = 1
    MaxNews = 1
    SweepRaises = FALSE
    ClusterOrder <- MCClusters
    Refusing = {"onoff", "level"}
    Tasks = {t1, t2}
    MaxReadies = 2
    MaxRemovals = 1
    MaxLinks = 1
    MaxRestarts = 1
    MaxUpsets = 1
    PassMayRaise = TRUE
    Paths = {"occupancy", "level"}
    Readings = {1, 2}
    Detecting = {"occupancy"}
    MaxReports = 2
    MaxRowEvents = 2
    MaxTellFailures = 1
    MaxAdoptions = 1
    MaxForgets = 1
    MatterNodes = {n1}
    Attributes = {p1, p2}
    FollowCallers = {route}
    OnlinePath = OnlinePath
    NoPath = NoPath
    MaxNodeChanges = 2
    MaxUpdates = 4
    MaxLinkFaults = 2
SYMMETRY Interchangeable
SPECIFICATION SourcesSpec
INVARIANTS RadioSafe ConfigureSafe LinkSafe
PROPERTIES AvailabilitySafe DeliverySafe
CHECK_DEADLOCK FALSE
