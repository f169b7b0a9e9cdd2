CONSTANTS
    n1 = n1
    n2 = n2
    Sticks = {s1, s2}
    NoStick = NoStick
    MaxApplies = 1
    MaxFailures = 1
    MaxLosses = 2
    MaxPermits = 0
    Nodes = {n1, n2}
    Listening = {n1}
    Order <- MCOrder
    MaxSilences = 1
    MaxLinkLosses = 1
    MaxRaises = 1
    MaxNews = 1
    SweepRaises = FALSE
    ClusterOrder <- MCClusters
    Refusing = {"onoff", "level"}
    Tasks = {t1, t2}
    MaxReadies = 2
    MaxRemovals = 1
    MaxLinks = 0
    MaxRestarts = 0
    MaxUpsets = 1
    PassMayRaise = FALSE
    MatterNodes = {n1}
    Attributes = {p1, p2}
    FollowCallers = {route}
    OnlinePath = OnlinePath
    NoPath = NoPath
    MaxNodeChanges = 2
    MaxUpdates = 2
    MaxLinkFaults = 2
SPECIFICATION AnsweredSpec
PROPERTIES LinksComeBack AvailabilityShown ConfigurePaid
CHECK_DEADLOCK FALSE
