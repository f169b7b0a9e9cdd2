CONSTANTS
    level = level
    colour = colour
    Slotless = Slotless
    Slots <- MCSlots
    Shapes <- MCOneShape
    MaxRequests = 3
    MaxCalls = 2
    MaxCancels = 1
    MaxGone = 1
    WaitBound = 1
    MinInterval = 1
    Pages = {p}
    Viewers = {v}
    QueueSize = 1
    RingSize = 2
    SnapshotLimit = 1
    MaxEntries = 3
    Endpoints = {1, 2}
    LastEndpoint = 2
    RowsOf <- MCRows
    Percents <- MCPercents
    Lamps = {"d", "r"}
    Orders <- MCOrders
    Keys <- MCKeys
    Plan <- MCPlan
    MaxOrders = 2
    MaxWalls = 1
    MaxLampFaults = 1
    Matter = {m}
    Zigbee = {z}
    InFabric = {}
    MaxSignIns = 1
    MaxHomeCalls = 2
    MaxHomeFaults = 1
    MaxUser = 1
    Removable = {"bulb", "plug"}
    Technology <- MCTechnology
    Deletes = {1, 2, 3}
    Target <- MCTarget
    MaxRemovalFaults = 1
    MaxOutages = 1
    Browsers = {b1, b2}
    Script = Script
    HasToken = TRUE
    Words = {"one", "two"}
    Unset = Unset
    Attempts = {1, 2, 3}
    SessionIds = {1, 2}
    Limit = 2
    Lifetime = 2
    ExtendAfter = 1
    MaxResets = 1
SPECIFICATION AskedSpec
INVARIANTS GateSafe AdaptSafe LampsSafe StreamsSafe HomeSafe
PROPERTIES RequestSteps RemovalIsRight LoginIsRight
CHECK_DEADLOCK FALSE
