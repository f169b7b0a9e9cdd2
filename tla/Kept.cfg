CONSTANTS
    t1 = t1
    t2 = t2
    Things = {t1, t2}
    CommandPairs = {"level", "color", "lock"}
    LightPairs = {"color", "lock"}
    Offers <- MCOffers
    Slug <- MCSlug
    MaxDevices = 2
    MaxGroups = 1
    MaxStoreFaults = 1
    MaxStoreEdits = 1
    Originals = {2, 3, 8, 11, 13}
    KindSets <- MCKindSets
    MaxStops = 2
    MaxTicks = 2
    Plugs = {s1, s2}
    NoPlug = NoPlug
    MaxJobs = 2
    MaxKills = 1
    MaxResets = 1
    MaxThreadFaults = 1
    MaxJoins = 1
    MaxRestarts = 1
    MaxLosses = 1
    SyncDevices <- MCDevices
    Groups <- MCGroups
    RoomNames <- MCRoomNames
    Files <- MCFiles
    Houses <- MCHouses
    Nowhere = Nowhere
    NoIp = "none"
    NoName = "none"
    Odd = "odd"
    Absent = Absent
    MaxFileEdits = 2
    MaxSyncs = 2
SPECIFICATION KeptSpec
INVARIANTS StoreSafe SidecarSafe ThreadSafe
PROPERTIES KeysAreKept SchemaSafe SyncSafe
CHECK_DEADLOCK FALSE
