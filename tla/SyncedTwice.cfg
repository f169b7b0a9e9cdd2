CONSTANTS
    SyncDevices <- MCDevices
    Groups <- MCGroups
    RoomNames <- MCRoomNames
    Files <- BareFiles
    Houses <- TwoDevices
    Nowhere = Nowhere
    NoIp = "none"
    NoName = "none"
    Odd = "odd"
    Absent = Absent
    MaxFileEdits = 0
    MaxSyncs = 2
SPECIFICATION SyncSpec
INVARIANT SecondPassIsClean
CHECK_DEADLOCK FALSE
