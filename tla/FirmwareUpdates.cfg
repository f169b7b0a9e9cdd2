CONSTANTS
    Devices <- MCDevices
    c1 = c1
    Checks = {c1}
    MaxVersion = 1
    MaxFaults = 1
    MaxClicks = 2
    None = None
SPECIFICATION FairSpec
INVARIANT FirmwareSafe
PROPERTIES QueueKeepsOrder QueueEmpties
CHECK_DEADLOCK FALSE
