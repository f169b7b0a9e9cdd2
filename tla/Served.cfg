CONSTANTS
    src = src
    press = press
    pressN = pressN
    None = None
    Closer = Closer
    Heartbeater = Heartbeater
    Stopper = Stopper
    HeartbeatKey = HeartbeatKey
    Sources = {src}
    Resenders = {r1}
    Events = {press}
    Keys <- MCKeys
    Values <- MCValues
    Tasks <- MCTasks
    CounterOf <- MCCounterOf
    Owner <- MCOwner
    CanStop = TRUE
    MaxEvents = 2
    MaxFailures = 1
    level = level
    colour = colour
    Slotless = Slotless
    Slots <- MCSlots
    Shapes <- MCShapes
    MaxRequests = 3
    MaxCalls = 1
    MaxCancels = 1
    MaxGone = 1
    WaitBound = 1
    MinInterval = 1
    Pages = {p}
    Viewers = {}
    QueueSize = 1
    RingSize = 2
    SnapshotLimit = 1
    MaxEntries = 2
SPECIFICATION ServedSpec
INVARIANT EventsSafe
PROPERTIES HeartbeatAlternates PulseFalls RequestsAreAnswered LinesArrive
CHECK_DEADLOCK FALSE
