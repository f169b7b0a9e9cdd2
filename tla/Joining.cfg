CONSTANTS
    d1 = d1
    d2 = d2
    k1 = k1
    k2 = k2
    a1 = a1
    a2 = a2
    t1 = t1
    t2 = t2
    None = None
    Devices = {d1, d2}
    Codes = {k1}
    Fits <- MCSharedFits
    OnNetwork = {}
    Scans = {t1, t2}
    Adders = {a1}
    MaxCards = 3
    MaxRemovals = 1
    MaxDrops = 0
    Attempts = {older, newer}
    NoAttempt = NoAttempt
    NoReason = NoReason
    OthersAdd = TRUE
    Blinkers = {b1, b2}
    Nobody = Nobody
    BlinkTicks = 3
    MaxBlinkFaults = 1
    MaxPresses = 1
SYMMETRY Interchangeable
SPECIFICATION JoinSpec
INVARIANT JoiningSafe
PROPERTY RunningIsTheWorkers
CHECK_DEADLOCK FALSE
