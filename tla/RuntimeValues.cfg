CONSTANTS
    src = src
    r1 = r1
    r2 = r2
    k1 = k1
    k2 = k2
    on = on
    off = off
    None = None
    Closer = Closer
    Sources = {src}
    Resenders = {r1, r2}
    Keys = {k1}
    Values = {on, off}
    Tasks <- MCTasks
    Owner <- MCOwner
    Marked <- MCMarked
    Online = {}
    MaxReports = 3
    MaxFailures = 1
SPECIFICATION FairSpec
INVARIANTS LineInOrder ResendRestores
PROPERTIES ResendEnds FeedSpec SilentOnceClosed
CHECK_DEADLOCK FALSE
