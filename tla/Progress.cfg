SPECIFICATION FairSpec
CONSTANTS
    None = None
    Names = {a}
    ConfigNames = {a}
    NoName = NoName
    Requests = {r1, r2}
    MaxId = 2
    MaxCrashes = 1
    DeviceIds = {1}
    Versions = {v1, v2}
    Goroutines = {g1, g2}
    Handlers = {}
    MaxChanges = 3
PROPERTIES
    ScheduledDeletionEnds
    ShutdownEnds
    CatchesUp
CHECK_DEADLOCK FALSE
