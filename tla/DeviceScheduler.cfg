SPECIFICATION Spec
CONSTANTS
    Ids = {1, 2}
    Versions = {v1, v2}
    Goroutines = {g1, g2, g3}
    Handlers = {h1}
    None = None
    MaxChanges = 2
SYMMETRY Symmetric
INVARIANTS
    TypeOK
    NoStrayCollector
    OneActivePerDevice
    WaitGroupCounts
    QuietAfterShutdown
    DeletedStaysRetired
CHECK_DEADLOCK FALSE
