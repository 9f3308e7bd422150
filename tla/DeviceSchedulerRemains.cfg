SPECIFICATION Spec
CONSTANTS
    Ids = {1}
    Versions = {v1, v2}
    Goroutines = {g1, g2}
    Handlers = {}
    None = None
    MaxChanges = 2
INVARIANT RemovalIsComplete
CHECK_DEADLOCK FALSE
