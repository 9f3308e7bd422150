SPECIFICATION FairSpec
CONSTANTS
    None = None
    Requests = {r1, r2}
    Devices = {d1, d2}
    Sample = Sample
    Empty = Empty
    Waiting = Waiting
    MaxTime = 3
    MaxChanges = 4
    StatusTTL = 2
    OverviewTTL = 2
    OnlineFor = 1
    UnreachableIn = 2
    GeoTTL = 3
    GeoErrorTTL = 2
    MinVisible = 2
    HideDelay = 1
PROPERTY FirstRunShowsSetup
CHECK_DEADLOCK FALSE
