SPECIFICATION ServicesSpec
CONSTANTS
    None = None
    Requests = {r1, r2}
    Devices = {d1, d2}
    Sample = Sample
    Empty = Empty
    Waiting = Waiting
    MaxTime = 3
    MaxChanges = 2
    StatusTTL = 2
    OverviewTTL = 2
    OnlineFor = 1
    UnreachableIn = 2
    GeoTTL = 3
    GeoErrorTTL = 2
    MinVisible = 2
    HideDelay = 1
    Openings = {o1, o2, o3}
    Highlights = {h1, h2}
    Summaries = {s1}
    Sizes <- MCSizes
    Plans <- MCPlans
    Pointers <- MCPointers
    Ages <- MCAges
    Pings <- MCPings
    Bandwidths <- MCBandwidths
    Callers = {c1, c2}
    Listeners = {l1}
    Names = {n1, n2}
    Undeclared = {{n2}, {}}
    Callbacks = {k1, k2, k3}
    MaxAsked = 1
    Networks = {n1, n2}
    Scans = {q1, q2}
    MaxErrands = 4
    ManualRanges = {g1}
    DetectedRanges = {g2}
    MaxJobs = 3
SYMMETRY Symmetric
INVARIANTS
    TypeOK
    SharedIsUnderWay
    StoreIsCurrent
    PartsAgree
    QuestionsAreAnswered
    SettingsAreKept
    AccountsAreReachable
    TimesAreTold
    DrawingFits
    
PROPERTIES
    BetterNeedsAReading
    PaceIsKept
CHECK_DEADLOCK FALSE
