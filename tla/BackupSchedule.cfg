SPECIFICATION FairSpec
CONSTANTS
    Intervals = {3, 5}
    Collectors = {c1, c2}
    None = None
    CaptureLimit = 2
    MaxEdits = 2
INVARIANTS
    TypeOK
    TimersNotLate
PROPERTIES
    ScheduledBackupsSpaced
    DueBackupsHappen
