SPECIFICATION Spec
CONSTANTS
    Names = {a, b}
    ConfigNames = {a}
    NoName = NoName
    Requests = {r1, r2}
    MaxId = 2
    MaxCrashes = 1
SYMMETRY Symmetric
INVARIANT TypeOK
PROPERTIES
    IdsNeverReused
    SweepHonoursGrace
    RestoreHoldsOutsideSweep
    StartupHonoursTombstones
    ImplementsLifecycle
