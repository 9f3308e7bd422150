SPECIFICATION Spec
CONSTANTS
    Names = {a}
    ConfigNames = {a}
    NoName = NoName
    Requests = {r1, r2}
    MaxId = 2
    MaxCrashes = 1
PROPERTY RestoreHolds
