SPECIFICATION Spec
CONSTANTS
    Names = {a}
    ConfigNames = {a}
    NoName = NoName
    Requests = {r1}
    MaxId = 2
    MaxCrashes = 1
PROPERTY StartupNeverResurrects
