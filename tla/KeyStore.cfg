SPECIFICATION Spec
CONSTANTS
    Devices = {d1}
    Materials = {m1, m2}
    Secrets = {s1, s2}
    None = None
    Ops = {o1, o2}
    MaxKey = 2
    MaxStops = 1
SYMMETRY Symmetric
INVARIANTS
    TypeOK
    RightKey
    NoFileOutlivesUse
