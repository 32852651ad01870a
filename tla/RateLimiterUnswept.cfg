SPECIFICATION FairSpec
CONSTANTS
    Request = {r1, r2}
    Address = {a1}
    User = {u1}
    None = None
    Max = 2
    Window = 2
    Sweeps = FALSE
    MaxTime = 4
PROPERTIES
    ExpiredAreRemoved
