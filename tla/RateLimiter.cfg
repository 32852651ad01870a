SPECIFICATION Spec
CONSTANTS
    Request = {r1, r2}
    Address = {a1}
    User = {u1}
    None = None
    Max = 2
    Window = 2
    Sweeps = TRUE
    MaxTime = 6
INVARIANTS
    BurstsAreBounded
    RefusalIsEarned
