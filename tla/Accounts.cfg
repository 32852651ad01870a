SPECIFICATION Spec
CONSTANTS
    Request = {r1, r2}
    SessionID = {s1, s2}
    None = None
    Idle = 3
    Absolute = 5
SYMMETRY Symmetry
INVARIANTS
    UseKeepsSignedIn
    CompleteHasAdmin
PROPERTIES
    TimeoutsHold
    GoneStaysGone
