SPECIFICATION Spec
CONSTANTS
    Request = {r1, r2}
    Value = {blank, v1}
    Blank = blank
    Timeout = {4}
    MaxForms = 3
    MaxFaults = 1
    Custom <- TypedThresholds
SYMMETRY Symmetry
INVARIANTS
    SavedIsKept
    ConfiguredProxiesHold
    HalfSetUpOnlyByFailure
    StoredIsValid
