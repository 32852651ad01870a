SPECIFICATION Spec
CONSTANTS
    Request = {r1}
    Value = {blank, v1}
    Blank = blank
    Timeout = {4, 15}
    MaxForms = 2
    MaxFaults = 0
    Custom <- TypedThresholds
SYMMETRY Symmetry
INVARIANTS
    TimeoutBelowInterval
