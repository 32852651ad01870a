SPECIFICATION Spec
CONSTANTS
    Request = {r1}
    Value = {blank, v1}
    Blank = blank
    Timeout = {4, 15}
    MaxForms = 3
    MaxFaults = 0
    Custom <- TypedThresholds
PROPERTIES
    RecoveryKeepsConfig
