SPECIFICATION Spec
CONSTANTS
    IncidentID = {i1, i2}
    MaintenanceID = {m1}
    Request = {a1}
    None = None
    LatencyBreaches = 2
    MaxCount = 2
    MaxFaults = 0
    RequestKinds = {"window", "automatic window", "switch", "clear"}
    FaultKinds = {"failed delivery"}
    Serialised = TRUE
    Settings <- Balanced
INVARIANTS
    RecoveryAlertOnce

PROPERTIES
    EndedStaysEnded
    Refines
