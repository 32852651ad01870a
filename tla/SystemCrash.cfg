SPECIFICATION Spec
CONSTANTS
    IncidentID = {i1, i2}
    MaintenanceID = {}
    Request = {a1}
    None = None
    LatencyBreaches = 2
    MaxCount = 2
    MaxFaults = 1
    RequestKinds = {"window", "automatic window", "switch", "clear"}
    FaultKinds = {"crash", "failed delivery"}
    Serialised = TRUE
    Settings <- Quick
INVARIANTS
    NoDuplicateIncident
