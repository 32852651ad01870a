SPECIFICATION Spec
CONSTANTS
    IncidentID = {i1}
    MaintenanceID = {m1}
    Request = {a1}
    None = None
    LatencyBreaches = 2
    MaxCount = 2
    MaxFaults = 0
    RequestKinds = {"window", "automatic window", "switch", "clear"}
    FaultKinds = {"failed delivery"}
    Serialised = FALSE
    Settings <- Quick
PROPERTIES
    OpensOutsideMaintenance
