SPECIFICATION FairSpec

CONSTANTS
    IncidentID = {i1, i2}
    MaintenanceID = {m1}
    Request = {a1}
    None = None
    LatencyBreaches = 2
    MaxCount = 2
    MaxFaults = 1
    RequestKinds = {"automatic window", "switch"}
    FaultKinds = {"crash", "failed save"}
    Serialised = FALSE
    Settings <- Quick

INVARIANTS
    OutageAlertOnce

PROPERTIES
    OverStaysOver
    HealsToOffline
    HealsToOnline
    MaintenanceFinishes
