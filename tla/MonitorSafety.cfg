SPECIFICATION HistorySpec

CONSTANTS
    IncidentID <- TwoIncidents
    MaintenanceID = {m1, m2}
    None = None
    LatencyBreaches = 2
    MaxCount = 2
    MaxRestarts = 1
    Configs <- ChangingConfigs
    MaxIncidents = 1
    Cooldown = 15
    MaxQuiet = 3

SYMMETRY Symmetry

INVARIANTS
    TypeOK
    SoleOpenIncident
    StatesFitRecords
    CountersAreHonest
    AlertsAtMostOnce
    AlertsFitRecords

PROPERTIES
    OpensOnlyWhenConfirmed
    ClosesOnlyWhenConfirmed
    OverStaysOver
    AlertsAreApart
    CapSparesTheActive
