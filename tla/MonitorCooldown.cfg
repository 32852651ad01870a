SPECIFICATION HistorySpec
CONSTANTS
    IncidentID <- TwoIncidents
    MaintenanceID = {m1}
    None = None
    LatencyBreaches = 2
    MaxCount = 3
    MaxRestarts = 0
    Configs <- Balanced
    MaxIncidents = 0
    Cooldown = 15
    MaxQuiet = 15
PROPERTIES
    CooldownHolds
