SPECIFICATION HistorySpec
CONSTANTS
    IncidentID <- TwoIncidents
    MaintenanceID = {m1}
    None = None
    LatencyBreaches = 2
    MaxCount = 2
    MaxRestarts = 0
    Configs <- ChangingConfigs
    MaxIncidents = 0
    Cooldown = 15
    MaxQuiet = 0
PROPERTIES
    FirstFailureIsOfTheOutage
