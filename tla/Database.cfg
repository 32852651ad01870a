SPECIFICATION FairSpec
CONSTANTS
    Build = {1, 2, 3}
    MaxSecond = 3
    MaxFaults = 3
INVARIANTS
    BackupsAreWhole
    MigratedIsBackedUp
    ServesItsSchema
PROPERTIES
    ServesAgain
