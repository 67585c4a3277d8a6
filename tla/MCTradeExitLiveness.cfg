SPECIFICATION FairSpec
CONSTANTS
    Instance = {a}
    Nobody = Nobody
    Leader = a
    Crashing = {a}
    Quantity = 2
    MaxFaults = 1
    MaxCrashes = 1
PROPERTIES
    CloseIsRecorded
    WatchedExitIsRecorded
    ExitIsNoticed
