CONSTANTS
    Command = {c1}
    ClaimTimeout = 2
    MaxLifetime = 3
    MaxNow = 4
    MaxRecords = 100
    s1 = s1
    Signal = {s1}
    SignalOf <- OneSignal
    Instance = {p1}
    NoInstance = NoInstance
    NoCommand = NoCommand
    MaxFaults = 1
    MaxCrashes = 0
SPECIFICATION FairSpec
PROPERTIES
    CommandsSettle
    NakedPositionIsFlagged
