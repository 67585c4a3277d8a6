CONSTANTS
    Command = {c1}
    ClaimTimeout = 1
    MaxLifetime = 3
    MaxNow = 3
    MaxRecords = 100
    s1 = s1
    Signal = {s1}
    SignalOf <- OneSignal
    Instance = {p1, p2}
    NoInstance = NoInstance
    NoCommand = NoCommand
    MaxFaults = 1
    MaxCrashes = 0
SPECIFICATION Spec
INVARIANT OneEntryPerSignal
