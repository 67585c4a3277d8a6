CONSTANTS
    Command = {c1, c2}
    ClaimTimeout = 1
    MaxLifetime = 2
    MaxNow = 3
    MaxRecords = 100
    s1 = s1
    Signal = {s1}
    SignalOf <- OneSignal
    Instance = {p1}
    NoInstance = NoInstance
    NoCommand = NoCommand
    MaxFaults = 2
    MaxCrashes = 1
SYMMETRY Symmetry
SPECIFICATION Spec
INVARIANTS
    TypeOK
    OneEntryPerSignal
    EntryIsRecorded
    CompletedIsProtected
PROPERTIES
    StoreCalls
