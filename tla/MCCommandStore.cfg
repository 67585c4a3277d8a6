CONSTANTS
    Command = {c1, c2}
    ClaimTimeout = 2
    MaxLifetime = 3
    MaxNow = 4
    MaxRecords = 9
SPECIFICATION StoreSpec
INVARIANTS
    StoreTypeOK
    AuditTrailIsLegalPath
    CompletedWalkedEveryStage
PROPERTIES
    ClaimIsExclusive
    TrailOnlyGrows
