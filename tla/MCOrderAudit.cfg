SPECIFICATION Spec
CONSTANTS
    a = a
    b = b
    Auditor = {a, b}
    Quantity = 3
SYMMETRY AuditorSymmetry
INVARIANTS
    AuditedIsTrue
    RecordsAreReadable
    TruthIsAccepted
PROPERTIES
    ImplementsLedger
