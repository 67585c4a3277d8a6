CONSTANTS
    Instance = {i1, i2}
    None = None
SPECIFICATION Spec
INVARIANTS
    EnabledHasScheduler
    AtMostOneRunAfterLoss
PROPERTY ScansRecur
