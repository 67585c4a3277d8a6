SPECIFICATION Spec
CONSTANTS
    Instance = {a, b}
    Nobody = Nobody
    Leader = a
    Crashing = {a, b}
    Quantity = 2
    MaxFaults = 1
    MaxCrashes = 1
INVARIANTS
    TypeOK
    NotReversed
    ClosedIsExplained
    OneOutcome
    EventsMatchTrade
PROPERTY
    ClosedStaysClosed
