CONSTANTS
    Symbol = {s1, s2}
    Setup = {p}
    None = None
    CandleRatio = 2
    SetupLife = 3
    QualLife = 2
    Cooldown = 1
    MaxSelected = 1
    TerminalLimit = 1
    MaxNow = 3
    MaxRuns = 3
    MaxOpenTrades = 2
    MaxMargin = 1
    Wallet = 2
    MarginOf <- Margins
SYMMETRY Symmetry
SPECIFICATION Spec
CHECK_DEADLOCK FALSE
INVARIANTS
    ExposureBounded
    CompletedRunLeavesCurrent
PROPERTIES
    EntryProvedWithinSetup
