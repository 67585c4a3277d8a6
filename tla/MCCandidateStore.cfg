CONSTANTS
    Symbol = {s1, s2}
    Setup = {p}
    None = None
    CandleRatio = 2
    SetupLife = 2
    QualLife = 1
    Cooldown = 1
    MaxSelected = 2
    TerminalLimit = 1
    MaxNow = 2
    MaxRuns = 4
SYMMETRY Symmetry
SPECIFICATION StoreSpec
CHECK_DEADLOCK FALSE
INVARIANTS
    EndedStaysEnded
