CONSTANTS
    Thread = {t1, t2, t3}
    Freshness = 0
    NoSnapshot = NoSnapshot
    NoAnswer = NoAnswer
    MaxNow = 1
    MaxCalls = 3
    MaxChanges = 1
    MaxFailures = 1
SPECIFICATION FairSpec
INVARIANTS
    TypeOK
    SingleFlight
    ForcedAnswerIsNew
    AnswerShowsOldChanges
PROPERTY EveryCallReturns
