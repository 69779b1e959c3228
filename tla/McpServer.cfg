SPECIFICATION ServerFairSpec
CONSTANTS
    Recorders = {c1, c2}
    Roots = {r1, r2}
    NONE = NONE
    RawRetention = 0
    TraceRetention = 0
    MaxDay = 1
    MaxEvents = 2
    MaxDeletes = 1
    Sessions <- MCSessions
    Keys <- MCKeys
    CacheSize = 1
    MaxExports = 1
INVARIANTS
    ReportIsHistory
    NobodyStranded
    GraphAnswerIsCurrent
PROPERTIES
    ListReaches
