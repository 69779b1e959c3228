SPECIFICATION ArtifactSpec
CONSTANTS
    f = f
    g = g
    a = a
    b = b
    Files <- MCFiles
    Contents <- MCContents
    NONE = NONE
    Imports <- MCImports
    MaxRows = 2
    Unlisted = {}
    MaxCommits = 2
    Procs = {p1}
    Configs = {c1}
    ProjectLayout = TRUE
    DeltaThreshold = 101
    Moves = {"edit", "commit", "checkout"}
    EditDuringCalls = FALSE
    CleanCallsOnly = TRUE
    MaxMoves = 4
    MaxCrashes = 0
    Reimport = FALSE
    MaxImports = 2
CHECK_DEADLOCK FALSE
INVARIANTS
    ReturnedIsFresh
    HitIsOfCommit
