SPECIFICATION ArtifactCrashSpec
CONSTANTS
    f = f
    g = g
    a = a
    b = b
    Files <- MCFiles
    Contents <- MCContents
    NONE = NONE
    Imports <- MCImports
    MaxRows = 2
    Unlisted = {}
    MaxCommits = 1
    Procs = {p1}
    Configs = {c1}
    ProjectLayout = TRUE
    DeltaThreshold = 101
    Moves = {"edit"}
    EditDuringCalls = FALSE
    CleanCallsOnly = FALSE
    MaxMoves = 1
    MaxCrashes = 1
    Reimport = FALSE
    MaxImports = 1
INVARIANTS
    NeverPartial
