SPECIFICATION Spec
CONSTANTS
    f = f
    g = g
    a = a
    b = b
    Files <- MCFiles
    Contents <- MCContents1
    NONE = NONE
    Imports <- MCImports
    MaxRows = 2
    Unlisted = {}
    MaxCommits = 2
    Procs = {p1, p2}
    Configs = {c1}
    ProjectLayout = FALSE
    DeltaThreshold = 101
    Moves = {"edit", "commit", "checkout"}
    EditDuringCalls = FALSE
    CleanCallsOnly = FALSE
    MaxMoves = 3
    MaxCrashes = 1
SYMMETRY ProcSymmetry
CONSTRAINT OneFault
INVARIANTS
    NoOrphanChunks
