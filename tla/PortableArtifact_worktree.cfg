SPECIFICATION ArtifactFairSpec
CONSTANTS
    f = f
    g = g
    a = a
    b = b
    Files <- MCFiles
    Contents <- MCContents
    NONE = NONE
    Imports <- MCImports
    MaxRows = 2
    Unlisted = {}
    MaxCommits = 1
    Procs = {p1}
    Configs = {c1, c2}
    ProjectLayout = TRUE
    DeltaThreshold = 51
    Moves = {"edit"}
    EditDuringCalls = FALSE
    CleanCallsOnly = FALSE
    MaxMoves = 2
    MaxCrashes = 0
    Reimport = FALSE
    MaxImports = 1
INVARIANTS
    NoInventedEdges
    HashConfirmed
    OneVersionPerFile
    AnswersUnderItsConfig
    SyncedIsTheTree
PROPERTIES
    CallsEnd
    ImplementsFreshIndex
