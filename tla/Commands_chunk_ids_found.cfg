CONSTANTS
    NONE = NONE
    CoDirectoryDenseThreshold = 2
    CoDirectoryWindowSize = 1
    HighFanIn = 2
    EntryPointMaxDepth = 2
    ImpactConfigNames <- MCConfigNames
    ConfigNames <- MCConfigNames
    TestNames <- MCTestNames
    Trees <- MCTrees
    Queries <- MCQueries
    Changes <- MCChanges
    MaxBoostedPerFile = 1
    MaxBoostedPerModule = 1
    MinResults = 2
    MaxExpansionFiles = 2
    MaxChunksPerFile = 2
    MaxFiles = 4
    FairMaxFiles = 3
    ClearMaxFiles = 2
    NarrowMaxFiles = 2
    CliApiMaxFiles = 3
    CliMaxChunksPerFile = 1
    MaxReceiptSkipped = 2
    ContextTrees <- MCContextTrees
    Requests <- MCRequests
    Legs <- MCLegs
    DefaultBudget = 8
    IntentBudget <- MCIntentBudget
    Clients <- MCClients
    Homes <- MCHomes
    MaxEdits = 1
    MaxJobs = 2
    ScoutCaps = {1, 5, 8, 11}
    ScoutFileLimit <- MCScoutFileLimit
    SymbolsPerFile = 1
    ModuleLimit = 1
    GraphEdgeLimit = 3
    FetchLimits <- MCFetchLimits
    RenderedTokens <- MCRenderedTokens
    NameEndings <- MCNameEndings
    ChunkMaxTokens = 5
    ChunkMinTokens = 3
    CastMergeBudget = 3
    ParallelAbove = 1
    IngestOptions <- MCIngestOptions
    Worktrees <- MCWorktrees
    Embeddable = {"f", "g"}
    Embedded <- MCEmbedded
    IndexConfigs <- MCIndexConfigs
    Checkouts <- JavaCheckouts
    Bundles <- MCBundles
    TightMaxTokens = 4
    StandardMaxTokens = 9
    Timers = {t1}
    NoTimer = NoTimer
    MaxVersion = 0
    MaxNoise = 0
    LargeTokenCount = 6
    AnchorTokens = 3
SPECIFICATION CommandsSpec
CHECK_DEADLOCK FALSE
INVARIANT ChunkIdsUnique
