SPECIFICATION Spec
SYMMETRY MCSymmetry
CONSTRAINT ThirdCallIsQuiet
CONSTANTS
    Procs = {p1, p2}
    Versions = {v1, v2}
    Branches = {main}
    NoBranch = NoBranch
    CommitOf <- MCOwn
    SignatureOf <- MCOwn
    NoIndex = NoIndex
    Torn = Torn
    NoRevision = NoRevision
    Sizes = {1}
    Budget = 1
    MaxCalls = 3
    MaxMoves = 2
    MaxRefreshes = 1
CHECK_DEADLOCK FALSE
INVARIANTS
    OneActiveTask
    LastTaskStands
    
    PrimerOfOneRevision
