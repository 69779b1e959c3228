SPECIFICATION Spec
CONSTANTS
    Threads = {t1, t2}
    NoThread = NoThread
    Snapshots = {s1, s2, s3, s4}
    NoSnapshot = NoSnapshot
    v1 = v1
    v2 = v2
    v3 = v3
    Keys <- MCKeys
    Versions <- MCVersions
    KeyOf <- MCKeyOf
    CountOf <- MCCountOf
    Shrinks <- MCShrinks
    Far = {v3}
    GitMayFail = TRUE
    MaxMoves = 2
    MaxCalls = 3
INVARIANTS
    NoLeakedConnection
    RegisteredIsOpen
    AnswerIsOfTheTree
    NoneStuck
CHECK_DEADLOCK FALSE
SYMMETRY MCSymmetry
