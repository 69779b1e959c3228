SPECIFICATION Spec
CONSTANTS
    Threads = {t1, t2}
    NoThread = NoThread
    Snapshots = {s1, s2, s3, s4}
    NoSnapshot = NoSnapshot
    v1 = v1
    v2 = v2
    v3 = v3
    Keys <- MCKeys
    Versions <- MCVersions
    KeyOf <- MCKeyOf
    CountOf <- MCEdited
    Shrinks = {}
    Far = {}
    GitMayFail = FALSE
    MaxMoves = 1
    MaxCalls = 3
INVARIANT
    LoneAnswerIsOfTheTree
CHECK_DEADLOCK FALSE
