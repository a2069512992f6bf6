SPECIFICATION FairSpec
CONSTANTS
    p1 = p1
    p2 = p2
    Photos = {p1, p2}
    Requests = {r1}
    MaxRev = 2
    MaxTries = 2
    RunSize = 1
    Batches = 2
    Starts <- OneOrTwo
    NoJob = NoJob
    NoFaces = NoFaces
    NoWork = NoWork
CHECK_DEADLOCK FALSE
INVARIANT FaceInv
INVARIANT ClearedStaysCleared
PROPERTY OrderedIsReconciled
 
