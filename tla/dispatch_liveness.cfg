CONSTANTS
    Node = {n1, n2}
    Role = {r1}
    Worker = {w1, w2}
    NoWorker = NoWorker
    MaxWorkers = 2
    PoolSize = 1
    MaxTries = 2
    Abortable = {n1, n2}
    DiskMayFail = TRUE
SPECIFICATION FairSpec
CHECK_DEADLOCK FALSE
PROPERTIES
    RunEnds
    
