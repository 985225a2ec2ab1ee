CONSTANTS
    Node = {n1, n2, n3}
    Role = {r1}
    Worker = {w1, w2}
    NoWorker = NoWorker
    MaxWorkers = 2
    PoolSize = 2
    MaxTries = 1
    Abortable = {n1, n2, n3}
    DiskMayFail = TRUE
SPECIFICATION Spec
CHECK_DEADLOCK FALSE
SYMMETRY Symmetry
INVARIANTS
    WorkersBounded
    ContextComplete
    SummaryAgrees
    EndsSettled
PROPERTY
    ImplementsSchedule
