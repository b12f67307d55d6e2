CONSTANTS
    Threads = {t1, t2}
    Workers = {w1, w2}
    NoWorker = NoWorker
    NoThread = NoThread
    MaxRunning = 1
    Retries = 1
    Lease = 1
    Delay = 1
    Versions = 2
    Events = 2
SPECIFICATION Spec
SYMMETRY Sym
INVARIANTS
    TypeOK
    OutputIsOfSuccess
    OneOwner
    RunningLimit
    RetryBudget
    BaselineIsSeen
CHECK_DEADLOCK FALSE
