SPECIFICATION FairSpec
CONSTANTS
    Runs = {"r1", "r2"}
    Callers = {"c1", "c2"}
    Requests = {"q"}
    NoRequest = "none"
    NoRun = "none"
    ParallelRuns = 1
    Asked <- Wishes
    MaxServers = 2
    MaxCalls = 3
INVARIANTS
    TypeOK
    WithinLimit
    OneRunPerRequest
    SignalledOnce
PROPERTIES
    KeepsPromise
    CallsEnd
    StopsAreSeenThrough
CHECK_DEADLOCK FALSE
