SPECIFICATION Spec
CONSTANTS
    Runs = {"r1", "r2"}
    Callers = {"c1", "c2"}
    Requests = {"q"}
    NoRequest = "none"
    NoRun = "none"
    ParallelRuns = 1
    Asked <- Wishes
    MaxServers = 1
    MaxCalls = 3
INVARIANTS
    OneWritingRun
CHECK_DEADLOCK FALSE
