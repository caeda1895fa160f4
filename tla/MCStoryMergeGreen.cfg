SPECIFICATION Spec
CONSTANTS
    p = p
    q = q
    r = r
    Stories = {p, q, r}
    DependsOn <- QThenR
    Preexisting = {"old"}
    MergeRevisions = 1
    MaxRuns = 1
    FailingRuns = 0
INVARIANTS
    HeadStaysGreen
CHECK_DEADLOCK FALSE
