SPECIFICATION Spec
CONSTANTS
    p = p
    q = q
    r = r
    Stories = {p, q, r}
    DependsOn <- BothThenR
    Preexisting = {"old"}
    MergeRevisions = 1
    FailingRuns = 0
    MaxRuns = 2
INVARIANTS
    RedOnlyAfterTrouble
PROPERTIES
    MergesSurvive
CHECK_DEADLOCK FALSE
