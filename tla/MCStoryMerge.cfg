SPECIFICATION FairSpec
CONSTANTS
    p = p
    q = q
    r = r
    Stories = {p, q, r}
    DependsOn <- QThenR
    Preexisting = {"old"}
    MergeRevisions = 1
    MaxRuns = 1
    FailingRuns = 1
INVARIANTS
    TypeOK
    MergedIsOnEpic
    RedOnlyAfterTrouble
    ChargedForAdded
PROPERTIES
    EveryStorySettles
CHECK_DEADLOCK FALSE
