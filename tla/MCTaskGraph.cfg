SPECIFICATION FairSpec
CONSTANTS
    N = 5
    DependsOn <- Waits
    Owns <- Files
    Title <- Titles
    Concurrency = 3
    MaxRuns = 2
INVARIANTS
    TypeOK
    CompleteIsOnBranch
    DependenciesFound
    AloneInWorktree
    AsidesApart
PROPERTIES
    PlanEnds
CHECK_DEADLOCK FALSE
