SPECIFICATION FairSpec
CONSTANTS
    w = w
    x = x
    y = y
    z = z
    Stories = {w, x, y, z}
    DependsOn <- Waits
    Position <- Places
    Concurrency = 2
    MaxCapacity = 2
    MaxCapacityChanges = 2
INVARIANTS
    TypeOK
    RecordedOnce
    NoReadyStoryForgotten
    RetriedOnce
PROPERTIES
    LaunchesWithinLimit
    KeepsPromise
    EpicEnds
CHECK_DEADLOCK FALSE
