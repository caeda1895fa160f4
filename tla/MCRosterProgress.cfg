SPECIFICATION FairSpec
CONSTANTS
    a = a
    b = b
    Executors = {a, b}
    Contexts = {x, y, z}
    Operators = {"operator"}
    x = x
    y = y
    z = z
    Takes <- BothRoles
    Slots <- OneSlot
    CoderSlots <- OneCoderEach
    Priority <- Ranks
    Kinds = {}
    Interrupts = FALSE
    MaxHandovers = 1
    MaxCalls = 2
    MaxChanges = 0
INVARIANTS
    NoMissedWake
    NoCyclicWait
PROPERTIES
    EveryStoryEnds
CHECK_DEADLOCK FALSE
