SPECIFICATION FairSpec
CONSTANTS
    a = a
    b = b
    Executors = {a, b}
    Contexts = {x, y}
    Operators = {"operator"}
    x = x
    y = y
    Takes <- BothRoles
    Slots <- OneSlot
    CoderSlots <- OneCoderEach
    Priority <- Ranks
    Kinds = {"until"}
    Interrupts = FALSE
    MaxHandovers = 1
    MaxCalls = 1
    MaxChanges = 1
PROPERTIES
    EveryStoryEnds
CHECK_DEADLOCK FALSE
