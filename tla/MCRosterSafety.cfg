SPECIFICATION Spec
CONSTANTS
    a = a
    b = b
    Executors = {a, b}
    Contexts = {x, y}
    Operators = {"operator"}
    x = x
    y = y
    Takes <- BothRoles
    Slots <- TwoAndOne
    CoderSlots <- OneCoderEach
    Priority <- Ranks
    Kinds = {"until", "health", "run", "manual"}
    Interrupts = TRUE
    MaxHandovers = 1
    MaxCalls = 1
    MaxChanges = 2
INVARIANTS
    TypeOK
    SlotAccounting
    ClonesDistinct
    Independence
    HolderNeverExhausted
SYMMETRY Symmetry
CHECK_DEADLOCK FALSE
