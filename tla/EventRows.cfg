SPECIFICATION FairSpec
CONSTANTS
    v = v
    w = w
    NoOne = NoOne
    Repair = Repair
    Worker = {v, w}
    Instant = {0, 1}
    MaxTicks = 2
    MaxInserts = 1
    MaxRequests = 1
INVARIANTS
    TypeOK
    WindowIsTick
    OnlyFinishedIsHidden
PROPERTIES
    RollbackGoesOn
CHECK_DEADLOCK FALSE
