SPECIFICATION Spec
CONSTANTS
    order = order
    other = other
    ship = ship
    bill = bill
    parent = parent
    child = child
    leaf = leaf
    a = a
    b = b
    c = c
    d = d
    Outside = Outside
    Message = {order, ship, bill, other}
    Coroutine = {parent, child}
    Worker = {a, b}
    Listeners <- PairListeners
    Emitter <- PairEmitter
    StepCount <- ChainSteps
    Serves <- Serve
    EmittedIn <- PairEmittedIn
    MayThrow <- AllThrow
    Looping <- None
    CancelScopes <- None
    RollbackScopes <- None
    EagerScopes <- None
    Deadlines <- None
    MaxTicks = 2
    MaxRecover = 1
    MaxAborts = 0
INVARIANTS
    RolledBackMeansTreeRolledBack
CHECK_DEADLOCK FALSE
