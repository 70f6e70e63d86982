SPECIFICATION FairSpec
CONSTANTS
    order = order
    other = other
    ship = ship
    bill = bill
    parent = parent
    child = child
    leaf = leaf
    a = a
    b = b
    c = c
    d = d
    Outside = Outside
    Message = {order, ship}
    Coroutine = {parent, child}
    Worker = {a, b}
    Listeners <- ChainListeners
    Emitter <- ChainEmitter
    StepCount <- ChainSteps
    Serves <- Serve
    EmittedIn <- ChainEmittedIn
    MayThrow <- None
    Looping <- None
    CancelScopes <- ParentScope
    RollbackScopes <- None
    EagerScopes <- None
    Deadlines <- None
    MaxTicks = 2
    MaxRecover = 0
    MaxAborts = 0
PROPERTIES
    EveryCancelledRunEnds
CHECK_DEADLOCK FALSE
