SPECIFICATION FairSpec
CONSTANTS
    order = order
    other = other
    ship = ship
    bill = bill
    parent = parent
    child = child
    leaf = leaf
    a = a
    b = b
    c = c
    d = d
    Outside = Outside
    Message = {order, ship, bill}
    Coroutine = {parent, child}
    Worker = {a, b, c}
    Listeners <- RetryListeners
    Emitter <- RetryEmitter
    StepCount <- ChainSteps
    Serves <- Serve2
    EmittedIn <- RetryEmittedIn
    MayThrow <- AllThrow
    Looping <- None
    CancelScopes <- None
    RollbackScopes <- RootScopes
    EagerScopes <- None
    Deadlines <- None
    MaxTicks = 2
    MaxRecover = 1
    MaxAborts = 1
INVARIANTS
    TypeOK
    CompensatedOnceInReverse
PROPERTIES
    NoForwardStepAfterRollback
    StartsUnderSuspendedParent
    KeepsPromise
    EverythingEnds
CHECK_DEADLOCK FALSE
