SPECIFICATION ContextSpec
CONSTANTS
    order = order
    other = other
    ship = ship
    bill = bill
    parent = parent
    child = child
    leaf = leaf
    a = a
    b = b
    c = c
    d = d
    happy = happy
    finally = finally
    Outside = Outside
    Message = {order, ship}
    Coroutine = {parent, child}
    Worker = {a, b}
    Listeners <- ChainListeners
    Emitter <- ChainEmitter
    StepCount <- TwoSteps
    Serves <- Serve
    EmittedIn <- ChainEmittedIn
    MayThrow <- AllThrow
    Looping <- None
    CancelScopes <- None
    RollbackScopes <- RootScopes
    EagerScopes <- None
    Deadlines <- None
    MaxTicks = 2
    MaxRecover = 0
    MaxAborts = 1
    Key = {happy, finally}
    DeadlineKeys = {happy}
    FinallyKey = finally
    Kind <- TryInBoth
    ThrowingKinds <- AllButFinally
    Additions <- Timeouts
INVARIANT FinallyRunsOnce
CHECK_DEADLOCK FALSE
