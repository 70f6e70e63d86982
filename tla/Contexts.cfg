SPECIFICATION ContextSpec
CONSTANTS
    order = order
    other = other
    ship = ship
    bill = bill
    parent = parent
    child = child
    leaf = leaf
    a = a
    b = b
    c = c
    d = d
    happy = happy
    finally = finally
    Outside = Outside
    Message = {order, ship, bill}
    Coroutine = {parent, child}
    Worker = {a, b}
    Listeners <- RetryListeners
    Emitter <- RetryEmitter
    StepCount <- TwoSteps
    Serves <- Serve
    EmittedIn <- RetryEmittedIn
    MayThrow <- AllThrow
    Looping <- None
    CancelScopes <- ChildScope
    RollbackScopes <- RootScopes
    EagerScopes <- None
    Deadlines <- ParentDeadline
    MaxTicks = 2
    MaxRecover = 1
    MaxAborts = 1
    Key = {happy, finally}
    DeadlineKeys = {happy}
    FinallyKey = finally
    Kind <- TryInChild
    ThrowingKinds <- AllButFinally
    Additions <- Timeouts
INVARIANTS
    ContextTypeOK
    FinallyRunsOnceUnlessGivenUp
    EarliestDeadlineWins
CHECK_DEADLOCK FALSE
