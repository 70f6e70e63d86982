SPECIFICATION Spec
CONSTANTS
    order = order
    other = other
    ship = ship
    bill = bill
    parent = parent
    child = child
    leaf = leaf
    a = a
    b = b
    c = c
    d = d
    Outside = Outside
    Message = {order, ship, bill}
    Coroutine = {parent, child, leaf}
    Worker = {a, b, c}
    Listeners <- DeepListeners
    Emitter <- DeepEmitter
    StepCount <- DeepSteps
    Serves <- DeepServe
    EmittedIn <- DeepEmittedIn
    MayThrow <- DeepThrow
    Looping <- ParentLoops
    CancelScopes <- ParentScope
    RollbackScopes <- RootAndChildScopes
    EagerScopes <- RootScopes
    Deadlines <- ParentBackDeadline
    MaxTicks = 1
    MaxRecover = 1
    MaxAborts = 0
INVARIANTS
    ChildrenFinishedBeforeParentMoves
    ChildrenUndoneBeforeParentMoves
    CommittedMeansTreeCommitted
    RolledBackMeansTreeRolledBack
    NoChildLeftBehind
CHECK_DEADLOCK FALSE
