SPECIFICATION Spec
CONSTANTS
    a = a
    b = b
    r1 = r1
    r2 = r2
    NoRun = NoRun
    Worker = {a, b}
    Run = {r1, r2}
    Transient <- OneTransient
    Hearing <- OneTransient
    Sweeping <- None
    Connections = 3
    MayShutDown = TRUE
    StepsPerRun = 1
    MaxSkips = 0
    MaxFailures = 2
INVARIANTS
    OneTickAtATime
    ReadyRunHasAWorker
    PoolSuffices
    ClosedMeansStopped
SYMMETRY RunsAlike
CONSTRAINT TroublesApart
