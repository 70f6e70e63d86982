SPECIFICATION Spec
CONSTANTS
    a = a
    b = b
    r1 = r1
    r2 = r2
    NoRun = NoRun
    Worker = {a, b}
    Run = {r1, r2}
    Transient <- None
    Hearing = {a, b}
    Sweeping = {a, b}
    Connections = 2
    MayShutDown = FALSE
    StepsPerRun = 1
    MaxSkips = 0
    MaxFailures = 2
INVARIANT PoolSuffices
