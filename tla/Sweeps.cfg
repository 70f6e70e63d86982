SPECIFICATION FairSpec
CONSTANTS
    a = a
    b = b
    r1 = r1
    r2 = r2
    NoRun = NoRun
    Worker = {a}
    Run = {r1, r2}
    Transient <- None
    Hearing = {a}
    Sweeping = {a}
    Connections = 2
    MayShutDown = FALSE
    StepsPerRun = 2
    MaxSkips = 2
    MaxFailures = 1
INVARIANTS
    TypeOK
    SignalKept
PROPERTIES
    EveryMessageIsHandled
    GatesGoQuiet
