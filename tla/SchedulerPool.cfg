\* Two workers and the caller, a fiber and a callback; and the caller alone.
SPECIFICATION PairSpec
CONSTANTS
    w1 = w1
    w2 = w2
    f1 = f1
    f2 = f2
    c1 = c1
    Workers <- TwoWorkers
    Root = root
    UseCaller = TRUE
    Fibers = {f1}
    Callbacks = {c1}
    AnyThread = any
    NoTask = none
    EarlyWake = FALSE
    LatePins = FALSE
    MaxYields = 2
INVARIANTS
    TypeOK
    OneOwner
    SwapInAssert
    ActiveCountExact
    NoLostFiber
    NoOrphan
    DrainedOnStop
PROPERTIES
    PoolSpec
    StopReturns
    QueuedIsTaken
    SoloTaken
