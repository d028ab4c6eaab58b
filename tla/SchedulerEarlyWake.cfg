\* A waker on another thread that comes before run() is done with the fiber.
SPECIFICATION Spec
CONSTANTS
    w1 = w1
    w2 = w2
    f1 = f1
    f2 = f2
    c1 = c1
    Workers <- TwoWorkers
    Root = root
    UseCaller = FALSE
    Fibers = {f1}
    Callbacks <- NoCallbacks
    AnyThread = any
    NoTask = none
    EarlyWake = TRUE
    LatePins = FALSE
    MaxYields = 1
INVARIANT OnlyHoldOrInit
