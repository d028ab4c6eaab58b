\* A task pins work to the caller after the caller has gone past run().
SPECIFICATION Spec
CONSTANTS
    w1 = w1
    w2 = w2
    f1 = f1
    f2 = f2
    c1 = c1
    Workers <- TwoWorkers
    Root = root
    UseCaller = TRUE
    Fibers = {f1}
    Callbacks = {c1}
    AnyThread = any
    NoTask = none
    EarlyWake = FALSE
    LatePins = TRUE
    MaxYields = 2
INVARIANT DrainedOnStop
