\* Two descriptors beyond the vector, registered at the same time.
SPECIFICATION Spec
CONSTANTS
    w1 = w1
    w2 = w2
    f1 = f1
    f2 = f2
    c1 = c1
    Threads = {w1, w2}
    Fds = {40, 100}
    Fibers = {f1, f2}
    Callbacks = {}
    None = none
    MaxGens = 1
    Reported = {"ready"}
INVARIANT CancelFinds
