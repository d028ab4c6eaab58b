\* Two threads, two descriptors: 5 has a context from the start, 40 needs a resize.
SPECIFICATION Spec
CONSTANTS
    w1 = w1
    w2 = w2
    f1 = f1
    f2 = f2
    c1 = c1
    Threads = {w1, w2}
    Fds = {5, 40}
    Fibers = {f1}
    Callbacks = {c1}
    None = none
    MaxGens = 1
    Reported = {"ready", "error"}
SYMMETRY Symmetric
INVARIANTS
    TypeOK
    PendingExact
    OnePlace
    KernelAgrees
    QueueDrained
