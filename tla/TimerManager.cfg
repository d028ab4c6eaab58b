\* Two timers, two idle threads, delays on both sides of a clock step.
SPECIFICATION Spec
CONSTANTS
    t1 = t1
    t2 = t2
    i1 = i1
    i2 = i2
    Timers = {t1, t2}
    Recurring = {t2}
    Idlers = {i1, i2}
    Delays = {0, 1}
    Start = 10000000
    TickSizes = {1}
    SetBacks = {3600001}
    MaxTicks = 1
    MaxOps = 3
CHECK_DEADLOCK FALSE
INVARIANTS
    TypeOK
    CallbackIffQueued
    OneFate
    Watched
PROPERTY NotEarly
SYMMETRY Symmetric
