\* One timer, cancelled or collected by another thread in the gap of listExpiredCb.
SPECIFICATION Spec
CONSTANTS
    t1 = t1
    t2 = t2
    i1 = i1
    i2 = i2
    Timers = {t1}
    Recurring = {}
    Idlers = {i1, i2}
    Delays = {0, 1}
    Start = 10000000
    TickSizes = {1}
    SetBacks = {3600001}
    MaxTicks = 1
    MaxOps = 3
CHECK_DEADLOCK FALSE
INVARIANT NoCrash
