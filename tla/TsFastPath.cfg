SPECIFICATION Spec
CONSTANTS
    t1 = t1
    t2 = t2
    t3 = t3
    idle = idle
    Idle = idle
    Task = {t1, t2}
    Boot = {t1, t2}
    RtLevel = {97, 98}
    SchedRequest <- SliceSched
    NiceRequest <- None
    DonorRequest <- None
    Sleepers = {t1}
    Forkers = {}
    Exiters = {}
    Yielders = {}
    Movers = {}
    TickStride = 4
INVARIANTS
    FastPathIsFairOnly
