SPECIFICATION FairSpec
CONSTANTS
    t1 = t1
    t2 = t2
    t3 = t3
    idle = idle
    Idle = idle
    Task = {t1, t2, t3}
    Boot = {t1, t2, t3}
    RtLevel = {97, 98}
    SchedRequest <- SliceSched
    NiceRequest <- None
    DonorRequest <- None
    Sleepers = {}
    Forkers = {}
    Exiters = {}
    Yielders = {}
    Movers = {}
    TickStride = 2
INVARIANTS
    SliceInRange
PROPERTIES
    EveryTsTaskRuns
