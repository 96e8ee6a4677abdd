SPECIFICATION Spec
CONSTANTS
    t1 = t1
    t2 = t2
    t3 = t3
    idle = idle
    Idle = idle
    Task = {t1, t2}
    Boot = {t1}
    RtLevel = {97, 98}
    SchedRequest <- ClassesSched
    NiceRequest <- ClassesNice
    DonorRequest <- ClassesDonor
    Sleepers = {t1}
    Forkers = {t1}
    Exiters = {t2}
    Yielders = {t2}
    Movers = {t1}
    TickStride = 4
INVARIANTS
    RtUrgent
    RtAtItsPrio
    FiledOnce
    NrRunningCounts
    NewTaskIsClean
PROPERTIES
    ClassAgrees
    ResetIsHonoured
