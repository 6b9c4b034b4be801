SPECIFICATION Spec
CONSTANTS
    t1 = t1
    t2 = t2
    t3 = t3
    Null = Null
    Tasks = {t1, t2, t3}
    Pids = {t1, t2, t3}
    PidOf <- OwnPid
    Blocking = {}
    PsAvailable = TRUE
    MaxStarts = 2
SYMMETRY TaskSymmetry
INVARIANTS TypeOK MutexUnlessRaced NoLiveDebris SoleCallerAcquires
