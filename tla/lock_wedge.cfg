SPECIFICATION FairSpec
CONSTANTS
    t1 = t1
    t2 = t2
    t3 = t3
    Null = Null
    Tasks = {t1, t2}
    Pids = {t1, t2}
    PidOf <- OwnPid
    Blocking = {t1, t2}
    PsAvailable = TRUE
    MaxStarts = 2
PROPERTY StaleLockReclaimed
