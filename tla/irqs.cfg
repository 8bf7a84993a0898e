CONSTANTS
    Thread = {t1, t2, t3}
    Irq = {1, 4, 7}
    Drives <- MCDrives
    t1 = t1
    t2 = t2
    t3 = t3
    Reaper = Reaper
    Idle = Idle
    Limbo = Limbo
    RunQ = RunQ
    ReaperQ = ReaperQ
    TimerQ = TimerQ
    NULL = NULL
    Waitable <- MCWaitable
    MaxRaises = 4
SPECIFICATION FairSpec
INVARIANTS
    DriversKept
    EachHasItsEnd
PROPERTY IrqReachesDriver
