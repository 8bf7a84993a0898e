CONSTANTS
    Thread = {t1, t2, t3}
    Sem = {s1}
    Team = {m1, m2}
    Boot = t1
    BootTeam = m1
    Reaper = Reaper
    Idle = Idle
    ReaperSem = ReaperSem
    RunQ = RunQ
    ReaperQ = ReaperQ
    TimerQ = TimerQ
    NULL = NULL
    Waitable <- MCWaitable
    InitCounts = {0, 1}
    MaxCount = 1
    Naps = {}
    TimerMod = 1
    StrayPeeks = {FALSE}
SPECIFICATION Spec
SYMMETRY Symmetry
INVARIANTS
    TasksKept
    CountsMatch
    OwnersMatch
PROPERTIES
    DeathIsFinal
    SemaphoresKeepPromise
