CONSTANTS
    Thread = {t1, t2}
    Sem = {s1}
    Team = {m1}
    Boot = t1
    BootTeam = m1
    Reaper = Reaper
    Idle = Idle
    ReaperSem = ReaperSem
    RunQ = RunQ
    ReaperQ = ReaperQ
    TimerQ = TimerQ
    NULL = NULL
    Waitable <- MCWaitable
    InitCounts = {0}
    MaxCount = 0
    Naps = {1000, 6000}
    TimerMod = 2
    StrayPeeks = {TRUE, FALSE}
SPECIFICATION FairSpec
PROPERTIES
    AllRun
    AllReclaimed
