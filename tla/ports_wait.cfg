CONSTANTS
    Thread = {t1, t2, t3}
    Port = {p1}
    MaxMsgCount = 2
    Team <- OneTeam
    Master = {}
    Slave = {}
    Fits = {TRUE, FALSE}
    Nowaits = {TRUE, FALSE}
    t1 = t1
    t2 = t2
    m1 = m1
    Reaper = Reaper
    Idle = Idle
    Limbo = Limbo
    MaxRefs = 3
    RunQ = RunQ
    ReaperQ = ReaperQ
    TimerQ = TimerQ
    NULL = NULL
    Waitable <- MCWaitable
SPECIFICATION FairSpec
INVARIANTS
    WaitersKept
    NobodyForgotten
PROPERTY WaitersReached
