CONSTANTS
    Thread = {t1, t2}
    Port = {p1, p2}
    MaxMsgCount = 2
    Team <- OneTeam
    Master = {p1, p2}
    Slave = {p2}
    Fits = {TRUE, FALSE}
    Nowaits = {}
    t1 = t1
    t2 = t2
    m1 = m1
    Reaper = Reaper
    Idle = Idle
    Limbo = Limbo
    MaxRefs = 2
    RunQ = RunQ
    ReaperQ = ReaperQ
    TimerQ = TimerQ
    NULL = NULL
    Waitable <- MCWaitable
SPECIFICATION Spec
SYMMETRY Symmetry
INVARIANT MasterKept
PROPERTY PortsKeepPromise
