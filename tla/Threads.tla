------------------------------- MODULE Threads -------------------------------
(***************************************************************************)
(* Threads, semaphores, teams, the reaper and timed sleep, on top of the    *)
(* scheduler of Sched: the system calls thr_create, thr_spawn, thr_wait,    *)
(* os_terminate, os_sleep and sem_*, the timer interrupt, and the kernel    *)
(* thread that reclaims the dead.                                           *)
(* src/openblt/kernel/{syscall,sem,task,team,kernel,fault}.c                *)
(*                                                                         *)
(* A thread in user mode may do any of the calls, in any order, with any    *)
(* identifier, or be interrupted by the timer, or fault.  A thread that     *)
(* slept inside a call resumes there (pc) before it is in user mode again;  *)
(* between the two the processor takes no interrupt.                        *)
(***************************************************************************)
EXTENDS Sched, FiniteSets

CONSTANTS
    Sem,         \* the sem_t's (and ids) user threads can create
    ReaperSem,   \* reaper_sem, "death toll"
    Team,        \* the team_t's
    Boot,        \* the thread of the one program in the boot image
    BootTeam,    \* its team
    InitCounts,  \* the initial counts user threads give to sem_create
    Naps,        \* the times, in microseconds, they give to os_sleep
    TimerMod,    \* kernel_timer counts modulo this (2^32 in the code)
    MaxCount,    \* bound of the model on the count of a semaphore
    StrayPeeks   \* what rsrc_queue_peek may find behind an empty queue

ASSUME ThreadsAssumption ==
    /\ Waitable = Thread \cup Sem \cup {ReaperSem}
    /\ Thread \cap Sem = {} /\ ReaperSem \notin Thread \cup Sem
    /\ Team \cap (Waitable \cup {NULL}) = {}
    /\ Boot \in Thread /\ BootTeam \in Team /\ IsFiniteSet(Thread)
    /\ InitCounts \subseteq Nat /\ Naps \subseteq Nat
    /\ TimerMod \in Nat \ {0} /\ MaxCount \in Nat
    /\ StrayPeeks \subseteq BOOLEAN /\ StrayPeeks # {}

VARIABLES
    k,          \* the scheduler's state, see Sched!KState
    bound,      \* the identifiers rsrc_find finds: threads, semaphores, teams
    count,      \* sem_t.count
    team,       \* task_t.team, NULL for a task_t that is free
    refcount,   \* team_t.refcount
    resources,  \* team_t.resources: the threads and semaphores a team owns
    timer,      \* kernel_timer
    pc,         \* where a task that is switched to resumes
    res         \* what the last sem_acquire of a thread returned

vars == <<k, bound, count, team, refcount, resources, timer, pc, res>>

AllSem == Sem \cup {ReaperSem}
Owned == Thread \cup Sem
PC == {"user", "sem_acquire", "thr_wait", "reaper", "reap", "team_destroy"}

\* list_remove: the list without the node that holds x (there is one at most).
ListRemove(l, x) ==
    IF x \in Elems(l)
    THEN LET i == CHOOSE i \in DOMAIN l : l[i] = x
         IN  SubSeq(l, 1, i - 1) \o SubSeq(l, i + 1, Len(l))
    ELSE l

\* The owner's list forgotten, what a slip in rsrc_release would do.
DisownedNot(x) == resources

\* rsrc_release takes the resource off its owner's list, whoever that is.
Disowned(x) == [m \in Team |-> ListRemove(resources[m], x)]

-----------------------------------------------------------------------------
(* After go_kernel: the boot thread runs, the reaper waits for its turn.    *)

Init ==
    /\ k = [ queue      |-> [o \in Object |-> IF o = RunQ THEN <<Reaper>>
                                              ELSE <<>>],
             waiting_on |-> [t \in Task |-> IF t = Reaper THEN RunQ ELSE NULL],
             flags      |-> [t \in Task |-> IF t = Boot THEN "RUNNING"
                                            ELSE IF t = Reaper THEN "WAITING"
                                            ELSE "READY"],
             status     |-> [t \in Task |-> "NONE"],
             wait_time  |-> [t \in Task |-> 0],
             current    |-> Boot,
             live_tasks |-> 3,     \* Boot, and go_kernel counts reaper and pager
             stop       |-> "no" ]
    /\ bound = {Boot, BootTeam, ReaperSem}
    /\ count = [s \in AllSem |-> 0]
    /\ team = [t \in Thread |-> IF t = Boot THEN BootTeam ELSE NULL]
    /\ refcount = [m \in Team |-> IF m = BootTeam THEN 1 ELSE 0]
    /\ resources = [m \in Team |-> IF m = BootTeam THEN <<Boot>> ELSE <<>>]
    /\ timer = 0
    /\ pc = [t \in Task |-> IF t = Reaper THEN "reaper" ELSE "user"]
    /\ res = [t \in Thread |-> "NONE"]

me == k.current

\* The processor is in user mode (or idles) and takes interrupts.
Interruptible == k.stop = "no" /\ pc[me] = "user"
\* A user thread runs, and may enter the kernel.
InUser == Interruptible /\ me \in Thread
\* A task that was switched to continues where it gave the processor away.
Resumes(at) == k.stop = "no" /\ pc[me] = at

Return(r) == res' = [res EXCEPT ![me] = r]
Goto(at) == pc' = [pc EXCEPT ![me] = at]

-----------------------------------------------------------------------------
(* Semaphores (sem.c).                                                      *)

SemCreate(s, n) ==
    /\ InUser
    /\ s \notin bound
    /\ bound' = bound \cup {s}
    /\ count' = [count EXCEPT ![s] = n]
    /\ resources' = [resources EXCEPT ![team[me]] = Append(@, s)]
    /\ UNCHANGED <<k, team, refcount, timer, pc, res>>

SemDestroy(s) ==
    /\ InUser
    /\ s \in bound                              \* else ERR_RESOURCE
    /\ k' = RsrcRelease(k, s)
    /\ bound' = bound \ {s}
    /\ resources' = Disowned(s)
    /\ UNCHANGED <<count, team, refcount, timer, pc, res>>

SemAcquire(s) ==
    /\ InUser
    /\ \/ /\ s \notin bound
          /\ Return("RESOURCE")
          /\ UNCHANGED <<k, count, pc>>
       \/ /\ s \in bound /\ count[s] > 0
          /\ count' = [count EXCEPT ![s] = @ - 1]
          /\ Return("NONE")
          /\ UNCHANGED <<k, pc>>
       \/ /\ s \in bound /\ count[s] <= 0
          /\ count' = [count EXCEPT ![s] = @ - 1]
          /\ k' = WaitOn(k, s)
          /\ Goto("sem_acquire")
          /\ UNCHANGED res
    /\ UNCHANGED <<bound, team, refcount, resources, timer>>

\* Back from wait_on: the status of whoever woke us is the result.
SemAcquireResume ==
    /\ Resumes("sem_acquire")
    /\ Return(k.status[me])
    /\ Goto("user")
    /\ UNCHANGED <<k, bound, count, team, refcount, resources, timer>>

\* A slip: the unit goes to the sleeper and the sleeper is not accounted for.
SemReleaseUncounted(s) ==
    /\ InUser
    /\ s \in bound /\ count[s] < MaxCount
    /\ count' = [count EXCEPT ![s] = IF k.queue[s] = <<>> THEN @ + 1 ELSE @]
    /\ k' = IF k.queue[s] = <<>> THEN k
            ELSE Preempt(RsrcDequeue(k, s), Head(k.queue[s]), "NONE")
    /\ UNCHANGED <<bound, team, refcount, resources, timer, pc, res>>

\* The woken thread runs at once, the releaser goes to the tail of the queue.
SemRelease(s) ==
    /\ InUser
    /\ s \in bound /\ count[s] < MaxCount       \* else ERR_RESOURCE
    /\ count' = [count EXCEPT ![s] = @ + 1]
    /\ k' = IF k.queue[s] = <<>> THEN k
            ELSE Preempt(RsrcDequeue(k, s), Head(k.queue[s]), "NONE")
    /\ UNCHANGED <<bound, team, refcount, resources, timer, pc, res>>

-----------------------------------------------------------------------------
(* Threads (syscall.c, kernel.c, task.c).                                   *)

\* A slip: live_tasks not counted up.
StartThreadUncounted(t, m) ==
    /\ t \notin bound
    /\ k' = RsrcEnqueue(k, RunQ, t)
    /\ team' = [team EXCEPT ![t] = m]
    /\ refcount' = [refcount EXCEPT ![m] = @ + 1]
    /\ resources' = [resources EXCEPT ![m] = Append(@, t)]
    /\ UNCHANGED <<count, timer, pc, res>>

\* task_create, rsrc_bind and the run queue: what new_thread does for
\* thr_create and thr_spawn does itself.
StartThread(t, m) ==
    /\ t \notin bound
    /\ k' = [RsrcEnqueue(k, RunQ, t) EXCEPT !.live_tasks = @ + 1]
    /\ team' = [team EXCEPT ![t] = m]
    /\ refcount' = [refcount EXCEPT ![m] = @ + 1]
    /\ resources' = [resources EXCEPT ![m] = Append(@, t)]
    /\ UNCHANGED <<count, timer, pc, res>>

ThrCreate(t) ==
    /\ InUser
    /\ StartThread(t, team[me])
    /\ bound' = bound \cup {t}

ThrSpawn(t, m) ==
    /\ InUser
    /\ m \notin bound
    /\ StartThread(t, m)
    /\ bound' = bound \cup {t, m}

ThrWait(t) ==
    /\ InUser
    /\ t \in bound                              \* else ERR_RESOURCE
    /\ k' = WaitOn(k, t)
    /\ Goto("thr_wait")
    /\ UNCHANGED <<bound, count, team, refcount, resources, timer, res>>

\* Whatever woke it, thr_wait reports ERR_NONE.
ThrWaitResume ==
    /\ Resumes("thr_wait")
    /\ Goto("user")
    /\ UNCHANGED <<k, bound, count, team, refcount, resources, timer, res>>

\* Slips: the reaper is woken by hand and reaper_sem not counted up; or only
\* counted up; or those who wait for the thread are woken before it dies.
TerminateUncounted ==
    /\ InUser
    /\ k' = Swtch(WakeOne(WakeAll(Bury(k), me, "RESOURCE"), ReaperSem, "NONE"))
    /\ UNCHANGED <<bound, count, team, refcount, resources, timer, pc, res>>

TerminateQuietly ==
    /\ InUser
    /\ k' = Swtch(WakeAll(Bury(k), me, "RESOURCE"))
    /\ count' = [count EXCEPT ![ReaperSem] = @ + 1]
    /\ UNCHANGED <<bound, team, refcount, resources, timer, pc, res>>

TerminateLate ==
    /\ InUser
    /\ IF k.queue[me] # <<>>
       THEN /\ k' = Swtch(WakeAll(k, me, "RESOURCE"))
            /\ UNCHANGED count
       ELSE /\ k' = Swtch(WakeOne(Bury(k), ReaperSem, "NONE"))
            /\ count' = [count EXCEPT ![ReaperSem] = @ + 1]
    /\ UNCHANGED <<bound, team, refcount, resources, timer, pc, res>>

\* os_terminate, and the end of a thread that faults.
Terminate ==
    /\ InUser
    /\ k' = Swtch(WakeOne(WakeAll(Bury(k), me, "RESOURCE"), ReaperSem, "NONE"))
    /\ count' = [count EXCEPT ![ReaperSem] = @ + 1]
    /\ UNCHANGED <<bound, team, refcount, resources, timer, pc, res>>

-----------------------------------------------------------------------------
(* The reaper (kernel.c), which reclaims what Terminate left behind.        *)

ReaperAcquire ==
    /\ Resumes("reaper")
    /\ count' = [count EXCEPT ![ReaperSem] = @ - 1]
    /\ k' = IF count[ReaperSem] > 0 THEN k ELSE WaitOn(k, ReaperSem)
    /\ Goto("reap")
    /\ UNCHANGED <<bound, team, refcount, resources, timer, res>>

\* Slips: the corpse keeps its id; the team is tested before it is counted down.
ReapUnnamed ==
    /\ Resumes("reap")
    /\ k.queue[ReaperQ] # <<>>
    /\ LET t == Head(k.queue[ReaperQ])
       IN  k' = RsrcRelease(RsrcDequeue(k, ReaperQ), t)
    /\ Goto("reaper")
    /\ UNCHANGED <<bound, count, team, refcount, resources, timer, res>>

ReapEarlyTest ==
    /\ Resumes("reap")
    /\ k.queue[ReaperQ] # <<>>
    /\ LET t == Head(k.queue[ReaperQ])
           m == team[t]
       IN  /\ k' = RsrcRelease(RsrcDequeue(k, ReaperQ), t)
           /\ bound' = bound \ {t}
           /\ team' = [team EXCEPT ![t] = NULL]
           /\ resources' = Disowned(t)
           /\ refcount' = [refcount EXCEPT ![m] = @ - 1]
           /\ Goto(IF refcount[m] = 0 THEN "team_destroy" ELSE "reaper")
    /\ UNCHANGED <<count, timer, res>>

\* task_destroy of the head of the reaper queue, or of no task at all.
Reap ==
    /\ Resumes("reap")
    /\ IF k.queue[ReaperQ] = <<>>
       THEN /\ k' = [k EXCEPT !.stop = "wild"]
            /\ UNCHANGED <<bound, team, refcount, resources, pc>>
       ELSE LET t == Head(k.queue[ReaperQ])
                m == team[t]
            IN  /\ k' = RsrcRelease(RsrcDequeue(k, ReaperQ), t)
                /\ bound' = bound \ {t}
                /\ team' = [team EXCEPT ![t] = NULL]
                /\ resources' = Disowned(t)
                /\ refcount' = [refcount EXCEPT ![m] = @ - 1]
                /\ Goto(IF refcount[m] = 1 THEN "team_destroy" ELSE "reaper")
    /\ UNCHANGED <<count, timer, res>>

\* One turn of the loop of team_destroy, for the team that has no task left.
TeamDestroyNext ==
    /\ Resumes("team_destroy")
    /\ \E m \in Team \cap bound :
         /\ refcount[m] = 0 /\ resources[m] # <<>>
         /\ LET x == Head(resources[m])
            IN  IF x \in Sem
                THEN /\ k' = RsrcRelease(k, x)
                     /\ bound' = bound \ {x}
                ELSE UNCHANGED <<k, bound>>  \* "oops... cannot destroy team"
         /\ resources' = [resources EXCEPT ![m] = Tail(@)]
    /\ UNCHANGED <<count, team, refcount, timer, pc, res>>

TeamDestroyEnd ==
    /\ Resumes("team_destroy")
    /\ \E m \in Team \cap bound :
         /\ refcount[m] = 0 /\ resources[m] = <<>>
         /\ bound' = bound \ {m}
    /\ Goto("reaper")
    /\ UNCHANGED <<k, count, team, refcount, resources, timer, res>>

-----------------------------------------------------------------------------
(* Time (syscall.c: sleep, fault.c: timer_irq).                             *)

Ticks(us) == (us + 2000) \div 3000

Sleep(us) ==
    /\ InUser
    /\ k' = IF Ticks(us) = 0 THEN Swtch(k)
            ELSE Swtch(RsrcEnqueueOrdered(k, TimerQ, me,
                                          (timer + Ticks(us)) % TimerMod))
    /\ UNCHANGED <<bound, count, team, refcount, resources, timer, pc, res>>

\* A slip: the tick count runs past its width.
NextTickWide == timer + 1

NextTick == (timer + 1) % TimerMod

\* A slip: the sleeper due now is left for later.
DuePrefixStrict(n, now) ==
    LET q == k.queue[TimerQ]
        due(i) == k.wait_time[q[i]] < now
    IN  /\ \A i \in 1..n : due(i)
        /\ n < Len(q) => ~due(n + 1)

\* timer_irq finds the first n sleepers due and stops at the next.
DuePrefix(n, now) ==
    LET q == k.queue[TimerQ]
        due(i) == k.wait_time[q[i]] <= now
    IN  /\ \A i \in 1..n : due(i)
        /\ n < Len(q) => ~due(n + 1)

\* Once the timer queue is empty rsrc_queue_peek returns no defined value; a
\* stray one that looks due makes timer_irq enqueue a task that is not there.
TimerIrq(n, stray) ==
    /\ Interruptible
    /\ DuePrefix(n, NextTick)
    /\ timer' = NextTick
    /\ k' = IF stray /\ n = Len(k.queue[TimerQ])
            THEN [Ready(k, TimerQ, n) EXCEPT !.stop = "wild"]
            ELSE Swtch(Ready(k, TimerQ, n))
    /\ UNCHANGED <<bound, count, team, refcount, resources, pc, res>>

\* A machine that stopped stays as it is.
Stopped == k.stop # "no" /\ UNCHANGED vars

-----------------------------------------------------------------------------
SemCall ==
    \E s \in Sem : \/ \E n \in InitCounts : SemCreate(s, n)
                   \/ SemDestroy(s)
                   \/ SemAcquire(s)
                   \/ SemRelease(s)

ThreadCall ==
    \/ \E t \in Thread : \/ ThrCreate(t)
                         \/ \E m \in Team : ThrSpawn(t, m)
                         \/ ThrWait(t)
    \/ Terminate
    \/ \E us \in Naps : Sleep(us)

\* What the kernel does without being asked, with interrupts off.
Kernel == \/ SemAcquireResume \/ ThrWaitResume
          \/ ReaperAcquire \/ Reap \/ TeamDestroyNext \/ TeamDestroyEnd

Tick == \E stray \in StrayPeeks, n \in 0..Len(k.queue[TimerQ]) :
            TimerIrq(n, stray)

Next == SemCall \/ ThreadCall \/ Kernel \/ Tick \/ Stopped

Spec == Init /\ [][Next]_vars

(***************************************************************************)
(* Fairness.  The kernel never stops in the middle of a handler, and the    *)
(* interrupt controller holds a timer interrupt that finds interrupts off   *)
(* until they are on again, so a tick cannot be missed for ever (SF).  User *)
(* threads owe nothing: a thread may compute for ever.                      *)
(***************************************************************************)
FairSpec == Spec /\ WF_vars(Kernel) /\ SF_vars(Tick)

-----------------------------------------------------------------------------
(* Properties.                                                              *)

TypeOK ==
    /\ k \in KState
    /\ bound \subseteq Thread \cup AllSem \cup Team
    /\ count \in [AllSem -> Int]
    /\ team \in [Thread -> Team \cup {NULL}]
    /\ refcount \in [Team -> Int]
    /\ resources \in [Team -> Seq(Owned)]
    /\ timer \in 0..(TimerMod - 1)
    /\ pc \in [Task -> PC]
    /\ res \in [Thread -> Status]

\* Between two handlers every queue, waiting_on and flags agree, so no task
\* is on two queues, runs while it is queued, or is queued while it is dead.
SchedulerConsistent ==
    /\ QueuesConsistent(k) /\ FlagsConsistent(k)
    /\ k.waiting_on[Idle] = NULL
    /\ k.stop # "exit" => CurrentRuns(k)

\* A thread that exists runs or is on a queue, and one that was reclaimed is
\* nowhere: rsrc_enqueue, rsrc_dequeue and task_destroy lose no thread.
NoThreadLost == Placed(k) = bound \cap Thread

\* Nobody sleeps on a resource that is gone: sem_destroy, team_destroy,
\* terminate and task_destroy wake all sleepers before the id is free, also
\* those that came to wait for a thread after it had died.
NoOrphanWaiter ==
    \A o \in Waitable : o \notin bound => k.queue[o] = <<>>

\* A negative count is the number of sleepers, and there is none otherwise
\* (sem_acquire, sem_release, wake_the_reaper: the last does it by hand).
SemBalance ==
    \A s \in AllSem : s \in bound =>
        Len(k.queue[s]) = (IF count[s] < 0 THEN -count[s] ELSE 0)

\* The dead not reclaimed are exactly those reaper_sem still announces and the
\* one the reaper is up for: it never dequeues from an empty reaper queue.
ReaperToll ==
    Len(k.queue[ReaperQ]) =
        (IF count[ReaperSem] > 0 THEN count[ReaperSem] ELSE 0)
      + (IF pc[Reaper] = "reap" /\ k.waiting_on[Reaper] # ReaperSem
         THEN 1 ELSE 0)

\* live_tasks counts the threads that have not died, and the two kernel
\* threads: swtch never takes the exit of a system with nothing to run.
LiveTasks ==
    /\ k.live_tasks = 2 + Cardinality({t \in Thread : t \in bound
                                                /\ k.flags[t] # "DEAD"})
    /\ k.stop # "exit"

\* A team is there while one of its threads is, dead ones that are not yet
\* reclaimed included, and owns no thread when it goes ("oops... cannot
\* destroy team"); a semaphore never outlives its team.
TeamsOwn ==
    /\ \A m \in Team : refcount[m] = Cardinality({t \in Thread : team[t] = m})
    /\ \A m \in Team : \A x \in Elems(resources[m]) :
          x \in bound /\ m \in bound
    /\ \A m \in Team : refcount[m] = 0 => Elems(resources[m]) \subseteq Sem
    /\ \A x \in Owned \cap bound : \E m \in Team : x \in Elems(resources[m])

\* The dead stay on the reaper queue until they are reclaimed: the panic "The
\* dead have returned!" of swtch cannot see one, rsrc_dequeue cleared tDEAD.
DeadStayDead ==
    [][\A t \in Thread : k.waiting_on[t] = ReaperQ =>
          k'.waiting_on[t] = ReaperQ \/ t \notin bound']_vars

\* thr_wait comes back only once the thread it waits for is dead or reclaimed.
JoinMeansDead ==
    [][\A t, u \in Thread :
          k.waiting_on[t] = u /\ k'.waiting_on[t] # u =>
             k'.waiting_on[u] = ReaperQ \/ u \notin bound']_vars

\* Round robin: whoever is on the run queue runs, whatever the others do.
RunQueueServed ==
    \A t \in Thread : k.waiting_on[t] = RunQ ~> k.current = t \/ k.stop # "no"

\* A thread that died is reclaimed: no wake up of the reaper is lost.
DeadReclaimed ==
    \A t \in Thread :
        k.waiting_on[t] = ReaperQ ~> t \notin bound \/ k.stop # "no"

\* A sleeper wakes although the timer queue is not ordered and kernel_timer
\* wraps: the sleeper in front of it may delay it but not for ever.
SleeperWakes ==
    \A t \in Thread :
        k.waiting_on[t] = TimerQ ~> k.waiting_on[t] # TimerQ \/ k.stop # "no"

\* A team whose last thread was reclaimed goes too, with all it owns.
TeamReclaimed ==
    \A m \in Team :
        m \in bound /\ refcount[m] = 0 ~> m \notin bound \/ k.stop # "no"

\* The semaphores keep what SemSpec promises: first come first served, a
\* release hands its unit to a sleeper or keeps it, a sleeper whose semaphore
\* goes away is told so and gets no unit.
Promise == INSTANCE SemSpec WITH
    live <- bound \cap Sem,
    avail <- [s \in Sem |-> IF s \in bound /\ count[s] > 0 THEN count[s] ELSE 0],
    waiters <- [s \in Sem |-> k.queue[s]],
    granted <- {t \in Thread : /\ pc[t] = "sem_acquire"
                               /\ k.waiting_on[t] \notin Sem
                               /\ k.status[t] = "NONE"},
    refused <- {t \in Thread : /\ pc[t] = "sem_acquire"
                               /\ k.waiting_on[t] \notin Sem
                               /\ k.status[t] = "RESOURCE"},
    answer <- res

SemaphoresKeepPromise == Promise!Spec

\* Between two handlers the kernel's idea of its tasks is whole: queues, waiting_on
\* and flags tell one story, a thread that exists runs or is on one queue, and
\* nobody sleeps on a resource that is gone.
TasksKept == TypeOK /\ SchedulerConsistent /\ NoThreadLost /\ NoOrphanWaiter

\* sem_acquire, sem_release, wake_the_reaper and the reaper agree on what a count
\* says of the sleepers of its semaphore and of the dead.
CountsMatch == SemBalance /\ ReaperToll

\* live_tasks, the references of teams and the lists of what they own count the
\* same threads: thr_create, thr_spawn, terminate and task_destroy keep step.
OwnersMatch == LiveTasks /\ TeamsOwn

\* A thread dies once: it does not come back from the reaper queue (swtch's panic),
\* and thr_wait does not return before.
DeathIsFinal == DeadStayDead /\ JoinMeansDead

\* Whoever is ready runs, and whoever sleeps for a time becomes ready (swtch,
\* timer_irq).
AllRun == RunQueueServed /\ SleeperWakes

\* What died is reclaimed, thread and team (terminate, reaper, team_destroy).
AllReclaimed == DeadReclaimed /\ TeamReclaimed
=============================================================================
