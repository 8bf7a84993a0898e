---------------------------- MODULE ThreadsProofs ----------------------------
(***************************************************************************)
(* The safety of Threads, for any number of threads, semaphores and teams:  *)
(* the scheduler's structures stay consistent, no thread is lost, nobody    *)
(* sleeps on a resource that is gone, and the counts of the semaphores,     *)
(* reaper_sem included, match the queues.  They hold together or not at     *)
(* all, so one inductive invariant, IInv, carries them.                     *)
(***************************************************************************)
EXTENDS Threads, SchedProofs

\* reaper_sem is the reaper's alone, and the reaper sleeps nowhere else.
ReaperHome ==
    /\ ReaperSem \in bound
    /\ k.waiting_on[Reaper] \in {NULL, RunQ, ReaperSem}
    /\ \A t \in Task : k.waiting_on[t] = ReaperSem => t = Reaper
    /\ k.waiting_on[Reaper] = ReaperSem => pc[Reaper] = "reap"
    /\ \A t \in Task : pc[t] \in {"reaper", "reap", "team_destroy"} => t = Reaper
    /\ pc[Reaper] \in {"reaper", "reap", "team_destroy"} /\ pc[Idle] = "user"

IInv ==
    /\ TypeOK
    /\ SchedulerConsistent
    /\ NoThreadLost
    /\ NoOrphanWaiter
    /\ SemBalance
    /\ ReaperToll
    /\ ReaperHome

-----------------------------------------------------------------------------
(* What the invariant gives to every action.                                *)

LEMMA Names ==
    /\ Reaper \in Task /\ Idle \in Task /\ Thread \subseteq Task
    /\ Reaper # Idle /\ Reaper \notin Thread /\ Idle \notin Thread
    /\ ReaperSem \in Object \ {RunQ, ReaperQ, TimerQ}
    /\ Thread \subseteq Object \ {RunQ, ReaperQ, TimerQ, ReaperSem}
    /\ Sem \subseteq Object \ {RunQ, ReaperQ, TimerQ, ReaperSem}
    /\ Waitable \subseteq Object \ {RunQ, ReaperQ, TimerQ}
    /\ Waitable = Thread \cup Sem \cup {ReaperSem}
    /\ RunQ # ReaperQ /\ RunQ # TimerQ /\ ReaperQ # TimerQ
    /\ NULL \notin Object /\ Thread \cap Sem = {}
    /\ ReaperQ \in Object /\ TimerQ \in Object /\ RunQ \in Object
    /\ \A m \in Team : m \notin Waitable /\ m # NULL
  BY SchedAssumption, ThreadsAssumption DEF Task, Object

LEMMA Ground ==
    ASSUME IInv, k.stop = "no"
    PROVE  /\ KInv(k) /\ CurrentRuns(k) /\ k \in KState /\ me \in Task
           /\ k.waiting_on[me] = NULL
           /\ InUser => me \in Thread /\ me # Idle /\ me # Reaper
  <1>1. KInv(k) /\ CurrentRuns(k)
    BY DEF IInv, TypeOK, SchedulerConsistent, KInv
  <1>2. k \in KState /\ me \in Task
    BY <1>1 DEF KInv, KState, me
  <1> QED
    BY <1>1, <1>2, Names DEF CurrentRuns, me, InUser

\* A step that keeps the queues of the reaper as they were, and the reaper
\* away from any other, keeps what the invariant says of the reaper.
LEMMA ReaperAside ==
    ASSUME IInv, TypeOK', KInv(k'), ReaperSem \in bound',
           count'[ReaperSem] = count[ReaperSem],
           k'.queue[ReaperSem] = k.queue[ReaperSem],
           k'.queue[ReaperQ] = k.queue[ReaperQ],
           \A o \in Object \ {RunQ} :
               Reaper \in Elems(k'.queue[o]) => Reaper \in Elems(k.queue[o]),
           pc'[Reaper] = pc[Reaper], pc'[Idle] = pc[Idle],
           \A t \in Thread : pc'[t] \notin {"reaper", "reap", "team_destroy"}
    PROVE  ReaperToll' /\ ReaperHome'
  <1>1. KInv(k)
    BY DEF IInv, TypeOK, SchedulerConsistent, KInv
  <1>2. \A t \in Task : k'.waiting_on[t] = ReaperSem
                        <=> k.waiting_on[t] = ReaperSem
    BY <1>1, OnQueue, Names
  <1>3. ASSUME NEW o \in Object \ {RunQ}, k'.waiting_on[Reaper] = o
        PROVE  k.waiting_on[Reaper] = o
    BY <1>1, <1>3, OnQueue, Names
  <1>4. k'.waiting_on[Reaper] \in Object \cup {NULL}
    BY Names DEF KInv, KState
  <1>5. k'.waiting_on[Reaper] \in {NULL, RunQ, ReaperSem}
    BY <1>3, <1>4, Names DEF IInv, ReaperHome
  <1>6. \A t \in Task : pc'[t] \in {"reaper", "reap", "team_destroy"}
                        => t = Reaper
    BY Names DEF IInv, ReaperHome, Task
  <1>7. ReaperHome'
    BY <1>2, <1>5, <1>6, Names DEF IInv, ReaperHome
  <1>8. ReaperToll'
    BY <1>2, Names DEF IInv, ReaperToll
  <1> QED
    BY <1>7, <1>8

LEMMA ListRemoveType ==
    ASSUME NEW l \in Seq(Owned), NEW x
    PROVE  ListRemove(l, x) \in Seq(Owned)
  <1>1. CASE x \in Elems(l)
    <2> DEFINE i == CHOOSE i \in DOMAIN l : l[i] = x
    <2>1. \E j \in DOMAIN l : l[j] = x
      BY <1>1 DEF Elems
    <2>2. i \in 1..Len(l) /\ Len(l) \in Nat
      BY <2>1
    <2>3. ListRemove(l, x) = SubSeq(l, 1, i - 1) \o SubSeq(l, i + 1, Len(l))
      BY <1>1 DEF ListRemove
    <2> HIDE DEF i
    <2>4. SubSeq(l, 1, i - 1) \in Seq(Owned)
      BY <2>2
    <2>5. SubSeq(l, i + 1, Len(l)) \in Seq(Owned)
      BY <2>2
    <2> QED
      BY <2>3, <2>4, <2>5
  <1>2. CASE x \notin Elems(l)
    BY <1>2 DEF ListRemove
  <1> QED
    BY <1>1, <1>2

LEMMA DisownedType ==
    ASSUME TypeOK, NEW x
    PROVE  Disowned(x) \in [Team -> Seq(Owned)]
  <1>1. \A m \in Team : resources[m] \in Seq(Owned)
    BY DEF TypeOK
  <1>2. \A m \in Team : ListRemove(resources[m], x) \in Seq(Owned)
    BY <1>1, ListRemoveType
  <1> QED
    BY <1>2 DEF Disowned

LEMMA OwnType ==
    ASSUME TypeOK, NEW m, NEW x \in Owned
    PROVE  [resources EXCEPT ![m] = Append(@, x)] \in [Team -> Seq(Owned)]
  <1>1. resources \in [Team -> Seq(Owned)]
    BY DEF TypeOK
  <1>2. CASE m \in Team
    <2>1. Append(resources[m], x) \in Seq(Owned)
      BY <1>1, <1>2
    <2> QED
      BY <1>1, <2>1
  <1>3. CASE m \notin Team
    BY <1>1, <1>3
  <1> QED
    BY <1>2, <1>3

LEMMA InitIInv ==
    Init => IInv
  <1> SUFFICES ASSUME Init PROVE IInv
    OBVIOUS
  <1> DEFINE q == [o \in Object |-> IF o = RunQ THEN <<Reaper>> ELSE <<>>]
             w == [t \in Task |-> IF t = Reaper THEN RunQ ELSE NULL]
             f == [t \in Task |-> IF t = Boot THEN "RUNNING"
                                  ELSE IF t = Reaper THEN "WAITING" ELSE "READY"]
  <1>1. /\ k.queue = q /\ k.waiting_on = w /\ k.flags = f
        /\ k.current = Boot /\ k.stop = "no"
    BY DEF Init
  <1>2. Boot \in Thread /\ Boot \in Task /\ Boot # Reaper /\ Boot # Idle
        /\ BootTeam \in Team
    BY Names, ThreadsAssumption
  <1>3. k \in KState
    <2>1. q \in [Object -> Seq(Task)]
      BY Names
    <2>2. w \in [Task -> Object \cup {NULL}] /\ f \in [Task -> Flag]
      BY Names DEF Flag
    <2>3. [t \in Task |-> "NONE"] \in [Task -> Status]
          /\ [t \in Task |-> 0] \in [Task -> Nat]
      BY DEF Status
    <2> HIDE DEF q, w, f
    <2>4. k = [ queue |-> q, waiting_on |-> w, flags |-> f,
                status |-> [t \in Task |-> "NONE"],
                wait_time |-> [t \in Task |-> 0],
                current |-> Boot, live_tasks |-> 3, stop |-> "no" ]
      BY DEF Init, q, w, f
    <2> QED
      BY <2>1, <2>2, <2>3, <2>4, <1>2 DEF KState
  <1>4. /\ \A o \in Object \ {RunQ} : k.queue[o] = <<>>
        /\ k.queue[RunQ] = <<Reaper>>
        /\ \A t \in Task \ {Reaper} : k.waiting_on[t] = NULL
        /\ k.waiting_on[Reaper] = RunQ
        /\ k.flags[Reaper] = "WAITING" /\ k.flags[Boot] = "RUNNING"
        /\ \A t \in Task \ {Boot, Reaper} : k.flags[t] = "READY"
    BY <1>1, <1>2, Names
  <1> HIDE DEF q, w, f
  <1>5. QueuesConsistent(k)
    <2>1. Len(k.queue[RunQ]) = 1 /\ k.queue[RunQ][1] = Reaper
      BY <1>4
    <2>2. \A o \in Object \ {RunQ} : Len(k.queue[o]) = 0
      BY <1>4
    <2> QED
      BY <2>1, <2>2, <1>4, Names, SMTT(60) DEF QueuesConsistent
  <1>6. FlagsConsistent(k)
    BY <1>2, <1>4, Names DEF FlagsConsistent
  <1>7. SchedulerConsistent
    BY <1>1, <1>2, <1>4, <1>5, <1>6, Names DEF SchedulerConsistent, CurrentRuns
  <1>8. /\ bound = {Boot, BootTeam, ReaperSem}
        /\ count = [s \in AllSem |-> 0]
        /\ pc = [t \in Task |-> IF t = Reaper THEN "reaper" ELSE "user"]
    BY DEF Init
  <1>9. TypeOK
    <2>1. bound \subseteq Thread \cup AllSem \cup Team
      BY <1>2, <1>8 DEF AllSem
    <2>2. count \in [AllSem -> Int] /\ pc \in [Task -> PC]
      BY <1>8 DEF PC
    <2>3. /\ team \in [Thread -> Team \cup {NULL}]
          /\ refcount \in [Team -> Int]
          /\ res \in [Thread -> Status]
      BY <1>2 DEF Init, Status
    <2>4. resources \in [Team -> Seq(Owned)]
      <3>1. <<Boot>> \in Seq(Owned) /\ <<>> \in Seq(Owned)
        BY <1>2 DEF Owned
      <3> QED
        BY <3>1 DEF Init
    <2>5. timer \in 0..(TimerMod - 1)
      BY ThreadsAssumption DEF Init
    <2> QED
      BY <1>3, <2>1, <2>2, <2>3, <2>4, <2>5 DEF TypeOK
  <1>10. NoThreadLost
    BY <1>1, <1>2, <1>4, <1>8, Names DEF NoThreadLost, Placed
  <1>11. NoOrphanWaiter
    BY <1>4, Names DEF NoOrphanWaiter
  <1>12. SemBalance
    <2>1. \A s \in AllSem : k.queue[s] = <<>> /\ count[s] = 0
      BY <1>4, <1>8, Names DEF AllSem
    <2> QED
      BY <2>1 DEF SemBalance
  <1>13. ReaperToll
    <2>1. k.queue[ReaperQ] = <<>> /\ count[ReaperSem] = 0 /\ pc[Reaper] = "reaper"
      BY <1>4, <1>8, Names DEF AllSem
    <2> QED
      BY <2>1 DEF ReaperToll
  <1>14. ReaperHome
    BY <1>4, <1>8, Names DEF ReaperHome
  <1> QED
    BY <1>7, <1>9, <1>10, <1>11, <1>12, <1>13, <1>14 DEF IInv

-----------------------------------------------------------------------------
(* The actions that leave the scheduler alone.                              *)

\* If k stays, and with it the reaper's affairs, little is left to show.
LEMMA Quiet ==
    ASSUME IInv, k' = k, TypeOK', ReaperSem \in bound',
           count'[ReaperSem] = count[ReaperSem],
           pc'[Reaper] = pc[Reaper], pc'[Idle] = pc[Idle],
           \A t \in Thread : pc'[t] \notin {"reaper", "reap", "team_destroy"},
           bound' \cap Thread = bound \cap Thread,
           \A o \in Waitable : o \in bound => o \in bound',
           SemBalance'
    PROVE  IInv'
  <1>1. SchedulerConsistent'
    BY DEF IInv, SchedulerConsistent
  <1>2. KInv(k')
    BY DEF IInv, TypeOK, SchedulerConsistent, KInv
  <1>3. ReaperToll' /\ ReaperHome'
    BY <1>2, ReaperAside
  <1>4. NoThreadLost' /\ NoOrphanWaiter'
    BY DEF IInv, NoThreadLost, NoOrphanWaiter
  <1> QED
    BY <1>1, <1>3, <1>4 DEF IInv

LEMMA SemCreateInv ==
    ASSUME IInv, NEW s \in Sem, NEW n \in InitCounts, SemCreate(s, n)
    PROVE  IInv'
  <1>1. /\ s \notin bound /\ bound' = bound \cup {s}
        /\ count' = [count EXCEPT ![s] = n]
        /\ resources' = [resources EXCEPT ![team[me]] = Append(@, s)]
        /\ UNCHANGED <<k, team, refcount, timer, pc, res>>
    BY DEF SemCreate
  <1>2. n \in Nat /\ s # ReaperSem /\ s \notin Thread /\ s \in AllSem
        /\ s \in Owned /\ ReaperSem \in AllSem
    BY ThreadsAssumption DEF AllSem, Owned
  <1>3. count' \in [AllSem -> Int] /\ count'[s] = n
        /\ \A x \in AllSem \ {s} : count'[x] = count[x]
    BY <1>1, <1>2 DEF IInv, TypeOK
  <1>4. resources' \in [Team -> Seq(Owned)]
    BY <1>1, <1>2, OwnType DEF IInv
  <1>5. TypeOK'
    BY <1>1, <1>2, <1>3, <1>4 DEF IInv, TypeOK
  <1>6. SemBalance'
    <2>1. Len(k.queue[s]) = 0
      BY <1>1, Names DEF IInv, NoOrphanWaiter
    <2> QED
      BY <2>1, <1>1, <1>2, <1>3 DEF IInv, SemBalance
  <1>7. \A t \in Thread : pc'[t] \notin {"reaper", "reap", "team_destroy"}
    BY <1>1, Names DEF IInv, ReaperHome
  <1> QED
    BY <1>1, <1>2, <1>3, <1>5, <1>6, <1>7, Quiet DEF IInv, ReaperHome

LEMMA ResumeInv ==
    ASSUME IInv, SemAcquireResume \/ ThrWaitResume
    PROVE  IInv'
  <1>1. /\ k.stop = "no" /\ pc[me] \in {"sem_acquire", "thr_wait"}
        /\ pc' = [pc EXCEPT ![me] = "user"]
        /\ \/ res' = [res EXCEPT ![me] = k.status[me]]
           \/ res' = res
        /\ UNCHANGED <<k, bound, count, team, refcount, resources, timer>>
    BY DEF SemAcquireResume, ThrWaitResume, Resumes, Goto, Return
  <1>2. me \in Task /\ me # Reaper /\ me # Idle
    BY <1>1, Ground DEF IInv, ReaperHome
  <1>3. TypeOK'
    <2>1. pc' \in [Task -> PC]
      BY <1>1 DEF IInv, TypeOK, PC
    <2>2. k.status[me] \in Status
      BY <1>2 DEF IInv, TypeOK, KState
    <2>3. res' \in [Thread -> Status]
      BY <1>1, <2>2 DEF IInv, TypeOK
    <2> QED
      BY <1>1, <2>1, <2>3 DEF IInv, TypeOK
  <1>4. \A t \in Task : pc'[t] = IF t = me THEN "user" ELSE pc[t]
    BY <1>1 DEF IInv, TypeOK
  <1>5. \A t \in Thread : pc'[t] \notin {"reaper", "reap", "team_destroy"}
    BY <1>4, Names DEF IInv, ReaperHome
  <1>6. SemBalance'
    BY <1>1 DEF IInv, SemBalance
  <1> QED
    BY <1>1, <1>2, <1>3, <1>4, <1>5, <1>6, Names, Quiet DEF IInv, ReaperHome

LEMMA TeamDestroyEndInv ==
    ASSUME IInv, TeamDestroyEnd
    PROVE  IInv'
  <1>1. PICK m \in Team \cap bound : bound' = bound \ {m}
    BY DEF TeamDestroyEnd
  <1>2. /\ k.stop = "no" /\ pc[me] = "team_destroy"
        /\ pc' = [pc EXCEPT ![me] = "reaper"]
        /\ UNCHANGED <<k, count, team, refcount, resources, timer, res>>
    BY DEF TeamDestroyEnd, Resumes, Goto
  <1>3. me = Reaper /\ k.waiting_on[me] = NULL
    BY <1>2, Ground DEF IInv, ReaperHome
  <1>4. TypeOK'
    <2>1. pc' \in [Task -> PC]
      BY <1>2 DEF IInv, TypeOK, PC
    <2> QED
      BY <1>1, <1>2, <2>1 DEF IInv, TypeOK
  <1>5. pc'[Reaper] = "reaper" /\ \A t \in Task \ {Reaper} : pc'[t] = pc[t]
    BY <1>2, <1>3, Names DEF IInv, TypeOK
  <1>6. m \notin Waitable /\ bound' \cap Waitable = bound \cap Waitable
    BY <1>1, Names
  <1>7. SchedulerConsistent' /\ NoThreadLost' /\ NoOrphanWaiter'
    BY <1>2, <1>6, Names
       DEF IInv, SchedulerConsistent, NoThreadLost, NoOrphanWaiter
  <1>8. SemBalance'
    BY <1>1, <1>2 DEF IInv, SemBalance
  <1>9. ReaperHome'
    BY <1>2, <1>3, <1>5, <1>6, Names DEF IInv, ReaperHome
  <1>10. ReaperToll'
    BY <1>2, <1>3, <1>5 DEF IInv, ReaperToll
  <1> QED
    BY <1>4, <1>7, <1>8, <1>9, <1>10 DEF IInv

-----------------------------------------------------------------------------
(* The calls of user threads that move tasks.                               *)

LEMMA Calm ==
    ASSUME IInv, TypeOK', KInv(k'), k'.stop # "exit" => CurrentRuns(k'),
           ReaperSem \in bound',
           count'[ReaperSem] = count[ReaperSem],
           k'.queue[ReaperSem] = k.queue[ReaperSem],
           k'.queue[ReaperQ] = k.queue[ReaperQ],
           \A o \in Object \ {RunQ} :
               Reaper \in Elems(k'.queue[o]) => Reaper \in Elems(k.queue[o]),
           pc'[Reaper] = pc[Reaper], pc'[Idle] = pc[Idle],
           \A t \in Thread : pc'[t] \notin {"reaper", "reap", "team_destroy"},
           NoThreadLost', NoOrphanWaiter', SemBalance'
    PROVE  IInv'
  <1>1. SchedulerConsistent'
    BY DEF KInv, SchedulerConsistent
  <1>2. ReaperToll' /\ ReaperHome'
    BY ReaperAside
  <1> QED
    BY <1>1, <1>2 DEF IInv

\* pc of the threads is not the reaper's.
LEMMA UserPC ==
    ASSUME IInv
    PROVE  \A t \in Thread : pc[t] \notin {"reaper", "reap", "team_destroy"}
  BY Names DEF IInv, ReaperHome

LEMMA EmptyElems ==
    ASSUME NEW x
    PROVE  x \notin Elems(<< >>)
  BY DEF Elems

LEMMA SemDestroyInv ==
    ASSUME IInv, NEW s \in Sem, SemDestroy(s)
    PROVE  IInv'
  <1>1. /\ InUser /\ k.stop = "no"
        /\ k' = WakeAll(k, s, "RESOURCE")
        /\ bound' = bound \ {s}
        /\ resources' = Disowned(s)
        /\ UNCHANGED <<count, team, refcount, timer, pc, res>>
    BY DEF SemDestroy, RsrcRelease, InUser, Interruptible
  <1>2. /\ KInv(k) /\ CurrentRuns(k) /\ s \in Object \ {RunQ}
        /\ s # ReaperSem /\ s # ReaperQ /\ s \notin Thread
        /\ "RESOURCE" \in Status
    BY <1>1, Ground, Names DEF Status
  <1>3. /\ KInv(k')
        /\ k'.queue[s] = <<>>
        /\ \A p \in Object \ {s, RunQ} : k'.queue[p] = k.queue[p]
        /\ \A t \in Task : k'.waiting_on[t] = NULL <=> k.waiting_on[t] = NULL
        /\ k'.current = k.current
        /\ CurrentRuns(k')
    BY <1>1, <1>2, WakeAllInv
  <1>4. TypeOK'
    <2>1. resources' \in [Team -> Seq(Owned)]
      BY <1>1, DisownedType DEF IInv
    <2> QED
      BY <1>1, <1>3, <2>1 DEF IInv, TypeOK, KInv
  <1>5. NoThreadLost'
    BY <1>1, <1>2, <1>3, Names DEF IInv, NoThreadLost, Placed
  <1>6. NoOrphanWaiter'
    BY <1>1, <1>3, Names DEF IInv, NoOrphanWaiter
  <1>7. SemBalance'
    BY <1>1, <1>3, Names DEF IInv, SemBalance, AllSem
  <1>8. \A o \in Object \ {RunQ} :
            Reaper \in Elems(k'.queue[o]) => Reaper \in Elems(k.queue[o])
    BY <1>3, EmptyElems
  <1>9. ReaperSem \in bound'
    BY <1>1, <1>2 DEF IInv, ReaperHome
  <1> QED
    BY <1>1, <1>2, <1>3, <1>4, <1>5, <1>6, <1>7, <1>8, <1>9, UserPC, Calm, Names

\* What wait_on from a user thread does to a resource that exists.
LEMMA UserWaits ==
    ASSUME IInv, InUser, NEW o \in Waitable, o \in bound, o # ReaperSem,
           k' = WaitOn(k, o), bound' = bound
    PROVE  /\ KInv(k')
           /\ k'.stop # "exit" => CurrentRuns(k')
           /\ \A p \in Waitable \ {o} : k'.queue[p] = k.queue[p]
           /\ k'.queue[o] = Append(k.queue[o], me)
           /\ k'.queue[ReaperQ] = k.queue[ReaperQ]
           /\ \A p \in Object \ {RunQ} :
               Reaper \in Elems(k'.queue[p]) => Reaper \in Elems(k.queue[p])
           /\ NoThreadLost' /\ NoOrphanWaiter'
  <1>1. /\ KInv(k) /\ CurrentRuns(k) /\ me # Idle /\ me # Reaper
        /\ o \in Object \ {RunQ, ReaperQ} /\ me = k.current
        /\ k.queue[o] \in Seq(Task) /\ me \in Task
    BY Ground, Names DEF InUser, Interruptible, me, KInv, KState
  <1>2. /\ KInv(k')
        /\ k'.queue[o] = Append(k.queue[o], me)
        /\ \A p \in Object \ {o, RunQ} : k'.queue[p] = k.queue[p]
        /\ \A t \in Thread : (t = k'.current \/ k'.waiting_on[t] # NULL)
                             <=> (t = k.current \/ k.waiting_on[t] # NULL)
        /\ \/ CurrentRuns(k') /\ k'.stop = k.stop
           \/ k'.stop = "exit" /\ k.live_tasks = 0
    BY <1>1, WaitOnInv DEF me
  <1>3. \A t : t # me /\ t \in Elems(k'.queue[o]) => t \in Elems(k.queue[o])
    <2> SUFFICES ASSUME NEW t, t # me, t \in Elems(k'.queue[o])
                 PROVE  t \in Elems(k.queue[o])
      OBVIOUS
    <2>1. PICK i \in 1..Len(k'.queue[o]) : k'.queue[o][i] = t
      BY DEF Elems
    <2>2. i \in 1..Len(k.queue[o]) /\ k.queue[o][i] = t
      BY <1>1, <1>2, <2>1
    <2> QED
      BY <2>2 DEF Elems
  <1>4. NoThreadLost'
    BY <1>2 DEF IInv, NoThreadLost, Placed
  <1>5. NoOrphanWaiter'
    BY <1>2, Names DEF IInv, NoOrphanWaiter
  <1> QED
    BY <1>1, <1>2, <1>3, <1>4, <1>5, Names

LEMMA SemAcquireInv ==
    ASSUME IInv, NEW s \in Sem, SemAcquire(s)
    PROVE  IInv'
  <1>1. /\ InUser /\ k.stop = "no"
        /\ UNCHANGED <<bound, team, refcount, resources, timer>>
    BY DEF SemAcquire, InUser, Interruptible
  <1>2. /\ s \in AllSem /\ s # ReaperSem /\ s \in Waitable
        /\ ReaperSem \in AllSem /\ me \in Thread /\ me \in Task
    BY <1>1, Names, Ground DEF AllSem
  <1>3. count \in [AllSem -> Int]
    BY DEF IInv, TypeOK
  <1>4. CASE s \notin bound /\ Return("RESOURCE") /\ UNCHANGED <<k, count, pc>>
    <2>1. TypeOK'
      <3>1. res' \in [Thread -> Status]
        BY <1>4 DEF IInv, TypeOK, Return, Status
      <3> QED
        BY <1>1, <1>4, <3>1 DEF IInv, TypeOK
    <2>2. SemBalance'
      BY <1>1, <1>4 DEF IInv, SemBalance
    <2> QED
      BY <1>1, <1>4, <2>1, <2>2, UserPC, Quiet DEF IInv, ReaperHome
  <1>5. CASE /\ s \in bound /\ count[s] > 0
             /\ count' = [count EXCEPT ![s] = @ - 1]
             /\ Return("NONE") /\ UNCHANGED <<k, pc>>
    <2>0. count' \in [AllSem -> Int] /\ count'[s] = count[s] - 1
          /\ \A x \in AllSem \ {s} : count'[x] = count[x]
      BY <1>2, <1>3, <1>5
    <2>1. TypeOK'
      <3>1. res' \in [Thread -> Status]
        BY <1>5 DEF IInv, TypeOK, Return, Status
      <3> QED
        BY <1>1, <1>5, <2>0, <3>1 DEF IInv, TypeOK
    <2>2. SemBalance'
      <3>1. Len(k.queue[s]) = 0
        BY <1>2, <1>3, <1>5 DEF IInv, SemBalance
      <3>2. ~(count'[s] < 0)
        BY <1>2, <1>3, <1>5, <2>0
      <3> QED
        BY <1>1, <1>5, <2>0, <3>1, <3>2 DEF IInv, SemBalance
    <2> QED
      BY <1>1, <1>2, <1>5, <2>0, <2>1, <2>2, UserPC, Quiet DEF IInv, ReaperHome
  <1>6. CASE /\ s \in bound /\ count[s] <= 0
             /\ count' = [count EXCEPT ![s] = @ - 1]
             /\ k' = WaitOn(k, s)
             /\ Goto("sem_acquire")
             /\ UNCHANGED res
    <2>0. count' \in [AllSem -> Int] /\ count'[s] = count[s] - 1
          /\ \A x \in AllSem \ {s} : count'[x] = count[x]
      BY <1>2, <1>3, <1>6
    <2>1. /\ KInv(k')
          /\ k'.stop # "exit" => CurrentRuns(k')
          /\ \A p \in Waitable \ {s} : k'.queue[p] = k.queue[p]
          /\ k'.queue[s] = Append(k.queue[s], me)
          /\ k'.queue[ReaperQ] = k.queue[ReaperQ]
          /\ \A p \in Object \ {RunQ} :
               Reaper \in Elems(k'.queue[p]) => Reaper \in Elems(k.queue[p])
          /\ NoThreadLost' /\ NoOrphanWaiter'
      BY <1>1, <1>2, <1>6, UserWaits
    <2>2. /\ pc' \in [Task -> PC] /\ pc'[me] = "sem_acquire"
          /\ \A t \in Task \ {me} : pc'[t] = pc[t]
      BY <1>2, <1>6 DEF IInv, TypeOK, PC, Goto
    <2>3. TypeOK'
      BY <1>1, <1>6, <2>0, <2>1, <2>2 DEF IInv, TypeOK, KInv
    <2>4. SemBalance'
      <3>1. k.queue[s] \in Seq(Task)
        BY <1>2, Names DEF IInv, TypeOK, KState
      <3>2. Len(k'.queue[s]) = Len(k.queue[s]) + 1
        BY <2>1, <3>1
      <3>3. Len(k'.queue[s]) = -count'[s] /\ count'[s] < 0
        BY <1>2, <1>3, <1>6, <2>0, <3>2 DEF IInv, SemBalance
      <3>4. \A x \in AllSem \ {s} : k'.queue[x] = k.queue[x]
        BY <2>1, Names DEF AllSem
      <3> QED
        BY <1>1, <2>0, <3>3, <3>4 DEF IInv, SemBalance
    <2>5. /\ pc'[Reaper] = pc[Reaper] /\ pc'[Idle] = pc[Idle]
          /\ \A t \in Thread : pc'[t] \notin {"reaper", "reap", "team_destroy"}
      BY <1>2, <2>2, UserPC, Names
    <2>6. /\ ReaperSem \in bound' /\ count'[ReaperSem] = count[ReaperSem]
          /\ k'.queue[ReaperSem] = k.queue[ReaperSem]
      BY <1>1, <1>2, <2>0, <2>1, Names DEF IInv, ReaperHome
    <2> QED
      BY <2>1, <2>3, <2>4, <2>5, <2>6, Calm
  <1> QED
    BY <1>4, <1>5, <1>6 DEF SemAcquire

LEMMA ThrWaitInv ==
    ASSUME IInv, NEW u \in Thread, ThrWait(u)
    PROVE  IInv'
  <1>1. /\ InUser /\ u \in bound /\ k' = WaitOn(k, u) /\ Goto("thr_wait")
        /\ UNCHANGED <<bound, count, team, refcount, resources, timer, res>>
    BY DEF ThrWait
  <1>2. /\ u # ReaperSem /\ u \in Waitable /\ me \in Thread /\ me \in Task
        /\ u \notin AllSem
    BY <1>1, Names, Ground DEF InUser, Interruptible, AllSem
  <1>3. /\ KInv(k')
        /\ k'.stop # "exit" => CurrentRuns(k')
        /\ \A p \in Waitable \ {u} : k'.queue[p] = k.queue[p]
        /\ k'.queue[ReaperQ] = k.queue[ReaperQ]
        /\ \A p \in Object \ {RunQ} :
               Reaper \in Elems(k'.queue[p]) => Reaper \in Elems(k.queue[p])
        /\ NoThreadLost' /\ NoOrphanWaiter'
    BY <1>1, <1>2, UserWaits
  <1>4. /\ pc' \in [Task -> PC] /\ pc'[me] = "thr_wait"
        /\ \A t \in Task \ {me} : pc'[t] = pc[t]
    BY <1>1, <1>2 DEF IInv, TypeOK, PC, Goto
  <1>5. TypeOK'
    BY <1>1, <1>3, <1>4 DEF IInv, TypeOK, KInv
  <1>6. \A x \in AllSem : k'.queue[x] = k.queue[x]
    BY <1>2, <1>3, Names DEF AllSem
  <1>7. SemBalance'
    BY <1>1, <1>6 DEF IInv, SemBalance
  <1>8. /\ pc'[Reaper] = pc[Reaper] /\ pc'[Idle] = pc[Idle]
        /\ \A t \in Thread : pc'[t] \notin {"reaper", "reap", "team_destroy"}
    BY <1>2, <1>4, UserPC, Names
  <1>9. /\ ReaperSem \in bound' /\ count'[ReaperSem] = count[ReaperSem]
        /\ k'.queue[ReaperSem] = k.queue[ReaperSem]
    BY <1>1, <1>6 DEF IInv, ReaperHome, AllSem
  <1> QED
    BY <1>3, <1>5, <1>7, <1>8, <1>9, Calm

LEMMA SemReleaseInv ==
    ASSUME IInv, NEW s \in Sem, SemRelease(s)
    PROVE  IInv'
  <1>1. /\ InUser /\ k.stop = "no" /\ s \in bound
        /\ count' = [count EXCEPT ![s] = @ + 1]
        /\ UNCHANGED <<bound, team, refcount, resources, timer, pc, res>>
    BY DEF SemRelease, InUser, Interruptible
  <1>2. /\ s \in AllSem /\ s # ReaperSem /\ s \in Waitable /\ s # ReaperQ
        /\ ReaperSem \in AllSem /\ s \in Object \ {RunQ}
    BY Names DEF AllSem
  <1>3. /\ count \in [AllSem -> Int] /\ count' \in [AllSem -> Int]
        /\ count'[s] = count[s] + 1
        /\ \A x \in AllSem \ {s} : count'[x] = count[x]
    BY <1>1, <1>2 DEF IInv, TypeOK
  <1>4. k.queue[s] \in Seq(Task)
    BY <1>2 DEF IInv, TypeOK, KState
  <1>5. Len(k.queue[s]) = (IF count[s] < 0 THEN -count[s] ELSE 0)
    BY <1>1, <1>2 DEF IInv, SemBalance
  <1>6. CASE k.queue[s] = <<>>
    <2>1. k' = k
      BY <1>6 DEF SemRelease
    <2>2. TypeOK'
      BY <1>1, <1>3, <2>1 DEF IInv, TypeOK
    <2>3. Len(k.queue[s]) = 0
      BY <1>6
    <2>4. ~(count'[s] < 0)
      BY <1>2, <1>3, <1>5, <2>3
    <2>5. SemBalance'
      BY <1>1, <1>3, <2>1, <2>3, <2>4 DEF IInv, SemBalance
    <2> QED
      BY <1>1, <1>2, <1>3, <2>1, <2>2, <2>5, UserPC, Quiet DEF IInv, ReaperHome
  <1>7. CASE k.queue[s] # <<>>
    <2>1. k' = Preempt(RsrcDequeue(k, s), Head(k.queue[s]), "NONE")
      BY <1>7 DEF SemRelease
    <2>2. /\ KInv(k') /\ CurrentRuns(k')
          /\ k'.queue[s] = Tail(k.queue[s])
          /\ \A p \in Object \ {s, RunQ} : k'.queue[p] = k.queue[p]
          /\ \A t \in Thread : (t = k'.current \/ k'.waiting_on[t] # NULL)
                               <=> (t = k.current \/ k.waiting_on[t] # NULL)
      <3>1. KInv(k) /\ CurrentRuns(k) /\ "NONE" \in Status
        BY <1>1, Ground DEF Status
      <3> QED
        BY <1>2, <1>7, <2>1, <3>1, HandOverInv
    <2>3. TypeOK'
      BY <1>1, <1>3, <2>2 DEF IInv, TypeOK, KInv
    <2>4. SemBalance'
      <3>1. Len(k'.queue[s]) = Len(k.queue[s]) - 1 /\ Len(k.queue[s]) >= 1
        BY <1>4, <1>7, <2>2
      <3>2. Len(k'.queue[s]) = (IF count'[s] < 0 THEN -count'[s] ELSE 0)
        BY <1>2, <1>3, <1>5, <3>1
      <3>3. \A x \in AllSem \ {s} : k'.queue[x] = k.queue[x]
        BY <2>2, Names DEF AllSem
      <3> QED
        BY <1>1, <1>3, <3>2, <3>3 DEF IInv, SemBalance
    <2>5. \A x : x \in Elems(k'.queue[s]) => x \in Elems(k.queue[s])
      <3> SUFFICES ASSUME NEW x, x \in Elems(k'.queue[s])
                   PROVE  x \in Elems(k.queue[s])
        OBVIOUS
      <3>1. PICK i \in 1..Len(k'.queue[s]) : k'.queue[s][i] = x
        BY DEF Elems
      <3>2. i + 1 \in 1..Len(k.queue[s]) /\ k.queue[s][i + 1] = x
        BY <1>4, <1>7, <2>2, <3>1
      <3> QED
        BY <3>2 DEF Elems
    <2>6. \A o \in Object \ {RunQ} :
              Reaper \in Elems(k'.queue[o]) => Reaper \in Elems(k.queue[o])
      BY <2>2, <2>5
    <2>7. NoThreadLost'
      BY <1>1, <2>2 DEF IInv, NoThreadLost, Placed
    <2>8. NoOrphanWaiter'
      BY <1>1, <2>2, Names DEF IInv, NoOrphanWaiter
    <2>9. /\ ReaperSem \in bound' /\ count'[ReaperSem] = count[ReaperSem]
          /\ k'.queue[ReaperSem] = k.queue[ReaperSem]
          /\ k'.queue[ReaperQ] = k.queue[ReaperQ]
      BY <1>1, <1>2, <1>3, <2>2, Names DEF IInv, ReaperHome
    <2> QED
      BY <1>1, <2>2, <2>3, <2>4, <2>6, <2>7, <2>8, <2>9, UserPC, Calm
  <1> QED
    BY <1>6, <1>7

LEMMA StartThreadInv ==
    ASSUME IInv, InUser, NEW t \in Thread, NEW m, m = team[me] \/ m \in Team,
           StartThread(t, m), bound \cup {t} \subseteq bound',
           bound' \subseteq bound \cup {t} \cup Team
    PROVE  IInv'
  <1>1. /\ k.stop = "no" /\ t \notin bound
        /\ k' = [RsrcEnqueue(k, RunQ, t) EXCEPT !.live_tasks = @ + 1]
        /\ team' = [team EXCEPT ![t] = m]
        /\ refcount' = [refcount EXCEPT ![m] = @ + 1]
        /\ resources' = [resources EXCEPT ![m] = Append(@, t)]
        /\ UNCHANGED <<count, timer, pc, res>>
    BY DEF StartThread, InUser, Interruptible
  <1>2. /\ KInv(k) /\ CurrentRuns(k) /\ me = k.current /\ me \in Thread
        /\ t \in Task /\ t # Idle /\ t # Reaper /\ t \in Owned
    BY <1>1, Ground, Names DEF me, Owned
  <1>3. t # k.current /\ k.waiting_on[t] = NULL
    BY <1>1 DEF IInv, NoThreadLost, Placed
  <1>4. /\ KInv(k') /\ CurrentRuns(k')
        /\ \A p \in Object \ {RunQ} : k'.queue[p] = k.queue[p]
        /\ k'.waiting_on[t] = RunQ
        /\ \A u \in Task \ {t} : k'.waiting_on[u] = k.waiting_on[u]
        /\ k'.current = k.current
    BY <1>1, <1>2, <1>3, BirthInv
  <1>5. m \in Team \cup {NULL}
    BY <1>2 DEF IInv, TypeOK
  <1>6. TypeOK'
    <2>1. team' \in [Thread -> Team \cup {NULL}]
      BY <1>1, <1>5 DEF IInv, TypeOK
    <2>2. refcount' \in [Team -> Int]
      <3>1. refcount \in [Team -> Int]
        BY DEF IInv, TypeOK
      <3>2. CASE m \in Team
        BY <1>1, <3>1, <3>2
      <3>3. CASE m \notin Team
        BY <1>1, <3>1, <3>3
      <3> QED
        BY <3>2, <3>3
    <2>3. resources' \in [Team -> Seq(Owned)]
      BY <1>1, <1>2, OwnType DEF IInv
    <2> QED
      BY <1>1, <1>4, <2>1, <2>2, <2>3 DEF IInv, TypeOK, KInv
  <1>7. NoThreadLost'
    BY <1>1, <1>2, <1>4, Names DEF IInv, NoThreadLost, Placed
  <1>8. NoOrphanWaiter'
    BY <1>4, Names DEF IInv, NoOrphanWaiter
  <1>9. SemBalance'
    <2>1. \A s \in AllSem : s \in bound' <=> s \in bound
      BY Names DEF AllSem
    <2>2. \A s \in AllSem : k'.queue[s] = k.queue[s]
      BY <1>4, Names DEF AllSem
    <2> QED
      BY <1>1, <2>1, <2>2 DEF IInv, SemBalance
  <1>10. /\ ReaperSem \in bound'
         /\ k'.queue[ReaperSem] = k.queue[ReaperSem]
         /\ k'.queue[ReaperQ] = k.queue[ReaperQ]
    BY <1>4, Names DEF IInv, ReaperHome
  <1> QED
    BY <1>1, <1>4, <1>6, <1>7, <1>8, <1>9, <1>10, UserPC, Calm

LEMMA ThrCreateInv ==
    ASSUME IInv, NEW t \in Thread, ThrCreate(t)
    PROVE  IInv'
  <1>1. InUser /\ StartThread(t, team[me]) /\ bound' = bound \cup {t}
    BY DEF ThrCreate
  <1> DEFINE m == team[me]
  <1> HIDE DEF m
  <1>2. m = team[me] /\ StartThread(t, m)
    BY <1>1 DEF m
  <1> QED
    BY <1>1, <1>2, StartThreadInv

LEMMA ThrSpawnInv ==
    ASSUME IInv, NEW t \in Thread, NEW m \in Team, ThrSpawn(t, m)
    PROVE  IInv'
  BY StartThreadInv DEF ThrSpawn

\* A step that ends in swtch, with all sleepers but those of the timer as
\* they were.
LEMMA SwitchInv ==
    ASSUME IInv, k.stop = "no", NEW e, KInv(e), Leaving(e),
           \A p \in Object \ {RunQ, TimerQ} : e.queue[p] = k.queue[p],
           Reaper \in Elems(e.queue[TimerQ]) => Reaper \in Elems(k.queue[TimerQ]),
           \A t \in Thread : (t = e.current \/ e.waiting_on[t] # NULL)
                             <=> (t = k.current \/ k.waiting_on[t] # NULL),
           k' = Swtch(e), timer' \in 0..(TimerMod - 1),
           UNCHANGED <<bound, count, team, refcount, resources, pc, res>>
    PROVE  IInv'
  <1>1. /\ KInv(k') /\ Keeps(e, k')
        /\ k'.stop # "exit" => CurrentRuns(k')
    BY SwtchInv
  <1>2. /\ \A p \in Object \ {RunQ, TimerQ} : k'.queue[p] = k.queue[p]
        /\ k'.queue[TimerQ] = e.queue[TimerQ]
        /\ \A t \in Thread : (t = k'.current \/ k'.waiting_on[t] # NULL)
                             <=> (t = k.current \/ k.waiting_on[t] # NULL)
    BY <1>1, Names DEF Keeps
  <1>3. TypeOK'
    BY <1>1 DEF IInv, TypeOK, KInv
  <1>4. NoThreadLost'
    BY <1>2 DEF IInv, NoThreadLost, Placed
  <1>5. NoOrphanWaiter'
    BY <1>2, Names DEF IInv, NoOrphanWaiter
  <1>6. SemBalance'
    BY <1>2, Names DEF IInv, SemBalance, AllSem
  <1>7. \A o \in Object \ {RunQ} :
            Reaper \in Elems(k'.queue[o]) => Reaper \in Elems(k.queue[o])
    BY <1>2
  <1>8. /\ k'.queue[ReaperSem] = k.queue[ReaperSem]
        /\ k'.queue[ReaperQ] = k.queue[ReaperQ]
        /\ ReaperSem \in bound'
    BY <1>2, Names DEF IInv, ReaperHome
  <1> QED
    BY <1>1, <1>3, <1>4, <1>5, <1>6, <1>7, <1>8, UserPC, Calm

LEMMA SleepInv ==
    ASSUME IInv, NEW us \in Naps, Sleep(us)
    PROVE  IInv'
  <1>1. /\ InUser /\ k.stop = "no"
        /\ UNCHANGED <<bound, count, team, refcount, resources, timer, pc, res>>
    BY DEF Sleep, InUser, Interruptible
  <1>2. /\ KInv(k) /\ CurrentRuns(k) /\ me = k.current /\ me \in Thread
        /\ me \in Task /\ me # Idle /\ me # Reaper /\ k.waiting_on[me] = NULL
    BY <1>1, Ground DEF me
  <1>3. timer' \in 0..(TimerMod - 1)
    BY <1>1 DEF IInv, TypeOK
  <1>4. CASE k' = Swtch(k)
    BY <1>1, <1>2, <1>3, <1>4, SwitchInv DEF Leaving, CurrentRuns
  <1>5. CASE k' = Swtch(RsrcEnqueueOrdered(k, TimerQ, me,
                                           (timer + Ticks(us)) % TimerMod))
    <2> DEFINE when == (timer + Ticks(us)) % TimerMod
               e == RsrcEnqueueOrdered(k, TimerQ, me, when)
    <2>1. when \in Nat
      <3>1. us \in Nat /\ timer \in Nat /\ TimerMod \in Nat \ {0}
        BY ThreadsAssumption DEF IInv, TypeOK
      <3>2. Ticks(us) \in Nat
        BY <3>1 DEF Ticks
      <3> HIDE DEF Ticks
      <3> QED
        BY <3>1, <3>2
    <2> HIDE DEF when
    <2>2. /\ KInv(e)
          /\ e.queue[TimerQ] = Append(k.queue[TimerQ], me)
          /\ \A p \in Object \ {TimerQ} : e.queue[p] = k.queue[p]
          /\ e.waiting_on[me] = TimerQ
          /\ \A u \in Task \ {me} : e.waiting_on[u] = k.waiting_on[u]
          /\ e.current = k.current
      BY <1>2, <2>1, EnqueueOrderedInv, Names
    <2>3. k' = Swtch(e)
      BY <1>5 DEF when
    <2> HIDE DEF e
    <2>4. Leaving(e)
      BY <1>2, <2>2, Names DEF Leaving
    <2>5. Reaper \in Elems(e.queue[TimerQ]) => Reaper \in Elems(k.queue[TimerQ])
      <3> SUFFICES ASSUME Reaper \in Elems(e.queue[TimerQ])
                   PROVE  Reaper \in Elems(k.queue[TimerQ])
        OBVIOUS
      <3>1. PICK i \in 1..Len(e.queue[TimerQ]) : e.queue[TimerQ][i] = Reaper
        BY DEF Elems
      <3>2. k.queue[TimerQ] \in Seq(Task)
        BY <1>2, Names DEF KInv, KState
      <3>3. i \in 1..Len(k.queue[TimerQ]) /\ k.queue[TimerQ][i] = Reaper
        BY <1>2, <2>2, <3>1, <3>2
      <3> QED
        BY <3>3 DEF Elems
    <2>6. \A t \in Thread : (t = e.current \/ e.waiting_on[t] # NULL)
                            <=> (t = k.current \/ k.waiting_on[t] # NULL)
      BY <1>2, <2>2, Names
    <2> QED
      BY <1>1, <1>3, <2>2, <2>3, <2>4, <2>5, <2>6, SwitchInv
  <1> QED
    BY <1>4, <1>5 DEF Sleep

LEMMA TimerIrqInv ==
    ASSUME IInv, NEW stray \in BOOLEAN, NEW n \in 0..Len(k.queue[TimerQ]),
           TimerIrq(n, stray)
    PROVE  IInv'
  <1>1. /\ k.stop = "no" /\ timer' = (timer + 1) % TimerMod
        /\ UNCHANGED <<bound, count, team, refcount, resources, pc, res>>
    BY DEF TimerIrq, Interruptible, NextTick
  <1>2. KInv(k) /\ CurrentRuns(k) /\ TimerQ \in Object \ {RunQ}
        /\ k.queue[TimerQ] \in Seq(Task) /\ k \in KState
    BY <1>1, Ground, Names DEF KInv, KState
  <1>3. timer' \in 0..(TimerMod - 1)
    <2>1. timer \in Int /\ TimerMod \in Nat \ {0}
      BY ThreadsAssumption DEF IInv, TypeOK
    <2> QED
      BY <1>1, <2>1
  <1> DEFINE e == Ready(k, TimerQ, n)
  <1>4. /\ KInv(e) /\ CurrentRuns(e) /\ e.current = k.current
        /\ \A t \in Task : e.waiting_on[t] = NULL <=> k.waiting_on[t] = NULL
    BY <1>2, ReadyKeeps
  <1>5. /\ e.queue[TimerQ] = SubSeq(k.queue[TimerQ], n + 1, Len(k.queue[TimerQ]))
        /\ \A p \in Object \ {RunQ, TimerQ} : e.queue[p] = k.queue[p]
    <2>1. /\ e.queue[TimerQ] = SubSeq(k.queue[TimerQ], n + 1,
                                      Len(k.queue[TimerQ]))
          /\ \A p \in Object \ {TimerQ, RunQ} : e.queue[p] = k.queue[p]
      BY <1>2, ReadyQueues
    <2> HIDE DEF e
    <2> QED
      BY <2>1
  <1>6. k' = [e EXCEPT !.stop = "wild"] \/ k' = Swtch(e)
    BY DEF TimerIrq
  <1> HIDE DEF e
  <1>7. Reaper \in Elems(e.queue[TimerQ]) => Reaper \in Elems(k.queue[TimerQ])
    <2> SUFFICES ASSUME Reaper \in Elems(e.queue[TimerQ])
                 PROVE  Reaper \in Elems(k.queue[TimerQ])
      OBVIOUS
    <2>1. PICK i \in 1..Len(e.queue[TimerQ]) : e.queue[TimerQ][i] = Reaper
      BY DEF Elems
    <2>2. n + i \in 1..Len(k.queue[TimerQ]) /\ k.queue[TimerQ][n + i] = Reaper
      BY <1>2, <1>5, <2>1, Cut
    <2> QED
      BY <2>2 DEF Elems
  <1>8. \A t \in Thread : (t = e.current \/ e.waiting_on[t] # NULL)
                          <=> (t = k.current \/ k.waiting_on[t] # NULL)
    BY <1>4, Names
  <1>9. CASE k' = Swtch(e)
    BY <1>1, <1>3, <1>4, <1>5, <1>7, <1>8, <1>9, SwitchInv
       DEF Leaving, CurrentRuns
  <1>10. CASE k' = [e EXCEPT !.stop = "wild"]
    <2>1. /\ k'.queue = e.queue /\ k'.waiting_on = e.waiting_on
          /\ k'.flags = e.flags /\ k'.current = e.current
          /\ k' \in KState
      BY <1>4, <1>10 DEF KInv, KState
    <2>2. KInv(k') /\ CurrentRuns(k')
      BY <1>4, <2>1
         DEF KInv, QueuesConsistent, FlagsConsistent, CurrentRuns
    <2>3. TypeOK'
      BY <1>1, <1>3, <2>1 DEF IInv, TypeOK
    <2>4. NoThreadLost'
      BY <1>1, <1>8, <2>1 DEF IInv, NoThreadLost, Placed
    <2>5. NoOrphanWaiter'
      BY <1>1, <1>5, <2>1, Names DEF IInv, NoOrphanWaiter
    <2>6. SemBalance'
      BY <1>1, <1>5, <2>1, Names DEF IInv, SemBalance, AllSem
    <2>7. /\ k'.queue[ReaperSem] = k.queue[ReaperSem]
          /\ k'.queue[ReaperQ] = k.queue[ReaperQ]
          /\ ReaperSem \in bound'
      BY <1>1, <1>5, <2>1, Names DEF IInv, ReaperHome
    <2>8. \A o \in Object \ {RunQ} :
              Reaper \in Elems(k'.queue[o]) => Reaper \in Elems(k.queue[o])
      BY <1>5, <1>7, <2>1
    <2> QED
      BY <1>1, <2>2, <2>3, <2>4, <2>5, <2>6, <2>7, <2>8, UserPC, Calm
  <1> QED
    BY <1>6, <1>9, <1>10

-----------------------------------------------------------------------------
(* Death and the reaper.                                                    *)

\* There is at most one sleeper on reaper_sem, and it is the reaper.
LEMMA ReaperAlone ==
    ASSUME IInv
    PROVE  /\ k.queue[ReaperSem] \in Seq(Task)
           /\ Len(k.queue[ReaperSem]) \in {0, 1}
           /\ Len(k.queue[ReaperSem]) = 1 <=> k.waiting_on[Reaper] = ReaperSem
  <1>1. KInv(k)
    BY DEF IInv, TypeOK, SchedulerConsistent, KInv
  <1>2. k.queue[ReaperSem] \in Seq(Task)
    BY <1>1, Names DEF KInv, KState
  <1>3. \A i \in 1..Len(k.queue[ReaperSem]) : k.queue[ReaperSem][i] = Reaper
    <2> TAKE i \in 1..Len(k.queue[ReaperSem])
    <2>1. k.queue[ReaperSem][i] \in Task
          /\ k.waiting_on[k.queue[ReaperSem][i]] = ReaperSem
      BY <1>1, <1>2, Names DEF KInv, QueuesConsistent
    <2> QED
      BY <2>1 DEF IInv, ReaperHome
  <1>4. Len(k.queue[ReaperSem]) \in {0, 1}
    <2>1. \A i, j \in 1..Len(k.queue[ReaperSem]) : i = j
      BY <1>1, <1>3, Names DEF KInv, QueuesConsistent
    <2>2. Len(k.queue[ReaperSem]) \in Nat
      BY <1>2
    <2> DEFINE L == Len(k.queue[ReaperSem])
    <2>3. L \in Nat /\ \A i, j \in 1..L : i = j
      BY <2>1, <2>2
    <2> HIDE DEF L
    <2>4. ~(L >= 2)
      <3> SUFFICES ASSUME L >= 2
                   PROVE  FALSE
        OBVIOUS
      <3>1. 1 \in 1..L /\ 2 \in 1..L
        BY <2>3
      <3>2. 1 = 2
        BY <2>3, <3>1
      <3> QED
        BY <3>2
    <2>5. L \in {0, 1}
      BY <2>3, <2>4
    <2> QED
      BY <2>5 DEF L
  <1>5. Reaper \in Elems(k.queue[ReaperSem]) <=> k.waiting_on[Reaper] = ReaperSem
    BY <1>1, OnQueue, Names
  <1>6. Reaper \in Elems(k.queue[ReaperSem]) <=> Len(k.queue[ReaperSem]) = 1
    <2>1. CASE Len(k.queue[ReaperSem]) = 1
      <3>1. 1 \in 1..Len(k.queue[ReaperSem]) /\ k.queue[ReaperSem][1] = Reaper
        BY <2>1, <1>3
      <3> QED
        BY <2>1, <3>1 DEF Elems
    <2>2. CASE Len(k.queue[ReaperSem]) = 0
      BY <2>2 DEF Elems
    <2> QED
      BY <2>1, <2>2, <1>4
  <1> QED
    BY <1>2, <1>4, <1>5, <1>6

LEMMA TerminateInv ==
    ASSUME IInv, Terminate
    PROVE  IInv'
  <1>1. /\ InUser /\ k.stop = "no"
        /\ k' = Swtch(WakeOne(WakeAll(Bury(k), me, "RESOURCE"),
                              ReaperSem, "NONE"))
        /\ count' = [count EXCEPT ![ReaperSem] = @ + 1]
        /\ UNCHANGED <<bound, team, refcount, resources, timer, pc, res>>
    BY DEF Terminate, InUser, Interruptible
  <1>2. /\ KInv(k) /\ CurrentRuns(k) /\ me = k.current /\ me \in Thread
        /\ me \in Task /\ me # Idle /\ me # Reaper /\ k.waiting_on[me] = NULL
        /\ me \in Object \ {RunQ, ReaperQ, TimerQ, ReaperSem}
        /\ me \notin Sem /\ me \notin AllSem
        /\ "RESOURCE" \in Status /\ "NONE" \in Status
    BY <1>1, Ground, Names DEF me, AllSem, Status
  <1> DEFINE b == Bury(k)
             a == WakeAll(b, me, "RESOURCE")
             w == WakeOne(a, ReaperSem, "NONE")
             q == k.queue[ReaperSem]
  <1>3. /\ KInv(b) /\ Leaving(b)
        /\ b.queue[ReaperQ] = Append(k.queue[ReaperQ], me)
        /\ \A p \in Object \ {ReaperQ} : b.queue[p] = k.queue[p]
        /\ b.waiting_on[me] = ReaperQ
        /\ \A t \in Task \ {me} : b.waiting_on[t] = k.waiting_on[t]
        /\ b.current = me
    BY <1>2, BuryInv DEF me
  <1> HIDE DEF b
  <1>4. /\ KInv(a) /\ Leaving(a)
        /\ a.queue[me] = <<>>
        /\ \A p \in Object \ {me, RunQ} : a.queue[p] = b.queue[p]
        /\ \A t \in Task : a.waiting_on[t] = NULL <=> b.waiting_on[t] = NULL
        /\ a.current = b.current
    BY <1>2, <1>3, WakeAllInv
  <1> HIDE DEF a
  <1>5. a.queue[ReaperSem] = q
    BY <1>2, <1>3, <1>4, Names
  <1>6. q \in Seq(Task) /\ Len(q) \in {0, 1}
        /\ (Len(q) = 1 <=> k.waiting_on[Reaper] = ReaperSem)
    BY ReaperAlone
  <1> HIDE DEF w
  <1>9. /\ KInv(w) /\ Leaving(w)
        /\ w.queue[ReaperSem] = <<>>
        /\ \A p \in Object \ {ReaperSem, RunQ} : w.queue[p] = a.queue[p]
        /\ \A t \in Task : w.waiting_on[t] = NULL <=> a.waiting_on[t] = NULL
        /\ w.current = a.current
    <2>1. ReaperSem \in Object \ {RunQ} /\ Len(a.queue[ReaperSem]) \in {0, 1}
      BY <1>5, <1>6, Names
    <2> QED
      BY <1>2, <1>4, <2>1, WakeOneInv DEF w
  <1>11. /\ KInv(k') /\ Keeps(w, k')
         /\ k'.stop # "exit" => CurrentRuns(k')
    <2>1. k' = Swtch(w)
      BY <1>1 DEF w, a, b
    <2> QED
      BY <1>9, <2>1, SwtchInv
  <1>12. /\ k'.queue[ReaperQ] = Append(k.queue[ReaperQ], me)
         /\ k'.queue[ReaperSem] = <<>>
         /\ k'.queue[me] = <<>>
         /\ \A p \in Object \ {RunQ, ReaperQ, ReaperSem, me} :
               k'.queue[p] = k.queue[p]
    BY <1>2, <1>3, <1>4, <1>9, <1>11, Names DEF Keeps
  <1>13. \A t \in Thread : (t = k'.current \/ k'.waiting_on[t] # NULL)
                           <=> (t = k.current \/ k.waiting_on[t] # NULL)
    <2> TAKE t \in Thread
    <2>1. t \in Task
      BY Names
    <2>2. (t = b.current \/ b.waiting_on[t] # NULL)
          <=> (t = k.current \/ k.waiting_on[t] # NULL)
      BY <1>2, <1>3, <2>1, Names
    <2>3. (t = w.current \/ w.waiting_on[t] # NULL)
          <=> (t = b.current \/ b.waiting_on[t] # NULL)
      BY <1>4, <1>9, <2>1
    <2> QED
      BY <1>11, <2>2, <2>3 DEF Keeps
  <1>14. ReaperSem \in AllSem /\ ReaperSem \in bound
         /\ count \in [AllSem -> Int] /\ count' \in [AllSem -> Int]
         /\ count'[ReaperSem] = count[ReaperSem] + 1
         /\ \A s \in AllSem \ {ReaperSem} : count'[s] = count[s]
    BY <1>1 DEF IInv, TypeOK, ReaperHome, AllSem
  <1>15. TypeOK'
    BY <1>1, <1>11, <1>14 DEF IInv, TypeOK, KInv
  <1>16. SchedulerConsistent'
    BY <1>11 DEF KInv, SchedulerConsistent
  <1>17. NoThreadLost'
    BY <1>1, <1>13 DEF IInv, NoThreadLost, Placed
  <1>18. NoOrphanWaiter'
    BY <1>1, <1>2, <1>12, Names DEF IInv, NoOrphanWaiter
  <1>19. Len(q) = (IF count[ReaperSem] < 0 THEN -count[ReaperSem] ELSE 0)
    BY <1>14 DEF IInv, SemBalance
  <1>20. SemBalance'
    <2>1. ~(count'[ReaperSem] < 0) /\ Len(k'.queue[ReaperSem]) = 0
      BY <1>6, <1>12, <1>14, <1>19
    <2>2. \A s \in AllSem \ {ReaperSem} : k'.queue[s] = k.queue[s]
      BY <1>2, <1>12, Names DEF AllSem
    <2> QED
      BY <1>1, <1>14, <2>1, <2>2 DEF IInv, SemBalance
  <1>21. \A t \in Task : k'.waiting_on[t] # ReaperSem
    BY <1>11, <1>12, OnQueue, EmptyElems, Names
  <1>22. k'.waiting_on[Reaper] \in {NULL, RunQ}
    <2>1. k'.waiting_on[Reaper] \in Object \cup {NULL}
      BY <1>11, Names DEF KInv, KState
    <2>2. ASSUME NEW o \in Object \ {RunQ, ReaperSem}
          PROVE  Reaper \notin Elems(k'.queue[o])
      <3>1. Reaper \notin Elems(k.queue[o])
        BY <1>2, OnQueue, Names DEF IInv, ReaperHome
      <3>2. CASE o = ReaperQ
        <4>1. k.queue[ReaperQ] \in Seq(Task)
          BY <1>2, Names DEF KInv, KState
        <4> SUFFICES ASSUME Reaper \in Elems(k'.queue[o])
                     PROVE  FALSE
          OBVIOUS
        <4>2. PICK i \in 1..Len(k'.queue[ReaperQ]) : k'.queue[ReaperQ][i] = Reaper
          BY <3>2 DEF Elems
        <4>3. i \in 1..Len(k.queue[ReaperQ]) /\ k.queue[ReaperQ][i] = Reaper
          BY <1>2, <1>12, <4>1, <4>2
        <4> QED
          BY <3>1, <3>2, <4>3 DEF Elems
      <3>3. CASE o = me
        BY <1>12, <3>3, EmptyElems
      <3>4. CASE o # ReaperQ /\ o # me
        BY <1>12, <3>1, <3>4
      <3> QED
        BY <3>2, <3>3, <3>4
    <2>3. \A o \in Object \ {RunQ, ReaperSem} : k'.waiting_on[Reaper] # o
      BY <1>11, <2>2, OnQueue, Names
    <2> QED
      BY <1>21, <2>1, <2>3, Names
  <1>23. ReaperHome'
    BY <1>1, <1>21, <1>22, Names DEF IInv, ReaperHome
  <1>24. ReaperToll'
    <2>1. Len(k'.queue[ReaperQ]) = Len(k.queue[ReaperQ]) + 1
      <3>1. k.queue[ReaperQ] \in Seq(Task)
        BY <1>2, Names DEF KInv, KState
      <3> QED
        BY <1>12, <3>1
    <2>2. CASE Len(q) = 1
      <3>0. count[ReaperSem] = -1 /\ count'[ReaperSem] = 0
        <4> DEFINE c == count[ReaperSem]
        <4>1. c \in Int /\ count'[ReaperSem] = c + 1
          BY <1>14
        <4>2. (IF c < 0 THEN -c ELSE 0) = 1
          BY <1>19, <2>2
        <4> HIDE DEF c
        <4>3. c = -1
          BY <4>1, <4>2
        <4> QED
          BY <4>1, <4>3 DEF c
      <3>1. /\ count[ReaperSem] = -1 /\ count'[ReaperSem] = 0
            /\ k.waiting_on[Reaper] = ReaperSem /\ pc[Reaper] = "reap"
            /\ pc'[Reaper] = "reap" /\ k'.waiting_on[Reaper] # ReaperSem
        BY <1>1, <1>6, <1>21, <2>2, <3>0, Names DEF IInv, ReaperHome
      <3> QED
        BY <2>1, <3>1 DEF IInv, ReaperToll
    <2>3. CASE Len(q) = 0
      <3>1. /\ count[ReaperSem] >= 0 /\ count'[ReaperSem] > 0
            /\ count[ReaperSem] \in Int
            /\ k.waiting_on[Reaper] # ReaperSem
            /\ pc' = pc /\ k'.waiting_on[Reaper] # ReaperSem
        BY <1>1, <1>6, <1>14, <1>19, <1>21, <2>3, Names
      <3> QED
        BY <1>14, <2>1, <3>1 DEF IInv, ReaperToll
    <2> QED
      BY <1>6, <2>2, <2>3
  <1> QED
    BY <1>15, <1>16, <1>17, <1>18, <1>20, <1>23, <1>24 DEF IInv

LEMMA ReaperAcquireInv ==
    ASSUME IInv, ReaperAcquire
    PROVE  IInv'
  <1>1. /\ k.stop = "no" /\ pc[me] = "reaper"
        /\ count' = [count EXCEPT ![ReaperSem] = @ - 1]
        /\ pc' = [pc EXCEPT ![me] = "reap"]
        /\ UNCHANGED <<bound, team, refcount, resources, timer, res>>
    BY DEF ReaperAcquire, Resumes, Goto
  <1>2. /\ KInv(k) /\ CurrentRuns(k) /\ me = Reaper /\ me = k.current
        /\ k.waiting_on[Reaper] = NULL
    BY <1>1, Ground DEF IInv, ReaperHome, me
  <1>3. /\ ReaperSem \in AllSem /\ ReaperSem \in bound
        /\ count[ReaperSem] \in Int /\ count' \in [AllSem -> Int]
        /\ count'[ReaperSem] = count[ReaperSem] - 1
        /\ \A s \in AllSem \ {ReaperSem} : count'[s] = count[s]
    BY <1>1 DEF IInv, TypeOK, ReaperHome, AllSem
  <1>4. /\ pc' \in [Task -> PC] /\ pc'[Reaper] = "reap" /\ pc[Reaper] = "reaper"
        /\ \A t \in Task \ {Reaper} : pc'[t] = pc[t]
    BY <1>1, <1>2, Names DEF IInv, TypeOK, PC
  <1>5. Len(k.queue[ReaperSem]) = 0 /\ k.queue[ReaperSem] \in Seq(Task)
    BY <1>2, ReaperAlone, Names
  <1>6. ~(count[ReaperSem] < 0)
    <2> DEFINE c == count[ReaperSem]
    <2>1. (IF c < 0 THEN -c ELSE 0) = 0 /\ c \in Int
      BY <1>3, <1>5 DEF IInv, SemBalance
    <2> HIDE DEF c
    <2>2. ~(c < 0)
      BY <2>1
    <2> QED
      BY <2>2 DEF c
  <1>7. Len(k.queue[ReaperQ]) =
            (IF count[ReaperSem] > 0 THEN count[ReaperSem] ELSE 0)
    BY <1>3, <1>4 DEF IInv, ReaperToll
  <1>8. CASE count[ReaperSem] > 0
    <2>1. k' = k
      BY <1>8 DEF ReaperAcquire
    <2>2. TypeOK'
      BY <1>1, <1>3, <1>4, <2>1 DEF IInv, TypeOK
    <2>3. SchedulerConsistent' /\ NoThreadLost' /\ NoOrphanWaiter'
      BY <1>1, <2>1
         DEF IInv, SchedulerConsistent, NoThreadLost, NoOrphanWaiter
    <2>4. SemBalance'
      <3>1. ~(count'[ReaperSem] < 0) /\ Len(k'.queue[ReaperSem]) = 0
        <4> DEFINE c == count[ReaperSem]
        <4>1. c \in Int /\ c > 0 /\ count'[ReaperSem] = c - 1
          BY <1>3, <1>8
        <4> HIDE DEF c
        <4> QED
          BY <4>1, <1>5, <2>1
      <3>2. \A s \in AllSem \ {ReaperSem} : s \in bound' =>
               Len(k'.queue[s]) = (IF count'[s] < 0 THEN -count'[s] ELSE 0)
        BY <1>1, <1>3, <2>1 DEF IInv, SemBalance
      <3> QED
        BY <3>1, <3>2 DEF SemBalance
    <2>5. ReaperToll'
      <3> DEFINE c == count[ReaperSem]
      <3>1. c \in Int /\ c > 0 /\ count'[ReaperSem] = c - 1
        BY <1>3, <1>8
      <3>2. Len(k'.queue[ReaperQ]) = c
        BY <1>7, <1>8, <2>1
      <3>3. pc'[Reaper] = "reap" /\ k'.waiting_on[Reaper] # ReaperSem
        BY <1>2, <1>4, <2>1, Names
      <3> HIDE DEF c
      <3>4. (IF c - 1 > 0 THEN c - 1 ELSE 0) + 1 = c
        BY <3>1
      <3> QED
        BY <3>1, <3>2, <3>3, <3>4 DEF ReaperToll
    <2>6. ReaperHome'
      BY <1>1, <1>2, <1>4, <2>1, Names DEF IInv, ReaperHome
    <2> QED
      BY <2>2, <2>3, <2>4, <2>5, <2>6 DEF IInv
  <1>9. CASE ~(count[ReaperSem] > 0)
    <2>0. count[ReaperSem] = 0 /\ count'[ReaperSem] = -1
      BY <1>3, <1>6, <1>9
    <2>1. k' = WaitOn(k, ReaperSem)
      BY <1>9 DEF ReaperAcquire
    <2>2. /\ KInv(k')
          /\ k'.queue[ReaperSem] = Append(k.queue[ReaperSem], Reaper)
          /\ \A p \in Object \ {ReaperSem, RunQ} : k'.queue[p] = k.queue[p]
          /\ \A t \in Thread : (t = k'.current \/ k'.waiting_on[t] # NULL)
                               <=> (t = k.current \/ k.waiting_on[t] # NULL)
          /\ k'.stop # "exit" => CurrentRuns(k')
      <3>1. ReaperSem \in Object \ {RunQ, ReaperQ} /\ k.current # Idle
        BY <1>2, Names
      <3> QED
        BY <1>2, <2>1, <3>1, WaitOnInv
    <2>3. TypeOK'
      BY <1>1, <1>3, <1>4, <2>2 DEF IInv, TypeOK, KInv
    <2>4. SchedulerConsistent'
      BY <2>2 DEF KInv, SchedulerConsistent
    <2>5. NoThreadLost'
      BY <1>1, <2>2 DEF IInv, NoThreadLost, Placed
    <2>6. NoOrphanWaiter'
      BY <1>1, <1>3, <2>2, Names DEF IInv, NoOrphanWaiter
    <2>7. Len(k'.queue[ReaperSem]) = 1 /\ k'.queue[ReaperSem][1] = Reaper
      BY <1>5, <2>2, Names
    <2>8. SemBalance'
      <3>1. \A s \in AllSem \ {ReaperSem} : k'.queue[s] = k.queue[s]
        BY <2>2, Names DEF AllSem
      <3>2. \A s \in AllSem \ {ReaperSem} : s \in bound' =>
               Len(k'.queue[s]) = (IF count'[s] < 0 THEN -count'[s] ELSE 0)
        BY <1>1, <1>3, <3>1 DEF IInv, SemBalance
      <3>3. Len(k'.queue[ReaperSem]) =
               (IF count'[ReaperSem] < 0 THEN -count'[ReaperSem] ELSE 0)
        <4> DEFINE c == count'[ReaperSem]
        <4>1. c \in Int /\ c + 1 = 0
          BY <1>3, <2>0
        <4> HIDE DEF c
        <4>2. (IF c < 0 THEN -c ELSE 0) = 1
          BY <4>1
        <4> QED
          BY <4>2, <2>7 DEF c
      <3> QED
        BY <3>2, <3>3 DEF SemBalance
    <2>9. \A t \in Task : k'.waiting_on[t] = ReaperSem <=> t = Reaper
      <3>1. \A t : t \in Elems(k'.queue[ReaperSem]) <=> t = Reaper
        BY <2>7 DEF Elems
      <3> QED
        BY <2>2, <3>1, OnQueue, Names, ZenonT(60)
    <2>10. ReaperToll'
      <3>1. Len(k'.queue[ReaperQ]) = 0
        BY <1>7, <2>0, <2>2, Names
      <3> QED
        BY <2>0, <2>9, <3>1, Names DEF ReaperToll
    <2>11. ReaperHome'
      BY <1>1, <1>4, <2>9, Names DEF IInv, ReaperHome
    <2> QED
      BY <2>3, <2>4, <2>5, <2>6, <2>8, <2>10, <2>11 DEF IInv
  <1> QED
    BY <1>8, <1>9

LEMMA ReapInv ==
    ASSUME IInv, Reap
    PROVE  IInv' /\ k'.stop # "wild"
  <1>1. /\ k.stop = "no" /\ pc[me] = "reap"
        /\ UNCHANGED <<count, timer, res>>
    BY DEF Reap, Resumes
  <1>2. /\ KInv(k) /\ CurrentRuns(k) /\ me = Reaper /\ me = k.current
        /\ k.waiting_on[Reaper] = NULL /\ pc[Reaper] = "reap"
    BY <1>1, Ground DEF IInv, ReaperHome, me
  <1>3. k.queue[ReaperQ] \in Seq(Task) /\ count[ReaperSem] \in Int
    BY <1>2, Names DEF IInv, TypeOK, AllSem, KState
  <1>4. Len(k.queue[ReaperQ]) =
            (IF count[ReaperSem] > 0 THEN count[ReaperSem] ELSE 0) + 1
    BY <1>2, Names DEF IInv, ReaperToll
  <1>5. k.queue[ReaperQ] # <<>>
    BY <1>3, <1>4
  <1> DEFINE t == Head(k.queue[ReaperQ])
             d == RsrcDequeue(k, ReaperQ)
             m == team[t]
  <1>6. /\ t \in Task /\ k.waiting_on[t] = ReaperQ
        /\ t \in Thread /\ t # me
    <2>1. t \in Task /\ k.waiting_on[t] = ReaperQ
      BY <1>2, <1>5, HeadWaits, Names
    <2>2. t # Reaper /\ t # Idle
      BY <1>2, <2>1, Names DEF KInv
    <2> QED
      BY <1>2, <2>1, <2>2 DEF Task
  <1>7. /\ k' = WakeAll(d, t, "RESOURCE")
        /\ bound' = bound \ {t}
        /\ team' = [team EXCEPT ![t] = NULL]
        /\ resources' = Disowned(t)
        /\ refcount' = [refcount EXCEPT ![m] = @ - 1]
        /\ pc' = [pc EXCEPT ![me] = IF refcount[m] = 1 THEN "team_destroy"
                                    ELSE "reaper"]
    BY <1>5 DEF Reap, RsrcRelease, Goto
  <1>8. /\ d.queue[ReaperQ] = Tail(k.queue[ReaperQ])
        /\ \A p \in Object \ {ReaperQ} : d.queue[p] = k.queue[p]
        /\ d.waiting_on[t] = NULL
        /\ \A u \in Task \ {t} : d.waiting_on[u] = k.waiting_on[u]
                               /\ d.flags[u] = k.flags[u]
        /\ d.current = k.current /\ d.stop = k.stop
    BY <1>2, <1>5, DequeueMoves, Names DEF KInv
  <1>9. KInv(d)
    BY <1>2, <1>5, DequeueInv, Names
  <1> HIDE DEF d, t, m
  <1>10. CurrentRuns(d)
    BY <1>2, <1>6, <1>8, Names DEF CurrentRuns
  <1>11. /\ KInv(k') /\ CurrentRuns(k')
         /\ k'.queue[t] = <<>>
         /\ \A p \in Object \ {t, RunQ} : k'.queue[p] = d.queue[p]
         /\ \A u \in Task : k'.waiting_on[u] = NULL <=> d.waiting_on[u] = NULL
         /\ k'.current = d.current /\ k'.stop = d.stop
    <2>1. t \in Object \ {RunQ} /\ "RESOURCE" \in Status
      BY <1>6, Names DEF Status
    <2> QED
      BY <1>7, <1>9, <1>10, <2>1, WakeAllInv
  <1>12. /\ k'.queue[ReaperQ] = Tail(k.queue[ReaperQ])
         /\ k'.queue[ReaperSem] = k.queue[ReaperSem]
         /\ \A p \in Object \ {t, RunQ, ReaperQ} : k'.queue[p] = k.queue[p]
    BY <1>6, <1>8, <1>11, Names
  <1>13. /\ pc' \in [Task -> PC] /\ pc'[Reaper] \in {"team_destroy", "reaper"}
         /\ \A u \in Task \ {Reaper} : pc'[u] = pc[u]
    BY <1>2, <1>7, Names DEF IInv, TypeOK, PC
  <1>14. TypeOK'
    <2>1. team' \in [Thread -> Team \cup {NULL}]
      BY <1>7 DEF IInv, TypeOK
    <2>2. refcount' \in [Team -> Int]
      <3>1. refcount \in [Team -> Int]
        BY DEF IInv, TypeOK
      <3>2. CASE m \in Team
        BY <1>7, <3>1, <3>2
      <3>3. CASE m \notin Team
        BY <1>7, <3>1, <3>3
      <3> QED
        BY <3>2, <3>3
    <2>3. resources' \in [Team -> Seq(Owned)]
      BY <1>7, DisownedType DEF IInv
    <2> QED
      BY <1>1, <1>7, <1>11, <1>13, <2>1, <2>2, <2>3 DEF IInv, TypeOK, KInv
  <1>15. SchedulerConsistent'
    BY <1>11 DEF KInv, SchedulerConsistent
  <1>16. NoThreadLost'
    <2>1. ASSUME NEW u \in Thread
          PROVE  (u = k'.current \/ k'.waiting_on[u] # NULL) <=> u \in bound'
      <3>1. u \in Task
        BY Names
      <3>2. (u = k.current \/ k.waiting_on[u] # NULL) <=> u \in bound
        BY DEF IInv, NoThreadLost, Placed
      <3>3. CASE u = t
        BY <1>2, <1>6, <1>7, <1>8, <1>11, <3>1, <3>3
      <3>4. CASE u # t
        BY <1>7, <1>8, <1>11, <3>1, <3>2, <3>4
      <3> QED
        BY <3>3, <3>4
    <2> QED
      BY <2>1 DEF NoThreadLost, Placed
  <1>17. NoOrphanWaiter'
    BY <1>7, <1>11, <1>12, Names DEF IInv, NoOrphanWaiter
  <1>18. SemBalance'
    <2>1. \A s \in AllSem : k'.queue[s] = k.queue[s]
      BY <1>6, <1>12, Names DEF AllSem
    <2> QED
      BY <1>1, <1>7, <2>1 DEF IInv, SemBalance
  <1>19. \A u \in Task : k'.waiting_on[u] = ReaperSem
                         <=> k.waiting_on[u] = ReaperSem
    BY <1>2, <1>11, <1>12, OnQueue, Names
  <1>20. k'.waiting_on[Reaper] = NULL
    BY <1>2, <1>6, <1>8, <1>11, Names
  <1>21. ReaperHome'
    BY <1>6, <1>7, <1>13, <1>19, <1>20, Names DEF IInv, ReaperHome
  <1>22. ReaperToll'
    <2> DEFINE c == IF count[ReaperSem] > 0 THEN count[ReaperSem] ELSE 0
    <2>1. c \in Nat
      BY <1>3
    <2>2. Len(k'.queue[ReaperQ]) = Len(k.queue[ReaperQ]) - 1
      BY <1>3, <1>5, <1>12
    <2>3. Len(k.queue[ReaperQ]) = c + 1
      BY <1>4
    <2>4. pc'[Reaper] # "reap" /\ count' = count
      BY <1>1, <1>13
    <2> HIDE DEF c
    <2>5. Len(k'.queue[ReaperQ]) = c + 0
      BY <2>1, <2>2, <2>3
    <2> QED
      BY <2>4, <2>5 DEF ReaperToll, c
  <1>23. k'.stop # "wild"
    BY <1>1, <1>8, <1>11
  <1> QED
    BY <1>14, <1>15, <1>16, <1>17, <1>18, <1>21, <1>22, <1>23 DEF IInv

LEMMA TeamDestroyNextInv ==
    ASSUME IInv, TeamDestroyNext
    PROVE  IInv'
  <1>1. PICK m \in Team \cap bound :
           /\ resources[m] # <<>>
           /\ LET x == Head(resources[m])
              IN  IF x \in Sem
                  THEN k' = RsrcRelease(k, x) /\ bound' = bound \ {x}
                  ELSE UNCHANGED <<k, bound>>
           /\ resources' = [resources EXCEPT ![m] = Tail(@)]
    BY DEF TeamDestroyNext
  <1>2. /\ k.stop = "no"
        /\ UNCHANGED <<count, team, refcount, timer, pc, res>>
    BY DEF TeamDestroyNext, Resumes
  <1>3. KInv(k) /\ CurrentRuns(k)
    BY <1>2, Ground
  <1>4. resources' \in [Team -> Seq(Owned)]
    <2>1. resources[m] \in Seq(Owned) /\ resources \in [Team -> Seq(Owned)]
      BY DEF IInv, TypeOK
    <2>2. Tail(resources[m]) \in Seq(Owned)
      BY <1>1, <2>1
    <2> QED
      BY <1>1, <2>1, <2>2
  <1> DEFINE x == Head(resources[m])
  <1>5. CASE x \notin Sem
    <2>1. UNCHANGED <<k, bound>>
      BY <1>1, <1>5
    <2>2. TypeOK'
      BY <1>2, <1>4, <2>1 DEF IInv, TypeOK
    <2>3. SemBalance'
      BY <1>2, <2>1 DEF IInv, SemBalance
    <2> QED
      BY <1>2, <2>1, <2>2, <2>3, UserPC, Quiet DEF IInv, ReaperHome
  <1>6. CASE x \in Sem
    <2>1. k' = WakeAll(k, x, "RESOURCE") /\ bound' = bound \ {x}
      BY <1>1, <1>6 DEF RsrcRelease
    <2> HIDE DEF x
    <2>2. /\ x \in Object \ {RunQ} /\ x # ReaperSem /\ x # ReaperQ
          /\ x \notin Thread /\ "RESOURCE" \in Status
      BY <1>6, Names DEF Status
    <2>3. /\ KInv(k')
          /\ k'.queue[x] = <<>>
          /\ \A p \in Object \ {x, RunQ} : k'.queue[p] = k.queue[p]
          /\ \A t \in Task : k'.waiting_on[t] = NULL <=> k.waiting_on[t] = NULL
          /\ k'.current = k.current
          /\ CurrentRuns(k')
      BY <1>3, <2>1, <2>2, WakeAllInv
    <2>4. TypeOK'
      BY <1>2, <1>4, <2>1, <2>3 DEF IInv, TypeOK, KInv
    <2>5. NoThreadLost'
      BY <2>1, <2>2, <2>3, Names DEF IInv, NoThreadLost, Placed
    <2>6. NoOrphanWaiter'
      BY <2>1, <2>3, Names DEF IInv, NoOrphanWaiter
    <2>7. SemBalance'
      BY <1>2, <2>1, <2>3, Names DEF IInv, SemBalance, AllSem
    <2>8. \A o \in Object \ {RunQ} :
              Reaper \in Elems(k'.queue[o]) => Reaper \in Elems(k.queue[o])
      BY <2>3, EmptyElems
    <2>9. /\ ReaperSem \in bound'
          /\ k'.queue[ReaperSem] = k.queue[ReaperSem]
          /\ k'.queue[ReaperQ] = k.queue[ReaperQ]
      BY <2>1, <2>2, <2>3, Names DEF IInv, ReaperHome
    <2> QED
      BY <1>2, <2>3, <2>4, <2>5, <2>6, <2>7, <2>8, <2>9, UserPC, Calm
  <1> QED
    BY <1>5, <1>6

-----------------------------------------------------------------------------
(* The theorems.                                                            *)

LEMMA NextInv ==
    ASSUME IInv, [Next]_vars
    PROVE  IInv'
  <1>1. CASE UNCHANGED vars
    BY <1>1 DEF vars, IInv, TypeOK, SchedulerConsistent, NoThreadLost,
                NoOrphanWaiter, SemBalance, ReaperToll, ReaperHome
  <1>2. CASE SemCall
    BY <1>2, SemCreateInv, SemDestroyInv, SemAcquireInv, SemReleaseInv
       DEF SemCall
  <1>3. CASE ThreadCall
    BY <1>3, ThrCreateInv, ThrSpawnInv, ThrWaitInv, TerminateInv, SleepInv
       DEF ThreadCall
  <1>4. CASE Kernel
    BY <1>4, ResumeInv, ReaperAcquireInv, ReapInv, TeamDestroyNextInv,
       TeamDestroyEndInv DEF Kernel
  <1>5. CASE Tick
    BY <1>5, TimerIrqInv, ThreadsAssumption DEF Tick
  <1>6. CASE Stopped
    BY <1>1, <1>6 DEF Stopped
  <1> QED
    BY <1>1, <1>2, <1>3, <1>4, <1>5, <1>6 DEF Next

\* What every handler of the kernel keeps, taken together.
THEOREM Invariance == Spec => []IInv
  <1>1. Init => IInv
    BY InitIInv
  <1>2. IInv /\ [Next]_vars => IInv'
    BY NextInv
  <1> QED
    BY <1>1, <1>2, PTL DEF Spec

\* Every variable keeps its type, whatever the calls and their order.
THEOREM TypeCorrect == Spec => []TypeOK
  <1>1. IInv => TypeOK
    BY DEF IInv
  <1> QED
    BY <1>1, Invariance, PTL

\* Between two handlers the queues, waiting_on and flags agree: rsrc_enqueue,
\* rsrc_dequeue, swtch and preempt never leave a task on two queues, nor run
\* one that is queued or dead.
THEOREM SchedulerSafe == Spec => []SchedulerConsistent
  <1>1. IInv => SchedulerConsistent
    BY DEF IInv
  <1> QED
    BY <1>1, Invariance, PTL

\* Exactly the threads that exist run or are on a queue.
THEOREM ThreadsKept == Spec => []NoThreadLost
  <1>1. IInv => NoThreadLost
    BY DEF IInv
  <1> QED
    BY <1>1, Invariance, PTL

\* Nobody sleeps on an identifier that is free (sem_destroy, team_destroy,
\* task_destroy wake all sleepers first).
THEOREM NoOrphans == Spec => []NoOrphanWaiter
  <1>1. IInv => NoOrphanWaiter
    BY DEF IInv
  <1> QED
    BY <1>1, Invariance, PTL

\* The count of a semaphore and its queue never disagree (sem_acquire,
\* sem_release, wake_the_reaper).
THEOREM SemaphoresBalanced == Spec => []SemBalance
  <1>1. IInv => SemBalance
    BY DEF IInv
  <1> QED
    BY <1>1, Invariance, PTL

\* reaper_sem announces exactly the dead on the reaper queue.
THEOREM DeathTollExact == Spec => []ReaperToll
  <1>1. IInv => ReaperToll
    BY DEF IInv
  <1> QED
    BY <1>1, Invariance, PTL

\* Were the timer interrupt's stray pointer not there, no handler would use a
\* pointer that is no task: the reaper always finds a corpse.
THEOREM ReaperFindsCorpse == Spec => [][Reap => k'.stop # "wild"]_vars
  <1>1. IInv /\ [Next]_vars => [Reap => k'.stop # "wild"]_vars
    BY ReapInv
  <1> QED
    BY <1>1, Invariance, PTL DEF Spec

\* All of the above about the tasks: whatever threads call and however the
\* handlers interleave, the scheduler keeps its tasks together.
THEOREM TasksStayKept == Spec => []TasksKept
  <1>1. IInv => TasksKept
    BY DEF IInv, TasksKept
  <1> QED
    BY <1>1, Invariance, PTL

\* And all about the counts of semaphores, the reaper's included.
THEOREM CountsStayTrue == Spec => []CountsMatch
  <1>1. IInv => CountsMatch
    BY DEF IInv, CountsMatch
  <1> QED
    BY <1>1, Invariance, PTL
-----------------------------------------------------------------------------
(* The semaphores of Threads implement SemSpec: every step of the kernel, a *)
(* preemption or the end of a team in the middle of a wait included, is a   *)
(* step of SemSpec or changes nothing SemSpec sees.  Beside IInv the proof  *)
(* needs to know in which call a sleeper sleeps: who waits for a thread     *)
(* must not be taken for one that was handed a unit.                        *)

Calls ==
    \A t \in Thread : /\ k.waiting_on[t] \in Sem => pc[t] = "sem_acquire"
                      /\ k.waiting_on[t] \in Thread => pc[t] = "thr_wait"

SInv == IInv /\ Calls

\* What SemSpec sees.
Units == [s \in Sem |-> IF s \in bound /\ count[s] > 0 THEN count[s] ELSE 0]
Sleeping == [s \in Sem |-> k.queue[s]]
Back(t) == pc[t] = "sem_acquire" /\ k.waiting_on[t] \notin Sem
Given == {t \in Thread : Back(t) /\ k.status[t] = "NONE"}
Told == {t \in Thread : Back(t) /\ k.status[t] = "RESOURCE"}

PromiseStep == Promise!Next \/ UNCHANGED Promise!vars

-----------------------------------------------------------------------------
(* Steps the semaphores do not see.                                         *)

LEMMA Whole ==
    ASSUME IInv
    PROVE  /\ KInv(k) /\ k \in KState /\ Sem \subseteq Object /\ Thread \subseteq Object
           /\ Thread \subseteq Task
  BY Names DEF IInv, TypeOK, SchedulerConsistent, KInv

LEMMA SameSleepers ==
    ASSUME NEW r, NEW s, KInv(r), KInv(s), NEW t \in Task,
           \A x \in Sem : r.queue[x] = s.queue[x]
    PROVE  r.waiting_on[t] \in Sem <=> s.waiting_on[t] \in Sem
  <1>1. \A x \in Sem : r.waiting_on[t] = x <=> s.waiting_on[t] = x
    BY OnQueue, Names
  <1> QED
    BY <1>1

\* What must stay for SemSpec to see nothing.
Unseen ==
    /\ \A x \in Sem : k'.queue[x] = k.queue[x]
    /\ \A t \in Thread : pc[t] = "sem_acquire" => k'.status[t] = k.status[t]
    /\ \A t \in Thread : pc'[t] = "sem_acquire" <=> pc[t] = "sem_acquire"
    /\ bound' \cap Sem = bound \cap Sem
    /\ \A x \in Sem : count'[x] = count[x]
    /\ res' = res

LEMMA UnseenStutters ==
    ASSUME IInv, IInv', Unseen
    PROVE  UNCHANGED Promise!vars
  <1>1. KInv(k) /\ KInv(k') /\ Thread \subseteq Task
    BY Names DEF IInv, TypeOK, SchedulerConsistent, KInv
  <1>2. \A t \in Thread : k'.waiting_on[t] \in Sem <=> k.waiting_on[t] \in Sem
    BY <1>1, SameSleepers DEF Unseen
  <1>3. Units' = Units /\ Sleeping' = Sleeping
    BY DEF Unseen, Units, Sleeping
  <1>4. Given' = Given /\ Told' = Told
    BY <1>2 DEF Unseen, Given, Told, Back
  <1> QED
    BY <1>3, <1>4 DEF Promise!vars, Unseen, Units, Sleeping, Given, Told, Back

\* The calls of those that sleep, after a step that adds nobody but the caller.
LEMMA CallsStay ==
    ASSUME SInv, IInv', me \in Thread \cup {Reaper, Idle},
           \A x \in Sem \cup Thread :
               Elems(k'.queue[x]) \subseteq Elems(k.queue[x]) \cup {me},
           \A t \in Thread \ {me} : pc'[t] = pc[t],
           \A x \in Sem : me \in Elems(k'.queue[x]) => pc'[me] = "sem_acquire",
           \A x \in Thread : me \in Elems(k'.queue[x]) => pc'[me] = "thr_wait"
    PROVE  Calls'
  <1>1. KInv(k) /\ KInv(k') /\ Sem \subseteq Object /\ Thread \subseteq Object
        /\ Thread \subseteq Task
    BY Names DEF SInv, IInv, TypeOK, SchedulerConsistent, KInv
  <1> SUFFICES ASSUME NEW t \in Thread
               PROVE  /\ k'.waiting_on[t] \in Sem => pc'[t] = "sem_acquire"
                      /\ k'.waiting_on[t] \in Thread => pc'[t] = "thr_wait"
    BY DEF Calls
  <1>2. ASSUME NEW x \in Sem \cup Thread, k'.waiting_on[t] = x
        PROVE  \/ k.waiting_on[t] = x /\ t # me
               \/ t = me /\ me \in Elems(k'.queue[x])
    <2>1. t \in Elems(k'.queue[x])
      BY <1>1, <1>2, OnQueue
    <2>2. t \in Elems(k.queue[x]) <=> k.waiting_on[t] = x
      BY <1>1, OnQueue
    <2> QED
      BY <2>1, <2>2
  <1>3. CASE k'.waiting_on[t] \in Sem
    BY <1>2, <1>3, Names DEF SInv, Calls
  <1>4. CASE k'.waiting_on[t] \in Thread
    BY <1>2, <1>4, Names DEF SInv, Calls
  <1> QED
    BY <1>3, <1>4, Names

-----------------------------------------------------------------------------
(* What the handlers do to the sleepers, and to why they wake.              *)

LEMMA HandStatus ==
    ASSUME NEW s \in KState, NEW o \in Object, NEW h \in Task, NEW why \in Status,
           h = Head(s.queue[o])
    PROVE  \A t \in Task : Preempt(RsrcDequeue(s, o), h, why).status[t] =
                               IF t = h THEN why ELSE s.status[t]
  <1> DEFINE d == RsrcDequeue(s, o)
             e == IF d.current # Idle THEN RsrcEnqueue(d, RunQ, d.current) ELSE d
             r == SetStatus(Run(e, h), h, why)
  <1>1. d.status = s.status /\ e.status = s.status
    BY DEF KState, RsrcDequeue, RsrcEnqueue
  <1>2. r.status = [e.status EXCEPT ![h] = why]
    BY DEF SetStatus, Run
  <1>3. Preempt(d, h, why) = r
    BY DEF Preempt
  <1>4. s.status \in [Task -> Status]
    BY DEF KState
  <1> HIDE DEF d, e, r
  <1> QED
    BY <1>1, <1>2, <1>3, <1>4 DEF d

LEMMA JoinElems ==
    ASSUME NEW q \in Seq(Task), NEW t \in Task
    PROVE  Elems(Append(q, t)) = Elems(q) \cup {t}
  <1> DEFINE a == Append(q, t)
  <1>1. /\ Len(a) = Len(q) + 1 /\ Len(q) \in Nat /\ a[Len(q) + 1] = t
        /\ \A i \in 1..Len(q) : a[i] = q[i]
    OBVIOUS
  <1> HIDE DEF a
  <1>2. \A x \in Elems(a) : x \in Elems(q) \cup {t}
    BY <1>1 DEF Elems
  <1>3. \A x \in Elems(q) : x \in Elems(a)
    BY <1>1 DEF Elems
  <1>4. t \in Elems(a)
    BY <1>1 DEF Elems
  <1> QED
    BY <1>2, <1>3, <1>4 DEF a

LEMMA ReadyStatus ==
    ASSUME NEW s \in KState, NEW o, NEW n
    PROVE  Ready(s, o, n).status = s.status
  BY DEF Ready, KState

\* A task on a queue of a semaphore is a thread.
LEMMA SleepersAreThreads ==
    ASSUME IInv, NEW s \in Sem, NEW t \in Elems(k.queue[s])
    PROVE  t \in Thread /\ k.waiting_on[t] = s
  <1>1. KInv(k) /\ s \in Object /\ k.queue[s] \in Seq(Task)
    BY Whole DEF KState
  <1>2. t \in Task
    BY <1>1 DEF Elems
  <1>3. k.waiting_on[t] = s
    BY <1>1, <1>2, OnQueue
  <1>4. t # Reaper /\ t # Idle
    BY <1>1, <1>3, Names DEF IInv, ReaperHome, KInv
  <1> QED
    BY <1>2, <1>3, <1>4 DEF Task

-----------------------------------------------------------------------------
(* The calls on semaphores.                                                 *)

LEMMA CreateKeeps ==
    ASSUME SInv, IInv', NEW s \in Sem, NEW n \in InitCounts, SemCreate(s, n)
    PROVE  Calls' /\ PromiseStep
  <1>1. /\ s \notin bound /\ bound' = bound \cup {s} /\ k' = k /\ pc' = pc /\ res' = res
        /\ count' = [count EXCEPT ![s] = n]
    BY DEF SemCreate
  <1>2. count \in [AllSem -> Int] /\ s \in AllSem /\ Sem \subseteq AllSem /\ n \in Nat
    BY ThreadsAssumption DEF SInv, IInv, TypeOK, AllSem
  <1>3. Calls'
    BY <1>1 DEF SInv, Calls
  <1>4. Units' = [Units EXCEPT ![s] = n]
    <2>1. \A x \in Sem : Units'[x] = IF x = s THEN n ELSE Units[x]
      BY <1>1, <1>2 DEF Units
    <2> QED
      BY <2>1 DEF Units
  <1>5. /\ (bound \cap Sem)' = (bound \cap Sem) \cup {s} /\ s \notin bound \cap Sem
        /\ Sleeping' = Sleeping /\ Given' = Given /\ Told' = Told
    BY <1>1 DEF Sleeping, Given, Told, Back
  <1>6. Promise!Create(s, n)
    BY <1>1, <1>4, <1>5 DEF Promise!Create, Units, Sleeping, Given, Told, Back
  <1> QED
    BY <1>3, <1>6 DEF PromiseStep, Promise!Next

\* sem_destroy, or the end of the team that owns the semaphore.
LEMMA GoneKeeps ==
    ASSUME SInv, IInv', NEW s \in Sem, k.stop = "no", k' = RsrcRelease(k, s),
           bound' = bound \ {s}, UNCHANGED <<count, pc, res>>
    PROVE  Calls' /\ PromiseStep
  <1>1. /\ KInv(k) /\ KInv(k') /\ s \in Object \ {RunQ} /\ k.queue[s] \in Seq(Task)
        /\ Sem \subseteq Object \ {RunQ} /\ Thread \subseteq Object \ {RunQ, s}
        /\ Thread \subseteq Task /\ me \in Task
    BY Names, Ground, Whole, ZenonT(60) DEF SInv, IInv, TypeOK, SchedulerConsistent, KInv, KState
  <1>2. /\ k'.queue[s] = <<>>
        /\ \A p \in Object \ {s, RunQ} : k'.queue[p] = k.queue[p]
        /\ \A t \in Task : k'.status[t] =
              IF t \in Elems(k.queue[s]) THEN "RESOURCE" ELSE k.status[t]
    BY <1>1, WakeEach
  <1>3. Calls'
    <2>1. \A x \in Sem \cup Thread : Elems(k'.queue[x]) \subseteq Elems(k.queue[x])
      BY <1>1, <1>2, EmptyElems
    <2>2. \A x \in Sem \cup Thread : me \notin Elems(k'.queue[x])
      <3>1. k.waiting_on[me] = NULL
        BY Ground DEF SInv
      <3> QED
        BY <1>1, <2>1, <3>1, OnQueue, Names
    <2> QED
      BY <1>1, <2>1, <2>2, CallsStay DEF Task
  <1>4. CASE s \notin bound
    <2>1. k.queue[s] = <<>>
      BY <1>4, Names DEF SInv, IInv, NoOrphanWaiter
    <2>2. \A t \in Task : k'.status[t] = k.status[t]
      BY <1>2, <2>1, EmptyElems
    <2>3. Unseen
      BY <1>1, <1>2, <1>4, <2>1, <2>2 DEF Unseen
    <2> QED
      BY <1>3, <2>3, UnseenStutters DEF SInv, PromiseStep
  <1>5. CASE s \in bound
    <2>1. \A t \in Thread : k'.waiting_on[t] \in Sem <=>
                            k.waiting_on[t] \in Sem /\ t \notin Elems(k.queue[s])
      <3> SUFFICES ASSUME NEW t \in Thread
                   PROVE  k'.waiting_on[t] \in Sem <=>
                            k.waiting_on[t] \in Sem /\ t \notin Elems(k.queue[s])
        OBVIOUS
      <3>1. \A x \in Sem \ {s} : k'.waiting_on[t] = x <=> k.waiting_on[t] = x
        BY <1>1, <1>2, OnQueue
      <3>2. k'.waiting_on[t] # s
        BY <1>1, <1>2, OnQueue, EmptyElems
      <3>3. t \in Elems(k.queue[s]) <=> k.waiting_on[t] = s
        BY <1>1, OnQueue
      <3> QED
        BY <3>1, <3>2, <3>3
    <2>2. \A t \in Elems(k.queue[s]) : /\ t \in Thread /\ pc[t] = "sem_acquire"
                                       /\ k.waiting_on[t] \in Sem
      BY SleepersAreThreads DEF SInv, Calls
    <2>3. Told' = Told \cup Elems(k.queue[s])
      <3>1. ASSUME NEW t \in Thread
            PROVE  t \in Told' <=> t \in Told \/ t \in Elems(k.queue[s])
        BY <1>1, <1>2, <2>1, <2>2 DEF Told, Back
      <3> QED
        BY <2>2, <3>1 DEF Told
    <2>4. Given' = Given
      <3>1. ASSUME NEW t \in Thread
            PROVE  t \in Given' <=> t \in Given
        BY <1>1, <1>2, <2>1, <2>2 DEF Given, Back
      <3> QED
        BY <3>1 DEF Given
    <2>5. Units' = [Units EXCEPT ![s] = 0]
      BY DEF Units
    <2>6. Sleeping' = [Sleeping EXCEPT ![s] = <<>>]
      BY <1>1, <1>2 DEF Sleeping
    <2>7. Elems(k.queue[s]) = {Sleeping[s][i] : i \in DOMAIN Sleeping[s]}
      BY <1>1 DEF Elems, Sleeping
    <2>8. (bound \cap Sem)' = (bound \cap Sem) \ {s} /\ s \in bound \cap Sem /\ res' = res
      BY <1>5
    <2>9. Promise!Destroy(s)
      BY <2>3, <2>4, <2>5, <2>6, <2>7, <2>8
         DEF Promise!Destroy, Units, Sleeping, Given, Told, Back
    <2> QED
      BY <1>3, <2>9 DEF PromiseStep, Promise!Next
  <1> QED
    BY <1>4, <1>5

LEMMA AcquireKeeps ==
    ASSUME SInv, IInv', NEW s \in Sem, SemAcquire(s)
    PROVE  Calls' /\ PromiseStep
  <1>1. /\ InUser /\ k.stop = "no" /\ pc[me] = "user" /\ me \in Thread /\ bound' = bound
        /\ me = k.current
    BY DEF SemAcquire, InUser, Interruptible, me
  <1>2. /\ KInv(k) /\ KInv(k') /\ CurrentRuns(k) /\ k \in KState /\ k.waiting_on[me] = NULL
        /\ k.current # Idle /\ s \in Object \ {RunQ, ReaperQ} /\ k.queue[s] \in Seq(Task)
        /\ Sem \subseteq Object \ {RunQ} /\ Thread \subseteq Object \ {RunQ, s}
        /\ Thread \subseteq Task
    <2>1. KInv(k) /\ KInv(k')
      BY DEF SInv, IInv, TypeOK, SchedulerConsistent, KInv
    <2>2. /\ CurrentRuns(k) /\ k \in KState /\ k.waiting_on[me] = NULL
          /\ k.current # Idle
      BY <1>1, Ground DEF SInv, me
    <2>3. /\ s \in Object \ {RunQ, ReaperQ} /\ Sem \subseteq Object \ {RunQ}
          /\ Thread \subseteq Object \ {RunQ, s} /\ Thread \subseteq Task
      BY Names
    <2> QED
      BY <2>1, <2>2, <2>3 DEF KState
  <1>3. /\ count \in [AllSem -> Int] /\ s \in AllSem /\ Sem \subseteq AllSem
        /\ pc \in [Task -> PC] /\ res \in [Thread -> Status]
    BY DEF SInv, IInv, TypeOK, AllSem
  <1>4. CASE s \notin bound /\ Return("RESOURCE") /\ UNCHANGED <<k, count, pc>>
    <2>1. Calls'
      BY <1>4 DEF SInv, Calls
    <2>2. Promise!Miss(me, s)
      BY <1>1, <1>4 DEF Promise!Miss, Return
    <2> QED
      BY <1>1, <2>1, <2>2 DEF PromiseStep, Promise!Next
  <1>5. CASE /\ s \in bound /\ count[s] > 0
             /\ count' = [count EXCEPT ![s] = @ - 1]
             /\ Return("NONE")
             /\ UNCHANGED <<k, pc>>
    <2>1. Calls'
      BY <1>5 DEF SInv, Calls
    <2>2. Units' = [Units EXCEPT ![s] = @ - 1]
      <3>1. \A x \in Sem : Units'[x] = IF x = s THEN Units[s] - 1 ELSE Units[x]
        BY <1>1, <1>3, <1>5 DEF Units
      <3> QED
        BY <3>1 DEF Units
    <2>3. /\ s \in bound \cap Sem /\ Units[s] > 0 /\ Sleeping' = Sleeping
          /\ Given' = Given /\ Told' = Told /\ (bound \cap Sem)' = bound \cap Sem
      BY <1>1, <1>5 DEF Units, Sleeping, Given, Told, Back
    <2>4. Promise!Take(me, s)
      BY <1>5, <2>2, <2>3
         DEF Promise!Take, Return, Units, Sleeping, Given, Told, Back
    <2> QED
      BY <1>1, <2>1, <2>4 DEF PromiseStep, Promise!Next
  <1>6. CASE /\ s \in bound /\ count[s] <= 0
             /\ count' = [count EXCEPT ![s] = @ - 1]
             /\ k' = WaitOn(k, s)
             /\ Goto("sem_acquire")
             /\ UNCHANGED res
    <2>1. /\ k'.queue[s] = Append(k.queue[s], me)
          /\ \A p \in Object \ {s, RunQ} : k'.queue[p] = k.queue[p]
      BY <1>1, <1>2, <1>6, WaitOnInv
    <2>2. \A t \in Task : k'.status[t] = IF t = me THEN "NONE" ELSE k.status[t]
      BY <1>1, <1>2, <1>6, WaitStatus
    <2>3. Elems(k'.queue[s]) = Elems(k.queue[s]) \cup {me} /\ me \in Elems(k'.queue[s])
      BY <1>1, <1>2, <2>1, JoinElems
    <2>4. /\ \A t \in Thread \ {me} : pc'[t] = pc[t]
          /\ pc'[me] = "sem_acquire"
      BY <1>1, <1>2, <1>3, <1>6 DEF Goto
    <2>5. Calls'
      <3>1. \A x \in Sem \cup Thread :
                Elems(k'.queue[x]) \subseteq Elems(k.queue[x]) \cup {me}
        BY <1>2, <2>1, <2>3
      <3>2. \A x \in Thread : me \notin Elems(k'.queue[x])
        BY <1>1, <1>2, <2>1, OnQueue, Names
      <3> QED
        BY <1>1, <2>4, <3>1, <3>2, CallsStay
    <2>6. \A t \in Thread : k'.waiting_on[t] \in Sem <=> k.waiting_on[t] \in Sem \/ t = me
      <3> SUFFICES ASSUME NEW t \in Thread
                   PROVE  k'.waiting_on[t] \in Sem <=> k.waiting_on[t] \in Sem \/ t = me
        OBVIOUS
      <3>1. \A x \in Sem \ {s} : k'.waiting_on[t] = x <=> k.waiting_on[t] = x
        BY <1>2, <2>1, OnQueue
      <3>2. k'.waiting_on[t] = s <=> k.waiting_on[t] = s \/ t = me
        BY <1>2, <2>3, OnQueue
      <3> QED
        BY <3>1, <3>2
    <2>7. Given' = Given /\ Told' = Told
      BY <1>1, <1>2, <2>2, <2>4, <2>6 DEF Given, Told, Back
    <2>8. Units' = Units /\ Units[s] = 0
      BY <1>1, <1>3, <1>6 DEF Units
    <2>9. Sleeping' = [Sleeping EXCEPT ![s] = Append(@, me)]
      BY <1>2, <2>1 DEF Sleeping
    <2>10. /\ s \in bound \cap Sem /\ (bound \cap Sem)' = bound \cap Sem /\ res' = res
      BY <1>1, <1>6
    <2>11. Promise!Wait(me, s)
      BY <2>7, <2>8, <2>9, <2>10 DEF Promise!Wait, Units, Sleeping, Given, Told, Back
    <2> QED
      BY <1>1, <2>5, <2>11 DEF PromiseStep, Promise!Next
  <1> QED
    BY <1>4, <1>5, <1>6 DEF SemAcquire

LEMMA ResumeKeeps ==
    ASSUME SInv, IInv', SemAcquireResume
    PROVE  Calls' /\ PromiseStep
  <1>1. /\ k.stop = "no" /\ pc[me] = "sem_acquire" /\ Return(k.status[me]) /\ k' = k
        /\ pc' = [pc EXCEPT ![me] = "user"] /\ UNCHANGED <<bound, count>>
    BY DEF SemAcquireResume, Resumes, Goto
  <1>2. me \in Task /\ k.waiting_on[me] = NULL /\ k \in KState
    BY <1>1, Ground DEF SInv
  <1>3. me \in Thread
    BY <1>1, <1>2 DEF SInv, IInv, ReaperHome, Task
  <1>4. /\ pc \in [Task -> PC] /\ \A t \in Thread \ {me} : pc'[t] = pc[t]
        /\ pc'[me] = "user"
    BY <1>1, <1>2, Names DEF SInv, IInv, TypeOK
  <1>5. Calls'
    BY <1>1, <1>2, <1>4, Names DEF SInv, Calls
  <1>6. k.status[me] \in {"NONE", "RESOURCE"}
    BY <1>2, <1>3, Names DEF KState, Status
  <1>7. me \in Given \/ me \in Told
    BY <1>1, <1>2, <1>3, <1>6, Names DEF Given, Told, Back
  <1>8. Given' = Given \ {me} /\ Told' = Told \ {me}
    BY <1>1, <1>4 DEF Given, Told, Back
  <1>9. Units' = Units /\ Sleeping' = Sleeping /\ (bound \cap Sem)' = bound \cap Sem
    BY <1>1 DEF Units, Sleeping
  <1>10. \/ me \in Given /\ res' = [res EXCEPT ![me] = "NONE"]
         \/ me \in Told /\ res' = [res EXCEPT ![me] = "RESOURCE"]
    BY <1>1, <1>7 DEF Return, Given, Told
  <1>11. PICK t \in Thread : t = me
    BY <1>3
  <1>12. Promise!Answer(t)
    BY <1>8, <1>9, <1>10, <1>11
       DEF Promise!Answer, Units, Sleeping, Given, Told, Back
  <1> QED
    BY <1>5, <1>12 DEF PromiseStep, Promise!Next

LEMMA ReleaseKeeps ==
    ASSUME SInv, IInv', NEW s \in Sem, SemRelease(s)
    PROVE  Calls' /\ PromiseStep
  <1>1. /\ InUser /\ k.stop = "no" /\ bound' = bound /\ s \in bound
        /\ count' = [count EXCEPT ![s] = @ + 1] /\ pc' = pc /\ res' = res
    BY DEF SemRelease, InUser, Interruptible
  <1>2. KInv(k) /\ KInv(k') /\ CurrentRuns(k) /\ k \in KState /\ k.waiting_on[me] = NULL
    <2>1. KInv(k) /\ KInv(k')
      BY DEF SInv, IInv, TypeOK, SchedulerConsistent, KInv
    <2> QED
      BY <1>1, <2>1, Ground DEF SInv
  <1>3. /\ s \in Object \ {RunQ} /\ Sem \subseteq Object \ {RunQ}
        /\ Thread \subseteq Object \ {RunQ, s} /\ Thread \subseteq Task
        /\ k.queue[s] \in Seq(Task)
    BY <1>2, Names DEF KState
  <1>4. /\ count \in [AllSem -> Int] /\ s \in AllSem /\ Sem \subseteq AllSem
        /\ Len(k.queue[s]) = (IF count[s] < 0 THEN -count[s] ELSE 0)
    BY <1>1 DEF SInv, IInv, TypeOK, AllSem, SemBalance
  <1>5. s \in bound \cap Sem /\ (bound \cap Sem)' = bound \cap Sem
    BY <1>1
  <1>6. CASE k.queue[s] = <<>>
    <2>1. k' = k
      BY <1>6 DEF SemRelease
    <2>2. Calls'
      BY <1>1, <2>1 DEF SInv, Calls
    <2>3. Units' = [Units EXCEPT ![s] = @ + 1]
      <3>1. Len(k.queue[s]) = 0
        BY <1>6
      <3>2. count[s] >= 0 /\ count[s] \in Int
        BY <1>4, <3>1
      <3>3. \A x \in Sem : Units'[x] = IF x = s THEN Units[s] + 1 ELSE Units[x]
        BY <1>1, <1>4, <3>2 DEF Units
      <3> QED
        BY <3>3 DEF Units
    <2>4. Sleeping' = Sleeping /\ Sleeping[s] = <<>> /\ Given' = Given /\ Told' = Told
      BY <1>1, <1>6, <2>1 DEF Sleeping, Given, Told, Back
    <2>5. Promise!Release(s)
      BY <1>1, <1>5, <2>3, <2>4
         DEF Promise!Release, Units, Sleeping, Given, Told, Back
    <2> QED
      BY <2>2, <2>5 DEF PromiseStep, Promise!Next
  <1>7. CASE k.queue[s] # <<>>
    <2> DEFINE h == Head(k.queue[s])
    <2>1. /\ k' = Preempt(RsrcDequeue(k, s), h, "NONE") /\ "NONE" \in Status
          /\ h = Head(k.queue[s])
      BY <1>7 DEF SemRelease, Status
    <2>2. /\ Len(k.queue[s]) \in Nat \ {0} /\ h = k.queue[s][1] /\ h \in Elems(k.queue[s])
          /\ Elems(Tail(k.queue[s])) \subseteq Elems(k.queue[s])
      BY <1>3, <1>7, HeadOff
    <2> HIDE DEF h
    <2>3. h \in Thread /\ h \in Task /\ pc[h] = "sem_acquire" /\ k.waiting_on[h] = s
      BY <2>2, SleepersAreThreads, Names DEF SInv, Calls
    <2>4. /\ k'.queue[s] = Tail(k.queue[s])
          /\ \A p \in Object \ {s, RunQ} : k'.queue[p] = k.queue[p]
      BY <1>2, <1>3, <1>7, <2>1, HandOverInv
    <2>5. \A t \in Task : k'.status[t] = IF t = h THEN "NONE" ELSE k.status[t]
      BY <1>2, <1>3, <2>1, <2>3, HandStatus
    <2>6. \A t \in Elems(k.queue[s]) : t # h => t \in Elems(k'.queue[s])
      <3> SUFFICES ASSUME NEW t \in Elems(k.queue[s]), t # h
                   PROVE  t \in Elems(k'.queue[s])
        OBVIOUS
      <3>1. PICK i \in 1..Len(k.queue[s]) : t = k.queue[s][i]
        BY DEF Elems
      <3>2. i - 1 \in 1..Len(k'.queue[s]) /\ k'.queue[s][i - 1] = t
        BY <1>3, <1>7, <2>2, <2>4, <3>1
      <3> QED
        BY <3>2 DEF Elems
    <2>7. h \notin Elems(k'.queue[s])
      <3> SUFFICES ASSUME NEW i \in 1..Len(k'.queue[s]), k'.queue[s][i] = h
                   PROVE  FALSE
        BY DEF Elems
      <3>1. i + 1 \in 1..Len(k.queue[s]) /\ k.queue[s][i + 1] = h /\ i + 1 # 1
        BY <1>3, <1>7, <2>2, <2>4
      <3>2. 1 \in 1..Len(k.queue[s])
        BY <2>2
      <3> QED
        BY <1>2, <1>3, <2>2, <3>1, <3>2 DEF KInv, QueuesConsistent
    <2>8. Calls'
      <3>1. \A x \in Sem \cup Thread : Elems(k'.queue[x]) \subseteq Elems(k.queue[x])
        BY <1>3, <2>2, <2>4
      <3>2. \A x \in Sem \cup Thread : me \notin Elems(k.queue[x])
        BY <1>1, <1>2, <1>3, OnQueue, Names DEF InUser
      <3> QED
        BY <1>1, <3>1, <3>2, CallsStay DEF InUser
    <2>9. \A t \in Thread : k'.waiting_on[t] \in Sem <=> k.waiting_on[t] \in Sem /\ t # h
      <3> SUFFICES ASSUME NEW t \in Thread
                   PROVE  k'.waiting_on[t] \in Sem <=> k.waiting_on[t] \in Sem /\ t # h
        OBVIOUS
      <3>1. \A x \in Sem \ {s} : k'.waiting_on[t] = x <=> k.waiting_on[t] = x
        BY <1>2, <1>3, <2>4, OnQueue
      <3>2. t \in Elems(k'.queue[s]) <=> t \in Elems(k.queue[s]) /\ t # h
        BY <2>2, <2>4, <2>6, <2>7
      <3>3. k'.waiting_on[t] = s <=> k.waiting_on[t] = s /\ t # h
        BY <1>2, <1>3, <3>2, OnQueue
      <3> QED
        BY <2>3, <3>1, <3>3
    <2>10. Given' = Given \cup {h}
      <3>1. ASSUME NEW t \in Thread
            PROVE  t \in Given' <=> t \in Given \/ t = h
        BY <1>1, <1>3, <2>3, <2>5, <2>9 DEF Given, Back
      <3> QED
        BY <2>3, <3>1 DEF Given
    <2>11. Told' = Told
      <3>1. ASSUME NEW t \in Thread
            PROVE  t \in Told' <=> t \in Told
        BY <1>1, <1>3, <2>3, <2>5, <2>9 DEF Told, Back
      <3> QED
        BY <3>1 DEF Told
    <2>12. Units' = Units
      <3>1. count[s] < 0 /\ count[s] \in Int
        BY <1>4, <2>2
      <3> QED
        BY <1>1, <1>4, <3>1 DEF Units
    <2>13. /\ Sleeping' = [Sleeping EXCEPT ![s] = Tail(@)] /\ Sleeping[s] # <<>>
           /\ h = Head(Sleeping[s])
      BY <1>3, <1>7, <2>4 DEF Sleeping, h
    <2>14. Promise!Release(s)
      BY <1>1, <1>5, <2>10, <2>11, <2>12, <2>13
         DEF Promise!Release, Units, Sleeping, Given, Told, Back
    <2> QED
      BY <2>8, <2>14 DEF PromiseStep, Promise!Next
  <1> QED
    BY <1>6, <1>7

-----------------------------------------------------------------------------
(* Everything else goes on unseen.                                          *)

\* Handlers that leave the sleepers of semaphores and threads where they are.
LEMMA AsideKeeps ==
    ASSUME SInv, IInv', me \in Task,
           \A x \in Sem : k'.queue[x] = k.queue[x],
           \A x \in Thread : Elems(k'.queue[x]) \subseteq Elems(k.queue[x]),
           \A t \in Thread : pc[t] = "sem_acquire" => k'.status[t] = k.status[t],
           k.waiting_on[me] = NULL, \A t \in Thread : pc'[t] = pc[t],
           bound' \cap Sem = bound \cap Sem, \A x \in Sem : count'[x] = count[x],
           res' = res
    PROVE  Calls' /\ PromiseStep
  <1>1. KInv(k) /\ Sem \subseteq Object /\ Thread \subseteq Object
    BY Whole DEF SInv
  <1>2. \A x \in Sem \cup Thread : Elems(k'.queue[x]) \subseteq Elems(k.queue[x])
    OBVIOUS
  <1>3. \A x \in Sem \cup Thread : me \notin Elems(k.queue[x])
    BY <1>1, OnQueue, Names
  <1>4. Calls'
    BY <1>2, <1>3, CallsStay DEF Task
  <1>5. Unseen
    BY DEF Unseen
  <1> QED
    BY <1>4, <1>5, UnseenStutters DEF SInv, PromiseStep

\* A birth, sleep, or the processor given away: nobody is told why.
LEMMA SwitchKeeps ==
    ASSUME SInv, IInv', k.stop = "no", NEW e, KInv(e), e.status = k.status,
           \A x \in Sem \cup Thread : e.queue[x] = k.queue[x],
           \/ k' = e
           \/ k' = [e EXCEPT !.stop = "wild"]
           \/ Leaving(e) /\ k' = Swtch(e),
           \A t \in Thread : pc'[t] = pc[t], bound' \cap Sem = bound \cap Sem,
           \A x \in Sem : count'[x] = count[x], res' = res
    PROVE  Calls' /\ PromiseStep
  <1>1. me \in Task /\ k.waiting_on[me] = NULL
    BY Ground DEF SInv
  <1>2. /\ \A x \in Sem \cup Thread : k'.queue[x] = e.queue[x]
        /\ k'.status = e.status
    <2>1. CASE k' = e
      BY <2>1
    <2>2. CASE k' = [e EXCEPT !.stop = "wild"]
      BY <2>2 DEF KInv, KState
    <2>3. CASE Leaving(e) /\ k' = Swtch(e)
      <3>1. Keeps(e, k')
        BY <2>3, SwtchInv
      <3>2. k'.status = e.status
        BY <2>3, SwtchStatus DEF KInv
      <3> QED
        BY <3>1, <3>2, Names DEF Keeps
    <2> QED
      BY <2>1, <2>2, <2>3
  <1> QED
    BY <1>1, <1>2, AsideKeeps

LEMMA BirthKeeps ==
    ASSUME SInv, IInv', NEW t \in Thread, NEW m, InUser, StartThread(t, m),
           bound' \cap Sem = bound \cap Sem
    PROVE  Calls' /\ PromiseStep
  <1>1. /\ k.stop = "no" /\ k' = [RsrcEnqueue(k, RunQ, t) EXCEPT !.live_tasks = @ + 1]
        /\ UNCHANGED <<count, pc, res>>
    BY DEF StartThread, InUser, Interruptible
  <1>2. KInv(k) /\ k \in KState /\ KInv(k')
    BY Whole DEF SInv, IInv, TypeOK, SchedulerConsistent, KInv
  <1>3. k'.status = k.status /\ \A x \in Sem \cup Thread : k'.queue[x] = k.queue[x]
    BY <1>1, <1>2, Names DEF RsrcEnqueue, KState
  <1> DEFINE e == k'
  <1> QED
    BY <1>1, <1>2, <1>3, SwitchKeeps

LEMMA SleepKeeps ==
    ASSUME SInv, IInv', NEW us \in Naps, Sleep(us)
    PROVE  Calls' /\ PromiseStep
  <1>1. InUser /\ k.stop = "no" /\ UNCHANGED <<bound, count, pc, res>>
    BY DEF Sleep, InUser, Interruptible
  <1>2. /\ KInv(k) /\ CurrentRuns(k) /\ k \in KState /\ me = k.current
        /\ me \in Task /\ me # Idle /\ k.waiting_on[me] = NULL
    BY <1>1, Ground DEF me, SInv
  <1>3. CASE Ticks(us) = 0
    <2>1. k' = Swtch(k)
      BY <1>3 DEF Sleep
    <2> QED
      BY <1>1, <1>2, <2>1, SwitchKeeps DEF Leaving, CurrentRuns
  <1>4. CASE Ticks(us) # 0
    <2> DEFINE when == (timer + Ticks(us)) % TimerMod
               e == RsrcEnqueueOrdered(k, TimerQ, me, when)
    <2>1. k' = Swtch(e)
      BY <1>4 DEF Sleep
    <2>2. when \in Nat
      <3>1. timer \in Int /\ TimerMod \in Nat \ {0} /\ us \in Nat
        BY ThreadsAssumption DEF SInv, IInv, TypeOK
      <3>2. Ticks(us) \in Int
        BY <3>1 DEF Ticks
      <3> QED
        BY <3>1, <3>2
    <2> HIDE DEF when
    <2>3. e.status = k.status
      BY <1>2 DEF KState, RsrcEnqueueOrdered, RsrcEnqueue
    <2>4. /\ KInv(e)
          /\ \A p \in Object \ {TimerQ} : e.queue[p] = k.queue[p]
          /\ e.waiting_on[me] = TimerQ
          /\ e.current = k.current
      BY <1>2, <2>2, EnqueueOrderedInv, Names
    <2> HIDE DEF e
    <2>5. Leaving(e) /\ \A x \in Sem \cup Thread : e.queue[x] = k.queue[x]
      BY <1>2, <2>4, Names DEF Leaving
    <2> QED
      BY <1>1, <2>1, <2>3, <2>4, <2>5, SwitchKeeps
  <1> QED
    BY <1>3, <1>4

LEMMA TickKeeps ==
    ASSUME SInv, IInv', NEW stray, NEW n \in 0..Len(k.queue[TimerQ]), TimerIrq(n, stray)
    PROVE  Calls' /\ PromiseStep
  <1>1. k.stop = "no" /\ UNCHANGED <<bound, count, pc, res>>
    BY DEF TimerIrq, Interruptible
  <1>2. KInv(k) /\ CurrentRuns(k) /\ k \in KState /\ TimerQ \in Object \ {RunQ}
    BY <1>1, Ground, Names DEF SInv
  <1> DEFINE e == Ready(k, TimerQ, n)
  <1>3. KInv(e) /\ CurrentRuns(e)
    BY <1>2, ReadyKeeps
  <1>4. \A p \in Object \ {TimerQ, RunQ} : e.queue[p] = k.queue[p]
    BY <1>2, ReadyQueues
  <1>5. e.status = k.status
    BY <1>2, ReadyStatus
  <1>6. k' = [e EXCEPT !.stop = "wild"] \/ k' = Swtch(e)
    BY DEF TimerIrq
  <1> HIDE DEF e
  <1>7. Leaving(e) /\ \A x \in Sem \cup Thread : e.queue[x] = k.queue[x]
    BY <1>3, <1>4, Names DEF Leaving, CurrentRuns
  <1> QED
    BY <1>1, <1>3, <1>5, <1>6, <1>7, SwitchKeeps

LEMMA ThrWaitKeeps ==
    ASSUME SInv, IInv', NEW u \in Thread, ThrWait(u)
    PROVE  Calls' /\ PromiseStep
  <1>1. /\ InUser /\ k.stop = "no" /\ k' = WaitOn(k, u) /\ Goto("thr_wait")
        /\ pc[me] = "user" /\ me \in Thread /\ UNCHANGED <<bound, count, res>>
        /\ me = k.current
    BY DEF ThrWait, InUser, Interruptible, me
  <1>2. /\ KInv(k) /\ KInv(k') /\ CurrentRuns(k) /\ k \in KState
        /\ k.waiting_on[me] = NULL /\ k.current # Idle
    <2>1. KInv(k) /\ KInv(k')
      BY DEF SInv, IInv, TypeOK, SchedulerConsistent, KInv
    <2> QED
      BY <1>1, <2>1, Ground DEF SInv, me
  <1>3. /\ u \in Object \ {RunQ, ReaperQ} /\ Sem \subseteq Object \ {RunQ, u}
        /\ Thread \subseteq Object \ {RunQ} /\ Thread \subseteq Task
        /\ k.queue[u] \in Seq(Task)
    BY <1>2, Names DEF KState
  <1>4. /\ k'.queue[u] = Append(k.queue[u], me)
        /\ \A p \in Object \ {u, RunQ} : k'.queue[p] = k.queue[p]
    BY <1>1, <1>2, <1>3, WaitOnInv
  <1>5. \A t \in Task : k'.status[t] = IF t = me THEN "NONE" ELSE k.status[t]
    BY <1>1, <1>2, <1>3, WaitStatus
  <1>6. /\ \A t \in Thread \ {me} : pc'[t] = pc[t]
        /\ pc'[me] = "thr_wait"
    BY <1>1, <1>3 DEF Goto, SInv, IInv, TypeOK
  <1>7. Elems(k'.queue[u]) \subseteq Elems(k.queue[u]) \cup {me}
    BY <1>1, <1>3, <1>4, JoinElems
  <1>8. Calls'
    <2>1. \A x \in Sem \cup Thread :
              Elems(k'.queue[x]) \subseteq Elems(k.queue[x]) \cup {me}
      BY <1>3, <1>4, <1>7
    <2>2. \A x \in Sem : me \notin Elems(k'.queue[x])
      BY <1>1, <1>2, <1>3, <1>4, OnQueue, Names
    <2> QED
      BY <1>1, <1>6, <2>1, <2>2, CallsStay
  <1>9. Unseen
    BY <1>1, <1>3, <1>4, <1>5, <1>6 DEF Unseen
  <1> QED
    BY <1>8, <1>9, UnseenStutters DEF SInv, PromiseStep

LEMMA ThrWaitResumeKeeps ==
    ASSUME SInv, IInv', ThrWaitResume
    PROVE  Calls' /\ PromiseStep
  <1>1. /\ k.stop = "no" /\ pc[me] = "thr_wait" /\ k' = k
        /\ pc' = [pc EXCEPT ![me] = "user"] /\ UNCHANGED <<bound, count, res>>
    BY DEF ThrWaitResume, Resumes, Goto
  <1>2. me \in Task /\ k.waiting_on[me] = NULL
    BY <1>1, Ground DEF SInv
  <1>3. /\ pc \in [Task -> PC] /\ \A t \in Thread \ {me} : pc'[t] = pc[t]
        /\ pc'[me] = "user" /\ me \in Thread
    BY <1>1, <1>2, Names DEF SInv, IInv, TypeOK, ReaperHome, Task
  <1>4. Calls'
    BY <1>1, <1>2, <1>3, Names DEF SInv, Calls
  <1>5. Unseen
    BY <1>1, <1>3 DEF Unseen
  <1> QED
    BY <1>4, <1>5, UnseenStutters DEF SInv, PromiseStep

\* terminate: those told are sleepers of the thread, and the reaper.
LEMMA TerminateKeeps ==
    ASSUME SInv, IInv', Terminate
    PROVE  Calls' /\ PromiseStep
  <1>1. /\ InUser /\ k.stop = "no" /\ UNCHANGED <<bound, pc, res>>
        /\ k' = Swtch(WakeOne(WakeAll(Bury(k), me, "RESOURCE"), ReaperSem, "NONE"))
        /\ count' = [count EXCEPT ![ReaperSem] = @ + 1]
    BY DEF Terminate, InUser, Interruptible
  <1>2. /\ KInv(k) /\ CurrentRuns(k) /\ k \in KState /\ me = k.current /\ me \in Thread
        /\ me \in Task /\ k.current # Idle /\ k.waiting_on[me] = NULL
    BY <1>1, Ground DEF me, SInv
  <1>3. /\ me \in Object \ {RunQ, ReaperQ, TimerQ, ReaperSem}
        /\ ReaperSem \in Object \ {RunQ, ReaperQ} /\ "NONE" \in Status
        /\ Sem \subseteq Object \ {RunQ, ReaperQ, ReaperSem, me}
        /\ Thread \subseteq Object \ {RunQ, ReaperQ, ReaperSem}
    BY <1>2, Names DEF Status
  <1> DEFINE b == Bury(k)
             a == RsrcRelease(b, me)
             w == WakeOne(a, ReaperSem, "NONE")
  <1>4. /\ KInv(b) /\ Leaving(b) /\ b.status = k.status
        /\ \A p \in Object \ {ReaperQ} : b.queue[p] = k.queue[p]
    <2>1. b.status = k.status
      BY <1>2 DEF Bury, RsrcEnqueue, KState
    <2> QED
      BY <1>2, <2>1, BuryInv
  <1> HIDE DEF b
  <1>5. /\ KInv(a) /\ Leaving(a) /\ a.queue[me] = <<>>
        /\ \A p \in Object \ {me, RunQ} : a.queue[p] = b.queue[p]
        /\ \A t \in Task : a.status[t] =
              IF t \in Elems(b.queue[me]) THEN "RESOURCE" ELSE b.status[t]
    BY <1>3, <1>4, WakeEach
  <1> HIDE DEF a
  <1>6. /\ KInv(w) /\ Leaving(w)
        /\ \A p \in Object \ {ReaperSem, RunQ} : w.queue[p] = a.queue[p]
        /\ \A t \in Task : w.status[t] =
              IF a.queue[ReaperSem] # <<>> /\ t = Head(a.queue[ReaperSem]) THEN "NONE"
              ELSE a.status[t]
    BY <1>3, <1>5, WakeFirst
  <1> HIDE DEF w
  <1>7. k' = Swtch(w)
    BY <1>1 DEF w, a, b, RsrcRelease
  <1>8. Keeps(w, k') /\ k'.status = w.status
    BY <1>6, <1>7, SwtchInv, SwtchStatus DEF KInv
  <1>9. /\ \A x \in Sem : k'.queue[x] = k.queue[x]
        /\ \A x \in Thread : Elems(k'.queue[x]) \subseteq Elems(k.queue[x])
    <2>1. \A x \in (Sem \cup Thread) \ {me} : k'.queue[x] = k.queue[x]
      BY <1>3, <1>4, <1>5, <1>6, <1>8 DEF Keeps
    <2>2. k'.queue[me] = <<>>
      BY <1>3, <1>5, <1>6, <1>8 DEF Keeps
    <2> QED
      BY <1>3, <2>1, <2>2, EmptyElems
  <1>10. ASSUME NEW t \in Thread, pc[t] = "sem_acquire"
         PROVE  k'.status[t] = k.status[t]
    <2>1. t \in Task /\ t # Reaper
      BY Names
    <2>2. t \notin Elems(b.queue[me])
      BY <1>2, <1>3, <1>4, <1>10, <2>1, OnQueue DEF SInv, Calls
    <2>3. ~(a.queue[ReaperSem] # <<>> /\ t = Head(a.queue[ReaperSem]))
      <3>1. a.queue[ReaperSem] = k.queue[ReaperSem]
        BY <1>3, <1>4, <1>5
      <3>2. k.waiting_on[t] # ReaperSem
        BY <2>1 DEF SInv, IInv, ReaperHome
      <3> QED
        BY <1>2, <1>3, <3>1, <3>2, HeadWaits
    <2> QED
      BY <1>4, <1>5, <1>6, <1>8, <2>1, <2>2, <2>3
  <1>11. \A x \in Sem : count'[x] = count[x]
    BY <1>1, Names DEF SInv, IInv, TypeOK, AllSem
  <1> QED
    BY <1>1, <1>2, <1>9, <1>10, <1>11, AsideKeeps

LEMMA ReaperAcquireKeeps ==
    ASSUME SInv, IInv', ReaperAcquire
    PROVE  Calls' /\ PromiseStep
  <1>1. /\ k.stop = "no" /\ pc[me] = "reaper" /\ UNCHANGED <<bound, res>>
        /\ k' = (IF count[ReaperSem] > 0 THEN k ELSE WaitOn(k, ReaperSem))
        /\ count' = [count EXCEPT ![ReaperSem] = @ - 1] /\ pc' = [pc EXCEPT ![me] = "reap"]
    BY DEF ReaperAcquire, Resumes, Goto
  <1>2. /\ KInv(k) /\ CurrentRuns(k) /\ k \in KState /\ me = k.current /\ me = Reaper
        /\ me \in Task /\ k.current # Idle /\ k.waiting_on[me] = NULL
    BY <1>1, Ground, Names DEF me, SInv, IInv, ReaperHome
  <1>3. /\ ReaperSem \in Object \ {RunQ, ReaperQ}
        /\ Sem \cup Thread \subseteq Object \ {RunQ, ReaperSem}
        /\ Reaper \notin Thread /\ Thread \subseteq Task
    BY Names
  <1>4. /\ \A x \in Sem \cup Thread : k'.queue[x] = k.queue[x]
        /\ \A t \in Thread : k'.status[t] = k.status[t]
    <2>1. CASE k' = k
      BY <2>1
    <2>2. CASE k' = WaitOn(k, ReaperSem)
      <3>1. \A p \in Object \ {ReaperSem, RunQ} : k'.queue[p] = k.queue[p]
        BY <1>2, <1>3, <2>2, WaitOnInv
      <3>2. \A t \in Task : k'.status[t] = IF t = k.current THEN "NONE" ELSE k.status[t]
        BY <1>2, <1>3, <2>2, WaitStatus
      <3> QED
        BY <1>2, <1>3, <3>1, <3>2
    <2> QED
      BY <1>1, <2>1, <2>2
  <1>5. /\ \A x \in Sem : count'[x] = count[x]
        /\ \A t \in Thread : pc'[t] = pc[t]
    BY <1>1, <1>2, <1>3, Names DEF SInv, IInv, TypeOK, AllSem
  <1> QED
    BY <1>1, <1>2, <1>4, <1>5, AsideKeeps

\* task_destroy of the first of the dead tells those that wait for it.
LEMMA ReapKeeps ==
    ASSUME SInv, IInv', Reap
    PROVE  Calls' /\ PromiseStep
  <1>1. /\ k.stop = "no" /\ pc[me] = "reap" /\ k'.stop # "wild" /\ UNCHANGED <<count, res>>
    BY ReapInv DEF Reap, Resumes, SInv
  <1>2. /\ KInv(k) /\ k \in KState /\ me = Reaper /\ me \in Task /\ k.waiting_on[me] = NULL
    BY <1>1, Ground DEF SInv, IInv, ReaperHome
  <1>3. k.queue[ReaperQ] # <<>>
    <2> SUFFICES ASSUME k.queue[ReaperQ] = <<>>
                 PROVE  FALSE
      OBVIOUS
    <2>1. k' = [k EXCEPT !.stop = "wild"]
      BY DEF Reap
    <2> QED
      BY <1>1, <1>2, <2>1 DEF KState
  <1> DEFINE t == Head(k.queue[ReaperQ])
             d == RsrcDequeue(k, ReaperQ)
  <1>4. t \in Thread /\ t \in Task
    <2>1. t \in Task /\ k.waiting_on[t] = ReaperQ
      BY <1>2, <1>3, HeadWaits, Names
    <2>2. t # Reaper /\ t # Idle
      BY <1>2, <2>1, Names DEF KInv
    <2> QED
      BY <2>1, <2>2 DEF Task
  <1>5. /\ k' = RsrcRelease(d, t) /\ bound' = bound \ {t}
        /\ \E at \in PC : pc' = [pc EXCEPT ![me] = at]
    BY <1>3 DEF Reap, Goto, PC
  <1>6. /\ KInv(d) /\ d.status = k.status
        /\ \A p \in Object \ {ReaperQ} : d.queue[p] = k.queue[p]
    <2>1. d.status = k.status
      BY <1>2 DEF RsrcDequeue, KState
    <2> QED
      BY <1>2, <1>3, <2>1, DequeueInv, DequeueMoves, Names DEF KInv
  <1> HIDE DEF d, t
  <1>7. /\ t \in Object \ {RunQ} /\ Sem \subseteq Object \ {RunQ, ReaperQ, t}
        /\ Thread \subseteq Object \ {RunQ, ReaperQ} /\ Thread \subseteq Task
    BY <1>4, Names
  <1>8. /\ k'.queue[t] = <<>>
        /\ \A p \in Object \ {t, RunQ} : k'.queue[p] = d.queue[p]
        /\ \A u \in Task : k'.status[u] =
              IF u \in Elems(d.queue[t]) THEN "RESOURCE" ELSE d.status[u]
    BY <1>5, <1>6, <1>7, WakeEach
  <1>9. /\ \A x \in Sem : k'.queue[x] = k.queue[x]
        /\ \A x \in Thread : Elems(k'.queue[x]) \subseteq Elems(k.queue[x])
    BY <1>6, <1>7, <1>8, EmptyElems
  <1>10. ASSUME NEW u \in Thread, pc[u] = "sem_acquire"
         PROVE  k'.status[u] = k.status[u]
    <2>1. u \notin Elems(d.queue[t])
      BY <1>2, <1>4, <1>6, <1>7, <1>10, OnQueue DEF SInv, Calls
    <2> QED
      BY <1>6, <1>7, <1>8, <2>1
  <1>11. \A u \in Thread : pc'[u] = pc[u]
    BY <1>2, <1>5, Names DEF SInv, IInv, TypeOK
  <1>12. bound' \cap Sem = bound \cap Sem
    BY <1>4, <1>5, Names
  <1> QED
    BY <1>1, <1>2, <1>9, <1>10, <1>11, <1>12, AsideKeeps

LEMMA TeamDestroyKeeps ==
    ASSUME SInv, IInv', TeamDestroyNext \/ TeamDestroyEnd
    PROVE  Calls' /\ PromiseStep
  <1>1. CASE TeamDestroyNext
    <2>1. PICK m \in Team \cap bound :
            LET x == Head(resources[m])
            IN  IF x \in Sem
                THEN k' = RsrcRelease(k, x) /\ bound' = bound \ {x}
                ELSE UNCHANGED <<k, bound>>
      BY <1>1 DEF TeamDestroyNext
    <2>2. k.stop = "no" /\ UNCHANGED <<count, pc, res>>
      BY <1>1 DEF TeamDestroyNext, Resumes
    <2> DEFINE x == Head(resources[m])
    <2>3. CASE x \in Sem
      <3>1. k' = RsrcRelease(k, x) /\ bound' = bound \ {x}
        BY <2>1, <2>3
      <3> HIDE DEF x
      <3> QED
        BY <2>2, <2>3, <3>1, GoneKeeps
    <2>4. CASE x \notin Sem
      <3>1. UNCHANGED <<k, bound>>
        BY <2>1, <2>4
      <3>2. me \in Task /\ k.waiting_on[me] = NULL
        BY <2>2, Ground DEF SInv
      <3> QED
        BY <2>2, <3>1, <3>2, AsideKeeps
    <2> QED
      BY <2>3, <2>4
  <1>2. CASE TeamDestroyEnd
    <2>1. /\ k.stop = "no" /\ pc[me] = "team_destroy" /\ k' = k
          /\ pc' = [pc EXCEPT ![me] = "reaper"] /\ UNCHANGED <<count, res>>
          /\ \E m \in Team : bound' = bound \ {m}
      BY <1>2 DEF TeamDestroyEnd, Resumes, Goto
    <2>2. me = Reaper /\ me \in Task /\ k.waiting_on[me] = NULL
      BY <2>1, Ground DEF SInv, IInv, ReaperHome
    <2>3. \A t \in Thread : pc'[t] = pc[t]
      BY <2>1, <2>2, Names DEF SInv, IInv, TypeOK
    <2>4. bound' \cap Sem = bound \cap Sem
      BY <2>1, Names
    <2> QED
      BY <2>1, <2>2, <2>3, <2>4, AsideKeeps
  <1> QED
    BY <1>1, <1>2

-----------------------------------------------------------------------------
(* The refinement.                                                          *)

LEMMA SemsStep ==
    SInv /\ [Next]_vars => SInv' /\ [Promise!Next]_(Promise!vars)
  <1> SUFFICES ASSUME SInv, [Next]_vars
               PROVE  SInv' /\ [Promise!Next]_(Promise!vars)
    OBVIOUS
  <1>1. IInv'
    BY NextInv DEF SInv
  <1>2. Calls' /\ PromiseStep
    <2>1. CASE UNCHANGED vars
      <3>1. Calls'
        BY <2>1 DEF vars, SInv, Calls
      <3>2. Unseen
        BY <2>1 DEF vars, Unseen
      <3> QED
        BY <1>1, <3>1, <3>2, UnseenStutters DEF SInv, PromiseStep
    <2>2. CASE SemCall
      <3>1. PICK s \in Sem : \/ \E n \in InitCounts : SemCreate(s, n)
                             \/ SemDestroy(s) \/ SemAcquire(s) \/ SemRelease(s)
        BY <2>2 DEF SemCall
      <3>2. CASE SemDestroy(s)
        BY <1>1, <3>2, GoneKeeps DEF SemDestroy, InUser, Interruptible
      <3> QED
        BY <1>1, <3>1, <3>2, CreateKeeps, AcquireKeeps, ReleaseKeeps
    <2>3. CASE ThreadCall
      <3>1. CASE \E t \in Thread : ThrCreate(t)
        <4>1. PICK t \in Thread : ThrCreate(t)
          BY <3>1
        <4> DEFINE m == team[me]
        <4>2. InUser /\ StartThread(t, m)
          BY <4>1 DEF ThrCreate
        <4>3. bound' \cap Sem = bound \cap Sem
          BY <4>1, Names DEF ThrCreate
        <4> HIDE DEF m
        <4> QED
          BY <1>1, <4>2, <4>3, BirthKeeps
      <3>2. CASE \E t \in Thread, m \in Team : ThrSpawn(t, m)
        <4>1. PICK t \in Thread, m \in Team : ThrSpawn(t, m)
          BY <3>2
        <4>2. bound' \cap Sem = bound \cap Sem
          BY <4>1, Names DEF ThrSpawn
        <4> QED
          BY <1>1, <4>1, <4>2, BirthKeeps DEF ThrSpawn
      <3>3. CASE \E us \in Naps : Sleep(us)
        BY <1>1, <3>3, SleepKeeps
      <3> QED
        BY <1>1, <2>3, <3>1, <3>2, <3>3, ThrWaitKeeps, TerminateKeeps DEF ThreadCall
    <2>4. CASE Kernel
      BY <1>1, <2>4, ResumeKeeps, ThrWaitResumeKeeps, ReaperAcquireKeeps, ReapKeeps,
         TeamDestroyKeeps DEF Kernel
    <2>5. CASE Tick
      BY <1>1, <2>5, TickKeeps DEF Tick
    <2> QED
      BY <2>1, <2>2, <2>3, <2>4, <2>5 DEF Next, Stopped
  <1> QED
    BY <1>1, <1>2 DEF SInv, PromiseStep

\* The kernel's semaphores keep the promise of SemSpec (sem_acquire, sem_release,
\* sem_destroy, team_destroy and all the scheduling between): first come first
\* served, a unit released is handed over or kept, and who is told ERR_RESOURCE got
\* none.
THEOREM SemaphoresImplement == Spec => SemaphoresKeepPromise
  <1>1. Init => SInv /\ Promise!Init
    <2> SUFFICES ASSUME Init
                 PROVE  SInv /\ Promise!Init
      OBVIOUS
    <2>1. IInv
      BY InitIInv
    <2>2. /\ \A t \in Task : k.waiting_on[t] \in {RunQ, NULL} /\ pc[t] # "sem_acquire"
          /\ \A o \in Waitable : k.queue[o] = <<>>
          /\ bound \cap Sem = {} /\ res = [t \in Thread |-> "NONE"]
      BY Names, ThreadsAssumption DEF Init
    <2>3. Calls
      BY <2>2, Names DEF Calls
    <2>4. Promise!Init
      BY <2>2, Names DEF Promise!Init
    <2> QED
      BY <2>1, <2>3, <2>4 DEF SInv
  <1> QED
    BY <1>1, SemsStep, PTL DEF Spec, SemaphoresKeepPromise, Promise!Spec
=============================================================================
