-------------------------------- MODULE Irqs ---------------------------------
(***************************************************************************)
(* Device interrupts: os_handle_irq, os_sleep_irq, irq_dispatch and the     *)
(* interrupt controller, on top of the scheduler of Sched.                  *)
(* src/openblt/kernel/{syscall,fault,i386}.c, jump.S                        *)
(*                                                                         *)
(* The controller is an edge triggered 8259 in fully nested mode, one chip  *)
(* of it: irqs 1 to 7, a lower number goes first.  What ends an interrupt   *)
(* is the non-specific end-of-interrupt the stub of jump.S sends once       *)
(* irq_dispatch returned, and that may be long after: preempt gives the     *)
(* processor to the driver in the middle of it, and the stub goes on when   *)
(* the thread that was interrupted runs again.  The timer has its own, sent *)
(* first, and no device interrupt goes before it.                           *)
(***************************************************************************)
EXTENDS Sched, FiniteSets, FiniteSetsExt

CONSTANTS
    Irq,       \* the device interrupts in use
    Limbo,     \* reaper_sem, where the reaper stays
    Drives,    \* the irqs each thread may ask for with os_handle_irq
    MaxRaises  \* bound of the model on how often the devices interrupt

ASSUME IrqsAssumption ==
    /\ Irq \subseteq 1..7
    /\ Waitable = {Limbo}
    /\ DOMAIN Drives = Thread /\ \A t \in Thread : Drives[t] \subseteq Irq
    /\ Thread # {} /\ IsFiniteSet(Thread) /\ NULL \notin Thread
    /\ MaxRaises \in Nat

VARIABLES
    k,          \* the scheduler's state
    irq,        \* task_t.irq, 0 if the thread handles none
    map,        \* irq_task_map
    masked,     \* the interrupt mask of the controller
    pending,    \* its request register
    inService,  \* its in-service register
    left,       \* how many interrupts the devices still raise
    pc          \* where a task that is switched to resumes

vars == <<k, irq, map, masked, pending, inService, left, pc>>

me == k.current
Interruptible == k.stop = "no" /\ pc[me] = "user"
InUser == Interruptible /\ me \in Thread

\* After init_idt: every device interrupt is masked, no task is in the map.
Init ==
    /\ \E t \in Thread : \E q \in [1..(Cardinality(Thread) - 1) -> Thread \ {t}] :
        /\ \A i, j \in DOMAIN q : q[i] = q[j] => i = j
        /\ k = [ queue      |-> [o \in Object |-> IF o = RunQ THEN q
                                    ELSE IF o = Limbo THEN <<Reaper>> ELSE <<>>],
                 waiting_on |-> [u \in Task |-> IF u \in {t, Idle} THEN NULL
                                    ELSE IF u = Reaper THEN Limbo ELSE RunQ],
                 flags      |-> [u \in Task |-> IF u = t THEN "RUNNING"
                                    ELSE IF u = Idle THEN "READY" ELSE "WAITING"],
                 status     |-> [u \in Task |-> "NONE"],
                 wait_time  |-> [u \in Task |-> 0],
                 current    |-> t,
                 live_tasks |-> Cardinality(Thread) + 2,
                 stop       |-> "no" ]
    /\ irq = [t \in Thread |-> 0]
    /\ map = [n \in Irq |-> NULL]
    /\ masked = Irq /\ pending = {} /\ inService = {} /\ left = MaxRaises
    /\ pc = [u \in Task |-> "user"]

-----------------------------------------------------------------------------
\* The last thread to ask for an irq has it; nobody is told.
HandleIrq(n) ==
    /\ InUser
    /\ irq' = [irq EXCEPT ![me] = n]
    /\ map' = [map EXCEPT ![n] = me]
    /\ UNCHANGED <<k, masked, pending, inService, left, pc>>

\* A slip: the interrupt stays masked.
SleepIrqMasked ==
    /\ InUser
    /\ k' = Swtch([k EXCEPT !.flags = [k.flags EXCEPT ![me] =
                      IF irq[me] # 0 THEN "SLEEP_IRQ" ELSE @]])
    /\ UNCHANGED <<irq, map, masked, pending, inService, left, pc>>

\* A thread that handles none only yields.
SleepIrq ==
    /\ InUser
    /\ IF irq[me] # 0
       THEN /\ k' = Swtch([k EXCEPT !.flags = [k.flags EXCEPT ![me] = "SLEEP_IRQ"]])
            /\ masked' = masked \ {irq[me]}
       ELSE k' = Swtch(k) /\ UNCHANGED masked
    /\ UNCHANGED <<irq, map, pending, inService, left, pc>>

-----------------------------------------------------------------------------
\* A device raises its line.
Raise(n) ==
    /\ k.stop = "no"
    /\ n \notin pending /\ left > 0
    /\ pending' = pending \cup {n}
    /\ left' = left - 1
    /\ UNCHANGED <<k, irq, map, masked, inService, pc>>

\* Slips: the end-of-interrupt ends all of them, or none.
EoiAll(service) == {}
EoiNone(service) == service

\* The end-of-interrupt takes the highest priority out of service, whosever
\* it is.
Eoi(service) == IF service = {} THEN {} ELSE service \ {Min(service)}

\* The controller presents n: of those that are raised and not masked the
\* first, and before all that are in service.
Presents(n) ==
    /\ Interruptible
    /\ n \in pending \ masked
    /\ n = Min((pending \ masked) \cup inService) /\ n \notin inService

\* Slips: mask_irq forgotten; the flags of the driver not looked at.
IrqDispatchUnmasked(n) ==
    /\ Presents(n)
    /\ pending' = pending \ {n}
    /\ IF map[n] # NULL /\ k.flags[map[n]] = "SLEEP_IRQ"
       THEN /\ k' = Preempt(k, map[n], "NONE")
            /\ inService' = inService \cup {n}
            /\ pc' = [pc EXCEPT ![me] = "eoi"]
       ELSE UNCHANGED <<k, inService, pc>>
    /\ UNCHANGED <<irq, map, masked, left>>

IrqDispatchAnyway(n) ==
    /\ Presents(n)
    /\ pending' = pending \ {n}
    /\ masked' = masked \cup {n}
    /\ IF map[n] # NULL
       THEN /\ k' = Preempt(k, map[n], "NONE")
            /\ inService' = inService \cup {n}
            /\ pc' = [pc EXCEPT ![me] = "eoi"]
       ELSE UNCHANGED <<k, inService, pc>>
    /\ UNCHANGED <<irq, map, left>>

IrqDispatch(n) ==
    /\ Presents(n)
    /\ pending' = pending \ {n}
    /\ masked' = masked \cup {n}
    /\ IF map[n] # NULL /\ k.flags[map[n]] = "SLEEP_IRQ"
       THEN /\ k' = Preempt(k, map[n], "NONE")
            /\ inService' = inService \cup {n}
            /\ pc' = [pc EXCEPT ![me] = "eoi"]
       ELSE /\ inService' = Eoi(inService \cup {n})
            /\ UNCHANGED <<k, pc>>
    /\ UNCHANGED <<irq, map, left>>

\* The interrupted task runs again: its stub ends the interrupt.
IrqReturn ==
    /\ k.stop = "no" /\ pc[me] = "eoi"
    /\ inService' = Eoi(inService)
    /\ pc' = [pc EXCEPT ![me] = "user"]
    /\ UNCHANGED <<k, irq, map, masked, pending, left>>

\* The timer interrupt (Threads!TimerIrq with nobody in os_sleep).
Tick ==
    /\ Interruptible
    /\ k' = Swtch(k)
    /\ UNCHANGED <<irq, map, masked, pending, inService, left, pc>>

Next ==
    \/ \E t \in Thread : t = me /\ \E n \in Drives[t] : HandleIrq(n)
    \/ SleepIrq
    \/ \E n \in Irq : Raise(n) \/ IrqDispatch(n)
    \/ IrqReturn
    \/ Tick

Spec == Init /\ [][Next]_vars

(***************************************************************************)
(* Fairness.  The stubs end, the timer ticks, and the controller holds what  *)
(* is raised until it can present it.  Threads owe nothing: they may never   *)
(* come to os_sleep_irq again.                                               *)
(***************************************************************************)
FairSpec ==
    /\ Spec
    /\ WF_vars(IrqReturn) /\ SF_vars(Tick)
    /\ \A n \in Irq : SF_vars(IrqDispatch(n))

-----------------------------------------------------------------------------
(* Properties.                                                              *)

TypeOK ==
    /\ k \in KState
    /\ irq \in [Thread -> Irq \cup {0}]
    /\ map \in [Irq -> Thread \cup {NULL}]
    /\ masked \subseteq Irq /\ pending \subseteq Irq /\ inService \subseteq Irq
    /\ left \in 0..MaxRaises
    /\ pc \in [Task -> {"user", "eoi"}]

Sleeps(t) == k.flags[t] = "SLEEP_IRQ"

\* preempt wants a task that is on no queue ("it had better not be on any
\* queues") and that does not run: those that sleep in os_sleep_irq are.  All
\* others run or are on a queue, so irq_dispatch loses no thread.
SleepersApart ==
    /\ QueuesConsistent(k) /\ FlagsConsistent(k) /\ CurrentRuns(k)
    /\ k.waiting_on[Idle] = NULL
    /\ Placed(k) = {t \in Thread : ~Sleeps(t)}

\* Each interrupt in service waits for exactly one task to end it, although
\* the end-of-interrupts may come in another order than the interrupts did.
EachHasItsEnd ==
    Cardinality(inService) = Cardinality({u \in Task : pc[u] = "eoi"})

\* The thread asks for this irq only and no other thread asks for it, as the
\* drivers of this system do.
OwnIrq(t, n) ==
    Drives[t] = {n} /\ \A u \in Thread \ {t} : n \notin Drives[u]

\* An interrupt that is not masked finds its driver asleep: none is taken
\* from the controller and dropped ("The IRQ will be ignored by the kernel
\* when the task is no sleeping", but then it is masked and waits), whatever
\* others do with theirs.
UnmaskedFindsDriver ==
    \A t \in Thread, n \in Irq \ masked :
        OwnIrq(t, n) => map[n] = t /\ Sleeps(t) /\ irq[t] = n

\* A driver asleep has its interrupt unmasked, so that it can be woken.
SleeperCanBeWoken ==
    \A t \in Thread : Sleeps(t) /\ OwnIrq(t, irq[t]) => irq[t] \notin masked

\* The driver t is asleep in os_sleep_irq and its interrupt n is there.
Triggered(t, n) == Sleeps(t) /\ irq[t] = n /\ n \in pending /\ OwnIrq(t, n)

\* What the manual says of os_sleep_irq: "When that IRQ is triggered, the task
\* will be scheduled (preempting the currently running task)"
\* (doc/openblt.html).  An interrupt that found the idle task running is ended
\* when the idle task runs again (jump.S), which a thread that never sleeps
\* prevents, and until then it holds back those of its number and above.
TriggeredIsScheduled ==
    \A t \in Thread, n \in Irq : Triggered(t, n) ~> ~Sleeps(t)

\* What is true: as long as the idle task gets to end its interrupts now and
\* then, the driver is reached, whatever the threads do.  One that hogs the
\* processor with an interrupt of its own to end is switched to again by ticks.
IrqReachesDriver == []<>(pc[Idle] = "user") => TriggeredIsScheduled

\* os_sleep_irq, irq_dispatch and preempt lose no thread and no interrupt: who
\* sleeps for one is on no queue and can be woken, and what is unmasked finds its
\* driver.
DriversKept == TypeOK /\ SleepersApart /\ UnmaskedFindsDriver /\ SleeperCanBeWoken
=============================================================================
