-------------------------------- MODULE Sched --------------------------------
(***************************************************************************)
(* The scheduler of the OpenBLT kernel: tasks, the queues of resources on   *)
(* which they sleep, and the two ways the processor changes hands (swtch    *)
(* and preempt).  src/openblt/kernel/{list,resource,task,kernel}.c          *)
(*                                                                         *)
(* The kernel is uniprocessor and runs with interrupts off, so a handler is *)
(* atomic up to the point where it gives the processor away.  This module   *)
(* holds no action: every C function that moves tasks is an operator from a *)
(* scheduler state to a scheduler state, and the handlers of the modules    *)
(* that extend this one are compositions of them, in the order of the code. *)
(***************************************************************************)
EXTENDS Integers, Sequences

CONSTANTS
    Thread,    \* the task_t's (and their ids) that user threads can occupy
    Reaper,    \* the grim reaper, a kernel thread
    Idle,      \* idle_task, what runs when nothing else can
    Waitable,  \* the resources, other than the three below, tasks sleep on
    RunQ,      \* run_queue
    ReaperQ,   \* reaper_queue: threads that died and are not reclaimed yet
    TimerQ,    \* timer_queue: threads in os_sleep
    NULL

Task == Thread \cup {Reaper, Idle}
Object == Waitable \cup {RunQ, ReaperQ, TimerQ}

ASSUME SchedAssumption ==
    /\ Reaper \notin Thread /\ Idle \notin Thread /\ Reaper # Idle
    /\ RunQ \notin Waitable /\ ReaperQ \notin Waitable /\ TimerQ \notin Waitable
    /\ RunQ # ReaperQ /\ RunQ # TimerQ /\ ReaperQ # TimerQ
    /\ NULL \notin Object

\* task->flags (task.h).  A task on the run queue is tWAITING too: it is put
\* there by the same rsrc_enqueue as on any other queue.
Flag == {"RUNNING", "READY", "DEAD", "WAITING", "SLEEP_IRQ"}

\* task->status: what woke the task (ERR_NONE, ERR_RESOURCE).
Status == {"NONE", "RESOURCE"}

\* The part of the kernel's state that scheduling reads and writes.
KState ==
    [ queue      : [Object -> Seq(Task)],           \* resource_t.queue
      waiting_on : [Task -> Object \cup {NULL}],    \* task_t.waiting_on
      flags      : [Task -> Flag],
      status     : [Task -> Status],
      wait_time  : [Task -> Nat],
      current    : Task,
      live_tasks : Int,
      stop       : {"no", "exit", "wild"} ]

\* stop: the machine runs ("no"), the kernel left through destroy_kspace
\* ("exit"), or it used a pointer that is no task ("wild"): what follows is
\* not this program any more.

Elems(q) == {q[i] : i \in 1..Len(q)}

-----------------------------------------------------------------------------
(* Queues of tasks: rsrc_enqueue, rsrc_enqueue_ordered, rsrc_dequeue.       *)

\* A slip in the list code: the task enters where it should leave.
RsrcEnqueueAtHead(k, o, t) ==
    [k EXCEPT !.queue = [k.queue EXCEPT ![o] = <<t>> \o @],
              !.waiting_on = [k.waiting_on EXCEPT ![t] = o],
              !.flags = [k.flags EXCEPT ![t] = "WAITING"],
              !.wait_time = [k.wait_time EXCEPT ![t] = 0]]

RsrcEnqueue(k, o, t) ==
    [k EXCEPT !.queue = [k.queue EXCEPT ![o] = Append(@, t)],
              !.waiting_on = [k.waiting_on EXCEPT ![t] = o],
              !.flags = [k.flags EXCEPT ![t] = "WAITING"],
              !.wait_time = [k.wait_time EXCEPT ![t] = 0]]

\* "XXX fixme": the name promises an order, the code appends.
RsrcEnqueueOrdered(k, o, t, when) ==
    LET e == RsrcEnqueue(k, o, t)
    IN  [e EXCEPT !.wait_time = [e.wait_time EXCEPT ![t] = when]]

\* A slip: the task keeps pointing to the queue it left.
RsrcDequeueKeeps(k, o) ==
    [k EXCEPT !.queue = [k.queue EXCEPT ![o] = Tail(@)],
              !.flags = [k.flags EXCEPT ![Head(k.queue[o])] = "READY"]]

\* Only for a queue that is not empty; the task leaves as Head(k.queue[o]).
RsrcDequeue(k, o) ==
    LET t == Head(k.queue[o])
    IN  [k EXCEPT !.queue = [k.queue EXCEPT ![o] = Tail(@)],
                  !.waiting_on = [k.waiting_on EXCEPT ![t] = NULL],
                  !.flags = [k.flags EXCEPT ![t] = "READY"]]

SetStatus(k, t, s) == [k EXCEPT !.status = [k.status EXCEPT ![t] = s]]

\* The first n tasks of o are dequeued and enqueued again on the run queue,
\* one after the other, by a loop that gives nobody the processor; o # RunQ.
Ready(k, o, n) ==
    LET q == k.queue[o]
        up == {q[i] : i \in 1..n}
    IN  [k EXCEPT
          !.queue = [k.queue EXCEPT ![RunQ] = @ \o SubSeq(q, 1, n),
                                    ![o] = SubSeq(q, n + 1, Len(q))],
          !.waiting_on = [t \in Task |-> IF t \in up THEN RunQ
                                        ELSE k.waiting_on[t]],
          !.flags = [t \in Task |-> IF t \in up THEN "WAITING" ELSE k.flags[t]],
          !.wait_time = [t \in Task |-> IF t \in up THEN 0
                                       ELSE k.wait_time[t]]]

\* The same through task_wake, which tells them why.
Wake(k, o, n, s) ==
    LET up == {k.queue[o][i] : i \in 1..n}
    IN  [Ready(k, o, n) EXCEPT
          !.status = [t \in Task |-> IF t \in up THEN s ELSE k.status[t]]]

WakeOne(k, o, s) == Wake(k, o, IF k.queue[o] = <<>> THEN 0 ELSE 1, s)

\* while((t = list_detach_head(&o->queue))) task_wake(t, s);
WakeAll(k, o, s) == Wake(k, o, Len(k.queue[o]), s)

\* A slip: rsrc_release that wakes nobody.
RsrcReleaseSilent(k, o) == k

\* rsrc_release: whoever sleeps on a resource that goes away learns of it.
RsrcRelease(k, o) == WakeAll(k, o, "RESOURCE")

\* terminate: the running task goes where the reaper finds it.
Bury(k) ==
    LET e == RsrcEnqueue(k, ReaperQ, k.current)
    IN  [e EXCEPT !.live_tasks = e.live_tasks - 1,
                  !.flags = [e.flags EXCEPT ![k.current] = "DEAD"]]

-----------------------------------------------------------------------------
(* Giving the processor away: swtch, preempt, wait_on.                      *)

Run(k, t) == [k EXCEPT !.current = t, !.flags = [k.flags EXCEPT ![t] = "RUNNING"]]

\* A slip: idle is queued as any other task.
RequeueIdle(k) ==
    IF k.flags[k.current] = "RUNNING" THEN RsrcEnqueue(k, RunQ, k.current) ELSE k

\* A running task other than idle goes to the tail of the run queue.
Requeue(k) ==
    IF k.flags[k.current] = "RUNNING" /\ k.current # Idle
    THEN RsrcEnqueue(k, RunQ, k.current)
    ELSE k

\* A slip: nothing ready and no second look, current is what list_detach_head
\* returned.
SwtchNoIdle(k) ==
    IF k.queue[RunQ] = <<>> /\ k.flags[k.current] = "RUNNING"
    THEN k
    ELSE LET r == Requeue(k)
         IN  IF r.queue[RunQ] # <<>>
             THEN Run(RsrcDequeue(r, RunQ), Head(r.queue[RunQ]))
             ELSE [r EXCEPT !.current = NULL]

Swtch(k) ==
    IF k.queue[RunQ] = <<>> /\ k.flags[k.current] = "RUNNING"
    THEN k
    ELSE LET r == Requeue(k)
         IN  IF r.queue[RunQ] # <<>>
             THEN Run(RsrcDequeue(r, RunQ), Head(r.queue[RunQ]))
             ELSE IF r.live_tasks # 0
                  THEN Run(r, Idle)
                  ELSE [r EXCEPT !.stop = "exit"]

\* A slip: the preempted task is not put back on the run queue.
PreemptForgets(k, t, s) == SetStatus(Run(k, t), t, s)

\* t is on no queue; the running task is requeued whatever its flags say.
Preempt(k, t, s) ==
    LET r == IF k.current # Idle THEN RsrcEnqueue(k, RunQ, k.current) ELSE k
    IN  SetStatus(Run(r, t), t, s)

WaitOn(k, o) ==
    Swtch(RsrcEnqueue(SetStatus(k, k.current, "NONE"), o, k.current))

-----------------------------------------------------------------------------
(* What the scheduler's state must look like between two handlers.          *)

\* No queue holds a task twice, and a task is on the queue it says it is on.
QueuesConsistent(k) ==
    /\ \A o \in Object : \A i, j \in 1..Len(k.queue[o]) :
          k.queue[o][i] = k.queue[o][j] => i = j
    /\ \A o \in Object : \A i \in 1..Len(k.queue[o]) :
          k.waiting_on[k.queue[o][i]] = o
    /\ \A t \in Task : k.waiting_on[t] # NULL =>
          \E i \in 1..Len(k.queue[k.waiting_on[t]]) :
             k.queue[k.waiting_on[t]][i] = t

\* flags and waiting_on tell the same story of a task.
FlagsConsistent(k) ==
    \A t \in Task :
        /\ k.flags[t] = "WAITING" <=> k.waiting_on[t] \notin {NULL, ReaperQ}
        /\ k.flags[t] = "DEAD" <=> k.waiting_on[t] = ReaperQ

\* The running task is marked so and sleeps nowhere.
CurrentRuns(k) ==
    k.flags[k.current] = "RUNNING" /\ k.waiting_on[k.current] = NULL

\* The threads that run or are on some queue.
Placed(k) == {t \in Thread : t = k.current \/ k.waiting_on[t] # NULL}
=============================================================================
