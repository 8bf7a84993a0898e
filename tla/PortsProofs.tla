----------------------------- MODULE PortsProofs -----------------------------
(***************************************************************************)
(* Ports, for any number of threads, ports and messages: who sleeps in       *)
(* port_send and port_recv is known and can go on, no port holds more than   *)
(* it may, a master outlives its slaves, nobody is forgotten, and every port *)
(* is the bounded queue of PortSpec.                                         *)
(*                                                                         *)
(* A thread in a call sleeps on a queue of the port its local variable       *)
(* points to, or was woken.  What was woken with ERR_NONE and is not stale   *)
(* still has its port: this is what the invariant adds to what is checked.   *)
(***************************************************************************)
EXTENDS Ports, SchedProofs, FiniteSetTheorems, FunctionTheorems

CallsKnown ==
    \A t \in Thread :
        /\ pc[t] = "user" => call[t] = NoCall
        /\ pc[t] # "user" => call[t].p \in Port
        /\ pc[t] = "port_send" => call[t].m \in Message
        /\ pc[t] # "user" /\ k.status[t] = "NONE" /\ t \notin stale =>
              call[t].p \in live
        /\ t \in stale => /\ pc[t] # "user" /\ k.status[t] = "NONE"
                          /\ \A o \in PortQueue : k.waiting_on[t] # o

KernelUp ==
    /\ k.live_tasks # 0 /\ k.stop # "exit"
    /\ k.waiting_on[Reaper] = Limbo /\ k.waiting_on[Idle] = NULL
    /\ pc[Reaper] = "user" /\ pc[Idle] = "user"

PInv ==
    /\ TypeOK
    /\ SchedulerConsistent
    /\ SleepersKnown
    /\ PortBounded
    /\ CallsKnown
    /\ KernelUp

-----------------------------------------------------------------------------
(* Names and places.                                                        *)

LEMMA PortNames ==
    /\ Port \subseteq PortQueue /\ \A p \in Port : SendQ(p) \in PortQueue
    /\ PortQueue \subseteq Object \ {RunQ, ReaperQ, TimerQ, Limbo, NULL}
    /\ Limbo \in Object \ {RunQ, ReaperQ, TimerQ, NULL}
    /\ \A p, q \in Port : SendQ(p) # q /\ (SendQ(p) = SendQ(q) => p = q)
    /\ Reaper \in Task /\ Idle \in Task /\ Thread \subseteq Task
    /\ Reaper # Idle /\ Reaper \notin Thread /\ Idle \notin Thread
    /\ RunQ \in Object /\ NULL \notin Object /\ NULL \notin Port /\ RunQ # NULL
  <1>1. \A p, q \in Port : SendQ(p) = SendQ(q) => p = q
    BY DEF SendQ
  <1>2. PortQueue \subseteq Waitable /\ Limbo \in Waitable /\ Limbo \notin PortQueue
    BY PortsAssumption DEF PortQueue
  <1> QED
    BY <1>1, <1>2, SchedAssumption, PortsAssumption DEF Task, Object, PortQueue

LEMMA Within ==
    ASSUME PInv
    PROVE  /\ KInv(k) /\ CurrentRuns(k) /\ k \in KState /\ me \in Task
           /\ k.waiting_on[me] = NULL /\ me = k.current
           /\ Placed(k) = Thread /\ me # Reaper
           /\ pc[me] # "user" => me \in Thread
           /\ me \in Thread => me # Idle
  <1>1. KInv(k) /\ CurrentRuns(k)
    BY DEF PInv, SchedulerConsistent, TypeOK, KernelUp, KInv
  <1> QED
    BY <1>1, PortNames DEF PInv, TypeOK, SchedulerConsistent, KernelUp, KInv, KState,
       CurrentRuns, me, Task

\* wait_on: the running thread joins the sleepers, another one runs.
LEMMA WaitLast ==
    ASSUME NEW s, KInv(s), CurrentRuns(s), s.current # Idle, s.live_tasks # 0,
           NEW o \in Object \ {RunQ, ReaperQ}
    PROVE  LET r == WaitOn(s, o)
           IN  /\ KInv(r) /\ CurrentRuns(r)
               /\ r.queue[o] = Append(s.queue[o], s.current)
               /\ \A p \in Object \ {o, RunQ} : r.queue[p] = s.queue[p]
               /\ \A t \in Task : r.status[t] =
                     IF t = s.current THEN "NONE" ELSE s.status[t]
               /\ Placed(r) = Placed(s)
               /\ r.live_tasks = s.live_tasks /\ r.stop = s.stop
  <1>1. s \in KState
    BY DEF KInv
  <1>2. \A t \in Task : WaitOn(s, o).status[t] =
            IF t = s.current THEN "NONE" ELSE s.status[t]
    BY <1>1, WaitStatus
  <1>3. Placed(WaitOn(s, o)) = Placed(s)
    BY WaitOnInv DEF Placed
  <1> QED
    BY <1>2, <1>3, WaitOnInv

-----------------------------------------------------------------------------
(* One thread at a time.                                                    *)

\* What SleepersKnown and CallsKnown say of t.
Known(t) ==
    /\ \A p \in Port :
          /\ k.waiting_on[t] = p => /\ pc[t] = "port_recv" /\ call[t].p = p
                                    /\ p \in live
          /\ k.waiting_on[t] = SendQ(p) => /\ pc[t] = "port_send" /\ call[t].p = p
                                           /\ p \in live
    /\ pc[t] = "user" => call[t] = NoCall
    /\ pc[t] # "user" => call[t].p \in Port
    /\ pc[t] = "port_send" => call[t].m \in Message
    /\ pc[t] # "user" /\ k.status[t] = "NONE" /\ t \notin stale => call[t].p \in live
    /\ t \in stale => /\ pc[t] # "user" /\ k.status[t] = "NONE"
                      /\ \A o \in PortQueue : k.waiting_on[t] # o

LEMMA AllKnown == SleepersKnown /\ CallsKnown <=> \A t \in Thread : Known(t)
  BY DEF SleepersKnown, CallsKnown, Known

\* A sleeper is in a call on a port that is there.
LEMMA SleeperCalls ==
    ASSUME PInv, NEW t \in Thread, NEW o \in PortQueue, t \in Elems(k.queue[o])
    PROVE  pc[t] # "user" /\ call[t].p \in live /\ t \notin stale /\ t # me
  <1>1. KInv(k) /\ o \in Object /\ t \in Task /\ k.waiting_on[me] = NULL /\ o # NULL
    BY Within, PortNames
  <1>2. k.waiting_on[t] = o
    BY <1>1, OnQueue
  <1>3. Known(t)
    BY AllKnown DEF PInv
  <1> QED
    BY <1>1, <1>2, <1>3 DEF Known, PortQueue

\* A thread that did not run: it was woken at most.
LEMMA Bystander ==
    ASSUME PInv, KInv(k'), live \subseteq live', NEW t \in Thread,
           pc'[t] = pc[t], call'[t] = call[t], t \in stale' <=> t \in stale,
           \A o \in PortQueue : t \in Elems(k'.queue[o]) => t \in Elems(k.queue[o]),
           \/ k'.status[t] = k.status[t]
           \/ \E o \in PortQueue : t \in Elems(k.queue[o])
    PROVE  Known(t)'
  <1>1. Known(t)
    BY AllKnown DEF PInv
  <1>2. \A o \in PortQueue : k'.waiting_on[t] = o => k.waiting_on[t] = o
    BY Within, PortNames, OnQueue
  <1>3. k'.status[t] # k.status[t] => t \notin stale /\ call[t].p \in live
    BY SleeperCalls
  <1> QED
    BY <1>1, <1>2, <1>3 DEF Known, PortQueue

\* A thread that is not in a call.
LEMMA Returned ==
    ASSUME KInv(k'), NEW t \in Thread, pc'[t] = "user", call'[t] = NoCall,
           t \notin stale', \A o \in PortQueue : t \notin Elems(k'.queue[o])
    PROVE  Known(t)'
  <1>1. \A o \in PortQueue : k'.waiting_on[t] # o
    BY PortNames, OnQueue
  <1> QED
    BY <1>1 DEF Known, PortQueue

\* A thread that went to sleep in a call.
LEMMA Blocked ==
    ASSUME KInv(k'), NEW t \in Thread, NEW p \in live', live' \subseteq Port,
           NEW o \in PortQueue,
           \/ o = p /\ pc'[t] = "port_recv"
           \/ o = SendQ(p) /\ pc'[t] = "port_send" /\ call'[t].m \in Message,
           call'[t].p = p, t \notin stale', t \in Elems(k'.queue[o])
    PROVE  Known(t)'
  <1>1. k'.waiting_on[t] = o
    BY PortNames, OnQueue
  <1>2. \A q \in Port : /\ k'.waiting_on[t] = q => o = p /\ q = p
                        /\ k'.waiting_on[t] = SendQ(q) => o = SendQ(p) /\ q = p
    BY <1>1, PortNames
  <1> QED
    BY <1>1, <1>2, PortNames DEF Known, PortQueue

-----------------------------------------------------------------------------
(* The queues that were passed by.                                          *)

\* Nobody has to come for the sleepers of o.
Excused(o) == k.queue[o] # <<>> => o \in passed

\* Who was passed by stays so while any sleeps.
PassesOn == passed' \subseteq PortQueue /\ \A o \in passed : Excused(o)'

LEMMA Passes ==
    ASSUME PInv, NEW missed \in SUBSET PortQueue, PassedBy(missed)
    PROVE  PassesOn /\ \A o \in missed : Excused(o)'
  BY DEF PInv, TypeOK, PassedBy, PassesOn, Excused

LEMMA PassedStays ==
    ASSUME PInv, passed' = passed
    PROVE  PassesOn
  BY DEF PInv, TypeOK, PassesOn, Excused

-----------------------------------------------------------------------------
(* The kernel between two calls.                                            *)

\* r is a state the scheduler may go on in after s.
Moves(s, r) ==
    /\ KInv(r) /\ CurrentRuns(r)
    /\ Placed(r) = Placed(s)
    /\ r.queue[Limbo] = s.queue[Limbo]
    /\ r.live_tasks = s.live_tasks /\ r.stop \in {s.stop, "wild"}

LEMMA WakeMoves ==
    ASSUME NEW s, KInv(s), CurrentRuns(s), NEW o \in PortQueue, NEW why \in Status
    PROVE  Moves(s, WakeOne(s, o, why)) /\ Moves(s, RsrcRelease(s, o))
  <1>1. o \in Object \ {RunQ} /\ Limbo \in Object \ {o, RunQ} /\ Thread \subseteq Task
    BY PortNames
  <1>2. Moves(s, WakeOne(s, o, why))
    BY <1>1, WakeFirst DEF Moves, Placed
  <1>3. Moves(s, RsrcRelease(s, o))
    BY <1>1, WakeEach DEF Moves, Placed
  <1> QED
    BY <1>2, <1>3

LEMMA SleepMoves ==
    ASSUME NEW s, KInv(s), CurrentRuns(s), s.current # Idle, s.live_tasks # 0,
           NEW o \in PortQueue
    PROVE  Moves(s, WaitOn(s, o))
  BY PortNames, WaitLast DEF Moves

LEMMA SwtchMoves ==
    ASSUME NEW s, KInv(s), CurrentRuns(s), s.live_tasks # 0
    PROVE  /\ Moves(s, Swtch(s)) /\ Swtch(s).status = s.status
           /\ \A o \in PortQueue : Swtch(s).queue[o] = s.queue[o]
  <1>1. Leaving(s) /\ s \in KState
    BY DEF Leaving, CurrentRuns, KInv
  <1>2. /\ KInv(Swtch(s)) /\ Keeps(s, Swtch(s))
        /\ CurrentRuns(Swtch(s)) /\ Swtch(s).stop = s.stop
    BY <1>1, SwtchInv
  <1>3. \A o \in PortQueue : o \in Object \ {RunQ} /\ Limbo \in Object \ {RunQ}
    BY PortNames
  <1> QED
    BY <1>1, <1>2, <1>3, PortNames, SwtchStatus DEF Moves, Keeps, Placed

LEMMA WildMoves ==
    ASSUME NEW s, KInv(s), CurrentRuns(s)
    PROVE  LET r == [s EXCEPT !.stop = "wild"]
           IN  /\ Moves(s, r) /\ r.status = s.status /\ r.queue = s.queue
  <1> DEFINE r == [s EXCEPT !.stop = "wild"]
  <1>1. /\ r \in KState /\ r.queue = s.queue /\ r.waiting_on = s.waiting_on
        /\ r.flags = s.flags /\ r.current = s.current /\ r.status = s.status
        /\ r.live_tasks = s.live_tasks /\ r.stop = "wild"
    BY DEF KInv, KState
  <1> HIDE DEF r
  <1>2. KInv(r) /\ CurrentRuns(r) /\ Placed(r) = Placed(s)
    BY <1>1 DEF KInv, QueuesConsistent, FlagsConsistent, CurrentRuns, Placed
  <1> QED
    BY <1>1, <1>2 DEF Moves, r

LEMMA StillMoves ==
    ASSUME NEW s, KInv(s), CurrentRuns(s)
    PROVE  Moves(s, s)
  BY DEF Moves

LEMMA KernelStays ==
    ASSUME PInv, Moves(k, k'), pc'[Reaper] = "user", pc'[Idle] = "user"
    PROVE  SchedulerConsistent' /\ KernelUp'
  <1>1. SchedulerConsistent'
    BY DEF Moves, KInv, SchedulerConsistent, PInv
  <1>2. Limbo \in Object /\ Reaper \in Task
    BY PortNames
  <1>3. k.waiting_on[Reaper] = Limbo /\ k.waiting_on'[Reaper] = Limbo
    <2>1. k.waiting_on[Reaper] = Limbo
      BY DEF PInv, KernelUp
    <2>2. Reaper \in Elems(k.queue[Limbo])
      BY <1>2, <2>1, Within, OnQueue
    <2>3. Reaper \in Elems(k'.queue[Limbo]) /\ KInv(k')
      BY <2>2 DEF Moves
    <2> QED
      BY <1>2, <2>1, <2>3, OnQueue
  <1>4. k'.waiting_on[Idle] = NULL
    BY DEF Moves, KInv
  <1> QED
    BY <1>1, <1>3, <1>4 DEF Moves, KernelUp, PInv

-----------------------------------------------------------------------------
(* port_create, port_destroy and port_option.                               *)

LEMMA CreateStep ==
    ASSUME PInv, NEW p \in Port, PortCreate(p)
    PROVE  PInv'
  <1>1. KInv(k') /\ Moves(k, k') /\ live \subseteq live' /\ me \in Thread
        /\ Team[me] \in {Team[t] : t \in Thread} \cup {NULL} /\ k' = k
    BY Within, StillMoves DEF PortCreate, InUser
  <1>2. TypeOK'
    BY <1>1 DEF PInv, TypeOK, PortCreate
  <1>3. SchedulerConsistent' /\ KernelUp'
    BY <1>1, KernelStays DEF PInv, KernelUp, PortCreate
  <1>4. \A t \in Thread : Known(t)'
    BY <1>1, Bystander DEF PortCreate
  <1>5. PortBounded'
    BY DEF PInv, PortBounded, PortCreate
  <1> QED
    BY <1>2, <1>3, <1>4, <1>5, AllKnown DEF PInv, SleepersKnown, CallsKnown, Known

LEMMA SlaveStep ==
    ASSUME PInv, NEW p \in Port, NEW master \in Port \cup {NULL}, PortSlave(p, master)
    PROVE  PInv'
  <1>1. KInv(k') /\ Moves(k, k') /\ live' = live /\ k' = k
    BY Within, StillMoves DEF PortSlave
  <1>2. TypeOK'
    BY DEF PInv, TypeOK, PortSlave
  <1>3. SchedulerConsistent' /\ KernelUp'
    BY <1>1, KernelStays DEF PInv, KernelUp, PortSlave
  <1>4. \A t \in Thread : Known(t)'
    BY <1>1, Bystander DEF PortSlave
  <1>5. PortBounded'
    BY DEF PInv, PortBounded, PortSlave
  <1> QED
    BY <1>2, <1>3, <1>4, <1>5, AllKnown DEF PInv, SleepersKnown, CallsKnown, Known

LEMMA NowaitStep ==
    ASSUME PInv, NEW p \in Port, NEW arg \in BOOLEAN, PortNowait(p, arg)
    PROVE  PInv'
  <1>1. KInv(k') /\ Moves(k, k') /\ live' = live /\ k' = k
    BY Within, StillMoves DEF PortNowait
  <1>2. TypeOK'
    BY DEF PInv, TypeOK, PortNowait
  <1>3. SchedulerConsistent' /\ KernelUp'
    BY <1>1, KernelStays DEF PInv, KernelUp, PortNowait
  <1>4. \A t \in Thread : Known(t)'
    BY <1>1, Bystander DEF PortNowait
  <1>5. PortBounded'
    BY DEF PInv, PortBounded, PortNowait
  <1> QED
    BY <1>2, <1>3, <1>4, <1>5, AllKnown DEF PInv, SleepersKnown, CallsKnown, Known

LEMMA TickStep ==
    ASSUME PInv, Tick
    PROVE  PInv'
  <1>1. KInv(k) /\ CurrentRuns(k) /\ k.live_tasks # 0
    BY Within DEF PInv, KernelUp
  <1>2. KInv(k') /\ Moves(k, k') /\ k'.status = k.status
        /\ \A o \in PortQueue : k'.queue[o] = k.queue[o]
    BY <1>1, SwtchMoves DEF Tick, Moves
  <1>3. TypeOK'
    BY <1>2 DEF PInv, TypeOK, Tick, KInv
  <1>4. SchedulerConsistent' /\ KernelUp'
    BY <1>2, KernelStays DEF PInv, KernelUp, Tick
  <1>5. \A t \in Thread : Known(t)'
    BY <1>2, Bystander DEF Tick
  <1>6. PortBounded'
    BY DEF PInv, PortBounded, Tick
  <1> QED
    BY <1>3, <1>4, <1>5, <1>6, AllKnown DEF PInv, SleepersKnown, CallsKnown, Known

\* Both queues of p are empty after port_destroy, and their sleepers know why.
LEMMA BothReleased ==
    ASSUME PInv, NEW p \in Port
    PROVE  LET r == RsrcRelease(RsrcRelease(k, p), SendQ(p))
           IN  /\ KInv(r) /\ Moves(k, r)
               /\ r.queue[p] = <<>> /\ r.queue[SendQ(p)] = <<>>
               /\ \A o \in PortQueue \ {p, SendQ(p)} : r.queue[o] = k.queue[o]
               /\ \A t \in Task : r.status[t] =
                     IF t \in Elems(k.queue[p]) \cup Elems(k.queue[SendQ(p)])
                     THEN "RESOURCE" ELSE k.status[t]
  <1> DEFINE a == RsrcRelease(k, p)
             r == RsrcRelease(a, SendQ(p))
  <1>1. KInv(k) /\ CurrentRuns(k) /\ "RESOURCE" \in Status
    BY Within DEF Status
  <1>2. /\ p \in PortQueue /\ SendQ(p) \in PortQueue /\ p # SendQ(p)
        /\ \A o \in PortQueue : o \in Object \ {RunQ}
    BY PortNames
  <1>3. /\ KInv(a) /\ CurrentRuns(a) /\ Moves(k, a) /\ a.queue[p] = <<>>
        /\ \A o \in PortQueue \ {p} : a.queue[o] = k.queue[o]
        /\ \A t \in Task : a.status[t] =
              IF t \in Elems(k.queue[p]) THEN "RESOURCE" ELSE k.status[t]
    BY <1>1, <1>2, WakeEach, WakeMoves
  <1> HIDE DEF a
  <1>4. /\ KInv(r) /\ CurrentRuns(r) /\ Moves(a, r) /\ r.queue[SendQ(p)] = <<>>
        /\ \A o \in PortQueue \ {SendQ(p)} : r.queue[o] = a.queue[o]
        /\ \A t \in Task : r.status[t] =
              IF t \in Elems(a.queue[SendQ(p)]) THEN "RESOURCE" ELSE a.status[t]
    BY <1>1, <1>2, <1>3, WakeEach, WakeMoves
  <1> HIDE DEF r
  <1>5. Moves(k, r)
    BY <1>3, <1>4 DEF Moves
  <1> QED
    BY <1>2, <1>3, <1>4, <1>5 DEF a, r

LEMMA DestroyStep ==
    ASSUME PInv, NEW p \in Port, PortDestroy(p)
    PROVE  PInv'
  <1> DEFINE Left == Elems(k.queue[p]) \cup Elems(k.queue[SendQ(p)])
  <1>1. /\ KInv(k') /\ Moves(k, k')
        /\ Elems(k'.queue[p]) = {} /\ Elems(k'.queue[SendQ(p)]) = {}
        /\ \A o \in PortQueue \ {p, SendQ(p)} : k'.queue[o] = k.queue[o]
        /\ \A t \in Task : k'.status[t] = IF t \in Left THEN "RESOURCE" ELSE k.status[t]
    BY BothReleased DEF PortDestroy, Elems
  <1> HIDE DEF Left
  <1>2. TypeOK'
    <2>1. passed' \subseteq PortQueue
      BY DEF PortDestroy, PassedBy, PInv, TypeOK
    <2> QED
      BY <1>1, <2>1 DEF PInv, TypeOK, PortDestroy, KInv
  <1>3. SchedulerConsistent' /\ KernelUp'
    BY <1>1, KernelStays DEF PInv, KernelUp, PortDestroy
  <1>4. ASSUME NEW t \in Thread
        PROVE  Known(t)'
    <2>1. Known(t) /\ t \in Task /\ p \in PortQueue /\ SendQ(p) \in PortQueue
      BY AllKnown, PortNames DEF PInv
    <2>2. ASSUME NEW q \in Port, NEW o \in {q, SendQ(q)}, k'.waiting_on[t] = o
          PROVE  k.waiting_on[t] = o /\ q # p /\ t \notin Left
      <3>1. o \in PortQueue /\ o \in Object /\ KInv(k)
        BY PortNames, Within DEF PInv
      <3>2. t \in Elems(k'.queue[o])
        BY <1>1, <2>1, <2>2, <3>1, OnQueue
      <3>3. o \notin {p, SendQ(p)} /\ k'.queue[o] = k.queue[o]
        BY <1>1, <3>1, <3>2
      <3>4. k.waiting_on[t] = o
        BY <2>1, <3>1, <3>2, <3>3, OnQueue
      <3>5. t \notin Left
        BY <2>1, <3>1, <3>3, <3>4, OnQueue, PortNames DEF Left
      <3> QED
        BY <3>3, <3>4, <3>5
    <2>3. t \in Left => call[t].p = p /\ pc[t] # "user" /\ t \notin stale
      <3>1. ASSUME t \in Left
            PROVE  k.waiting_on[t] = p \/ k.waiting_on[t] = SendQ(p)
        BY <2>1, <3>1, OnQueue, Within, PortNames DEF Left
      <3> QED
        BY <2>1, <3>1 DEF Known
    <2>4. /\ pc'[t] = pc[t] /\ call'[t] = call[t] /\ live' = live \ {p}
          /\ t \in stale' <=> t \in stale \/ (call[t].p = p /\ k'.status[t] = "NONE")
          /\ k'.status[t] = IF t \in Left THEN "RESOURCE" ELSE k.status[t]
      BY <1>1, <2>1 DEF PortDestroy
    <2>5. \A q \in Port :
            /\ k'.waiting_on[t] = q => /\ pc'[t] = "port_recv" /\ call'[t].p = q
                                       /\ q \in live'
            /\ k'.waiting_on[t] = SendQ(q) => /\ pc'[t] = "port_send" /\ call'[t].p = q
                                              /\ q \in live'
      BY <2>1, <2>2, <2>4 DEF Known
    <2>6. p # NULL /\ NoCall.p = NULL
      BY PortNames DEF NoCall
    <2>7. /\ pc'[t] = "user" => call'[t] = NoCall
          /\ pc'[t] # "user" => call'[t].p \in Port
          /\ pc'[t] = "port_send" => call'[t].m \in Message
          /\ pc'[t] # "user" /\ k'.status[t] = "NONE" /\ t \notin stale'
                => call'[t].p \in live'
      BY <2>1, <2>3, <2>4 DEF Known
    <2>8. t \in stale' => pc'[t] # "user" /\ k'.status[t] = "NONE"
      BY <2>1, <2>3, <2>4, <2>6 DEF Known
    <2>9. t \in stale' => \A o \in PortQueue : k'.waiting_on[t] # o
      <3> SUFFICES ASSUME t \in stale', NEW o \in PortQueue, k'.waiting_on[t] = o
                   PROVE  FALSE
        OBVIOUS
      <3>1. PICK q \in Port : o \in {q, SendQ(q)}
        BY DEF PortQueue
      <3>2. k.waiting_on[t] = o /\ q # p /\ call[t].p = q
        BY <2>1, <2>2, <3>1 DEF Known
      <3> QED
        BY <2>1, <2>4, <3>1, <3>2 DEF Known
    <2> QED
      BY <2>5, <2>7, <2>8, <2>9 DEF Known
  <1>5. PortBounded'
    BY PortsAssumption DEF PInv, PortBounded, TypeOK, PortDestroy
  <1> QED
    BY <1>2, <1>3, <1>4, <1>5, AllKnown DEF PInv, SleepersKnown, CallsKnown, Known

-----------------------------------------------------------------------------
(* port_send and port_recv.                                                 *)

KernelOk == k \in KState /\ SchedulerConsistent /\ KernelUp /\ SleepersKnown /\ CallsKnown

\* A sleeper of o was woken, or none: nobody else notices.
LEMMA WokenOnly ==
    ASSUME PInv, NEW o \in PortQueue, k' = k \/ k' = WakeOne(k, o, "NONE")
    PROVE  /\ KInv(k') /\ Moves(k, k')
           /\ \A p \in PortQueue : Elems(k'.queue[p]) \subseteq Elems(k.queue[p])
           /\ \A t \in Task : \/ k'.status[t] = k.status[t]
                              \/ t \in Elems(k.queue[o])
           /\ \A t \in Task : k'.waiting_on[t] = NULL <=> k.waiting_on[t] = NULL
  <1>1. KInv(k) /\ CurrentRuns(k) /\ "NONE" \in Status /\ o \in Object \ {RunQ}
    BY Within, PortNames DEF Status
  <1>2. CASE k' = k
    BY <1>1, <1>2, StillMoves
  <1>3. CASE k' = WakeOne(k, o, "NONE")
    <2>1. /\ KInv(k') /\ Moves(k, k')
          /\ k'.queue[o] = IF k.queue[o] = <<>> THEN <<>> ELSE Tail(k.queue[o])
          /\ \A p \in Object \ {o, RunQ} : k'.queue[p] = k.queue[p]
          /\ \A t \in Task : k'.status[t] =
                IF k.queue[o] # <<>> /\ t = Head(k.queue[o]) THEN "NONE"
                ELSE k.status[t]
          /\ \A t \in Task : k'.waiting_on[t] = NULL <=> k.waiting_on[t] = NULL
      BY <1>1, <1>3, WakeFirst, WakeMoves
    <2>2. k.queue[o] \in Seq(Task)
      BY <1>1 DEF KInv, KState
    <2>3. Elems(k'.queue[o]) \subseteq Elems(k.queue[o])
      <3>1. CASE k.queue[o] = <<>>
        BY <2>1, <3>1
      <3>2. CASE k.queue[o] # <<>>
        BY <2>1, <2>2, <3>2, HeadOff
      <3> QED
        BY <3>1, <3>2
    <2>4. \A p \in PortQueue : p \in Object \ {RunQ}
      BY PortNames
    <2>5. k.queue[o] # <<>> => Head(k.queue[o]) \in Elems(k.queue[o])
      BY <2>2, HeadOff
    <2> QED
      BY <2>1, <2>3, <2>4, <2>5
  <1> QED
    BY <1>2, <1>3

\* The call ends.
LEMMA Ends ==
    ASSUME PInv, me \in Thread, me \notin stale, NEW code, NEW m, Deliver(code, m),
           NEW o \in PortQueue, k' = k \/ k' = WakeOne(k, o, "NONE"),
           UNCHANGED <<live, stale>>
    PROVE  KernelOk'
  <1>1. /\ KInv(k') /\ Moves(k, k')
        /\ \A p \in PortQueue : Elems(k'.queue[p]) \subseteq Elems(k.queue[p])
        /\ \A t \in Task : k'.status[t] = k.status[t] \/ t \in Elems(k.queue[o])
        /\ \A t \in Task : k'.waiting_on[t] = NULL <=> k.waiting_on[t] = NULL
    BY WokenOnly
  <1>2. /\ k.waiting_on[me] = NULL /\ KInv(k) /\ me \in Task
        /\ me # Reaper /\ me # Idle
    BY Within
  <1>3. pc \in [Task -> PC] /\ call \in [Thread -> Call] /\ Thread \subseteq Task
    BY PortNames DEF PInv, TypeOK
  <1>4. SchedulerConsistent' /\ KernelUp'
    <2>1. pc'[Reaper] = "user" /\ pc'[Idle] = "user"
      BY <1>2, <1>3, PortNames DEF PInv, KernelUp, Deliver
    <2> QED
      BY <1>1, <2>1, KernelStays
  <1>5. ASSUME NEW t \in Thread, t = me
        PROVE  Known(t)'
    <2>1. pc'[t] = "user" /\ call'[t] = NoCall /\ t \notin stale'
      BY <1>2, <1>3, <1>5 DEF Deliver
    <2>2. \A p \in PortQueue : t \notin Elems(k'.queue[p])
      BY <1>1, <1>2, <1>5, OnQueue, PortNames
    <2> QED
      BY <1>1, <2>1, <2>2, Returned
  <1>6. ASSUME NEW t \in Thread, t # me
        PROVE  Known(t)'
    <2>1. pc'[t] = pc[t] /\ call'[t] = call[t] /\ t \in Task
      BY <1>3, <1>6 DEF Deliver
    <2> QED
      BY <1>1, <2>1, Bystander
  <1> QED
    BY <1>1, <1>4, <1>5, <1>6, AllKnown
       DEF KernelOk, KInv, SleepersKnown, CallsKnown, Known

\* The call sleeps.
LEMMA Sleeps ==
    ASSUME PInv, me \in Thread, me \notin stale, NEW p \in live, NEW o \in PortQueue,
           NEW at, NEW c \in Call, Block(o, at, c), c.p = p,
           \/ o = p /\ at = "port_recv"
           \/ o = SendQ(p) /\ at = "port_send" /\ c.m \in Message,
           UNCHANGED <<live, stale>>
    PROVE  KernelOk'
  <1>1. /\ KInv(k) /\ CurrentRuns(k) /\ k.current # Idle /\ k.live_tasks # 0
        /\ me \in Task /\ me # Reaper /\ me # Idle
        /\ o \in Object \ {RunQ, ReaperQ}
        /\ \A q \in PortQueue : q \in Object \ {RunQ}
    BY Within, PortNames DEF PInv, KernelUp
  <1>2. pc \in [Task -> PC] /\ call \in [Thread -> Call] /\ Thread \subseteq Task
        /\ k.queue[o] \in Seq(Task) /\ live \subseteq Port
    BY <1>1, PortNames DEF PInv, TypeOK, KInv, KState
  <1>3. /\ KInv(k') /\ Moves(k, k')
        /\ k'.queue[o] = Append(k.queue[o], me)
        /\ \A q \in PortQueue \ {o} : k'.queue[q] = k.queue[q]
        /\ \A t \in Task : k'.status[t] = IF t = me THEN "NONE" ELSE k.status[t]
    BY <1>1, WaitLast, SleepMoves DEF Block, me
  <1>4. /\ me \in Elems(k'.queue[o])
        /\ \A t \in Task \ {me} : t \in Elems(k'.queue[o]) => t \in Elems(k.queue[o])
    <2> DEFINE q == k.queue[o]
    <2> HIDE DEF q
    <2>1. q \in Seq(Task) /\ me \in Task /\ k'.queue[o] = Append(q, me)
      BY <1>1, <1>2, <1>3 DEF q
    <2>2. /\ Len(Append(q, me)) = Len(q) + 1 /\ Append(q, me)[Len(q) + 1] = me
          /\ \A i \in 1..Len(q) : Append(q, me)[i] = q[i]
      BY <2>1
    <2>3. me \in Elems(Append(q, me)) /\ Elems(Append(q, me)) \subseteq Elems(q) \cup {me}
      BY <2>1, <2>2 DEF Elems
    <2> QED
      BY <2>1, <2>3 DEF q
  <1>5. SchedulerConsistent' /\ KernelUp'
    <2>1. pc'[Reaper] = "user" /\ pc'[Idle] = "user"
      BY <1>1, <1>2, PortNames DEF PInv, KernelUp, Block
    <2> QED
      BY <1>3, <2>1, KernelStays
  <1>6. ASSUME NEW t \in Thread, t = me
        PROVE  Known(t)'
    <2>1. pc'[t] = at /\ call'[t] = c /\ t \notin stale'
      BY <1>1, <1>2, <1>6 DEF Block
    <2> QED
      BY <1>2, <1>3, <1>4, <1>6, <2>1, Blocked
  <1>7. ASSUME NEW t \in Thread, t # me
        PROVE  Known(t)'
    <2>1. pc'[t] = pc[t] /\ call'[t] = call[t] /\ t \in Task
      BY <1>2, <1>7 DEF Block
    <2>2. \A q \in PortQueue : t \in Elems(k'.queue[q]) => t \in Elems(k.queue[q])
      BY <1>3, <1>4, <1>7, <2>1
    <2> QED
      BY <1>3, <1>7, <2>1, <2>2, Bystander
  <1> QED
    BY <1>3, <1>5, <1>6, <1>7, AllKnown
       DEF KernelOk, KInv, SleepersKnown, CallsKnown, Known

\* What a call has in its hands while it runs.
InCall(p) == PInv /\ me \in Thread /\ me \notin stale /\ p \in live
             /\ UNCHANGED <<live, owner, slaved, refcount, nowait, stale>>

LEMMA RunnerFresh == PInv /\ InUser => me \in Thread /\ me \notin stale
  BY DEF InUser, PInv, CallsKnown

LEMMA Arranged ==
    ASSUME PInv, passed' \subseteq PortQueue,
           UNCHANGED <<live, owner, slaved, refcount, nowait, stale>>,
           KernelOk', PortBounded', msgs' \in [Port -> Seq(Message)],
           pc' \in [Task -> PC], call' \in [Thread -> Call], res' \in Result
    PROVE  PInv'
  BY DEF PInv, TypeOK, KernelOk, SleepersKnown, CallsKnown, SchedulerConsistent,
         KernelUp, PortBounded

LEMMA EndTypes ==
    ASSUME PInv, me \in Thread, NEW code \in Error \cup {"NONE", "SENT", "RECEIVED"},
           NEW m \in Message \cup {NULL}, Deliver(code, m)
    PROVE  /\ pc' \in [Task -> PC] /\ call' \in [Thread -> Call] /\ res' \in Result
  <1>1. NoCall \in Call /\ "user" \in PC /\ me \in Task
    BY PortNames DEF NoCall, Call, PC
  <1>2. [t |-> me, code |-> code, m |-> m] \in Result
    BY DEF Result
  <1> QED
    BY <1>1, <1>2 DEF PInv, TypeOK, Deliver

LEMMA BlockTypes ==
    ASSUME PInv, me \in Thread, NEW o, NEW at \in PC, NEW c \in Call, Block(o, at, c)
    PROVE  /\ pc' \in [Task -> PC] /\ call' \in [Thread -> Call] /\ res' \in Result
           /\ msgs' \in [Port -> Seq(Message)] /\ PortBounded'
  BY PortNames DEF PInv, TypeOK, Block, PortBounded

\* A call ends that changed neither messages nor queues.
LEMMA PlainEnd ==
    ASSUME PInv, me \in Thread, me \notin stale, NEW p \in Port,
           NEW code \in Error \cup {"NONE", "SENT", "RECEIVED"}, Return(code),
           UNCHANGED <<k, msgs, live, owner, slaved, refcount, nowait, stale>>,
           passed' \subseteq PortQueue
    PROVE  PInv'
  <1>1. Deliver(code, NULL) /\ p \in PortQueue
    BY PortNames DEF Return
  <1>2. pc' \in [Task -> PC] /\ call' \in [Thread -> Call] /\ res' \in Result
    BY <1>1, EndTypes
  <1>3. KernelOk'
    BY <1>1, Ends
  <1> QED
    BY <1>2, <1>3, Arranged DEF PInv, PortBounded, TypeOK

LEMMA SendPasses ==
    ASSUME PInv, NEW p \in Port, NEW m, NEW fits, SendLoop(p, m, fits)
    PROVE  PassesOn
  <1>1. {} \in SUBSET PortQueue /\ {p} \in SUBSET PortQueue
        /\ {SendQ(p)} \in SUBSET PortQueue
    BY PortNames
  <1>2. passed' = passed \/ \E missed \in SUBSET PortQueue : PassedBy(missed)
    BY <1>1 DEF SendLoop, Block
  <1> QED
    BY <1>2, Passes, PassedStays

LEMMA RecvPasses ==
    ASSUME PInv, NEW p \in Port, RecvLoop(p)
    PROVE  PassesOn
  <1>1. passed' = passed \/ PassedBy({})
    BY DEF RecvLoop, Block
  <1> QED
    BY <1>1, Passes, PassedStays

LEMMA SendLoopStep ==
    ASSUME NEW p, NEW m \in Message, NEW fits \in BOOLEAN, InCall(p),
           SendLoop(p, m, fits)
    PROVE  PInv'
  <1> DEFINE c == [p |-> p, m |-> m, fits |-> fits]
  <1>1. /\ PInv /\ me \in Thread /\ me \notin stale /\ p \in live /\ p \in Port
        /\ UNCHANGED <<live, owner, slaved, refcount, nowait, stale>>
        /\ SendQ(p) \in PortQueue /\ c \in Call /\ c.p = p /\ c.m = m
        /\ "port_send" \in PC /\ msgs \in [Port -> Seq(Message)]
        /\ slaved \in [Port -> Port \cup {NULL}] /\ passed' \subseteq PortQueue
    BY PortNames, SendPasses DEF InCall, PInv, TypeOK, Call, PC, PassesOn
  <1> HIDE DEF c
  <1>2. CASE Return("WOULD_BLOCK") /\ UNCHANGED <<k, msgs>>
    BY <1>1, <1>2, PlainEnd DEF Error
  <1>3. CASE Return("MEMORY") /\ UNCHANGED <<k, msgs>>
    BY <1>1, <1>3, PlainEnd DEF Error
  <1>4. CASE Block(SendQ(p), "port_send", c)
    <2>1. KernelOk'
      BY <1>1, <1>4, Sleeps
    <2>2. /\ pc' \in [Task -> PC] /\ call' \in [Thread -> Call] /\ res' \in Result
          /\ msgs' \in [Port -> Seq(Message)] /\ PortBounded'
      BY <1>1, <1>4, BlockTypes
    <2> QED
      BY <1>1, <2>1, <2>2, Arranged
  <1>5. CASE /\ ~(Len(msgs[p]) >= MaxMsgCount)
             /\ msgs' = [msgs EXCEPT ![p] = Append(@, m)]
             /\ k' = WakeOne(k, IF slaved[p] # NULL THEN slaved[p] ELSE p, "NONE")
             /\ Return("SENT")
    <2>1. PICK o \in PortQueue : k' = WakeOne(k, o, "NONE")
      BY <1>1, <1>5, PortNames
    <2>2. Deliver("SENT", NULL)
      BY <1>5 DEF Return
    <2>3. KernelOk'
      BY <1>1, <2>1, <2>2, Ends
    <2>4. pc' \in [Task -> PC] /\ call' \in [Thread -> Call] /\ res' \in Result
      BY <1>1, <2>2, EndTypes
    <2>5. msgs' \in [Port -> Seq(Message)]
      BY <1>1, <1>5
    <2>6. PortBounded'
      <3> DEFINE q == msgs[p]
      <3>1. q \in Seq(Message) /\ MaxMsgCount \in Nat
            /\ \A r \in Port : msgs'[r] = IF r = p THEN Append(q, m) ELSE msgs[r]
        BY <1>1, <1>5, PortsAssumption
      <3> HIDE DEF q
      <3>2. Len(Append(q, m)) = Len(q) + 1 /\ Len(q) \in Nat
        BY <3>1
      <3>3. Len(q) + 1 <= MaxMsgCount
        BY <1>5, <3>1, <3>2 DEF q
      <3> QED
        BY <1>1, <3>1, <3>2, <3>3 DEF PInv, PortBounded
    <2> QED
      BY <1>1, <2>3, <2>4, <2>5, <2>6, Arranged
  <1> QED
    BY <1>2, <1>3, <1>4, <1>5 DEF SendLoop, c

LEMMA RecvLoopStep ==
    ASSUME NEW p, InCall(p), RecvLoop(p)
    PROVE  PInv'
  <1> DEFINE c == [NoCall EXCEPT !.p = p]
  <1>1. /\ PInv /\ me \in Thread /\ me \notin stale /\ p \in live /\ p \in Port
        /\ UNCHANGED <<live, owner, slaved, refcount, nowait, stale>>
        /\ p \in PortQueue /\ SendQ(p) \in PortQueue /\ c \in Call /\ c.p = p
        /\ "port_recv" \in PC /\ msgs \in [Port -> Seq(Message)]
        /\ passed' \subseteq PortQueue
    BY PortNames, RecvPasses DEF InCall, PInv, TypeOK, Call, PC, NoCall, PassesOn
  <1> HIDE DEF c
  <1>2. CASE Return("WOULD_BLOCK") /\ UNCHANGED <<k, msgs>>
    BY <1>1, <1>2, PlainEnd DEF Error
  <1>3. CASE Block(p, "port_recv", c)
    <2>1. KernelOk'
      BY <1>1, <1>3, Sleeps
    <2>2. /\ pc' \in [Task -> PC] /\ call' \in [Thread -> Call] /\ res' \in Result
          /\ msgs' \in [Port -> Seq(Message)] /\ PortBounded'
      BY <1>1, <1>3, BlockTypes
    <2> QED
      BY <1>1, <2>1, <2>2, Arranged
  <1>4. CASE /\ msgs[p] # <<>>
             /\ msgs' = [msgs EXCEPT ![p] = Tail(@)]
             /\ k' = WakeOne(k, SendQ(p), "NONE")
             /\ Deliver("RECEIVED", Head(msgs[p]))
    <2>1. /\ Head(msgs[p]) \in Message /\ Tail(msgs[p]) \in Seq(Message)
          /\ Len(msgs[p]) \in Nat /\ Len(Tail(msgs[p])) = Len(msgs[p]) - 1
      BY <1>1, <1>4
    <2>2. KernelOk'
      BY <1>1, <1>4, Ends
    <2>3. pc' \in [Task -> PC] /\ call' \in [Thread -> Call] /\ res' \in Result
      BY <1>1, <1>4, <2>1, EndTypes
    <2>4. msgs' \in [Port -> Seq(Message)]
      BY <1>1, <1>4, <2>1
    <2>5. PortBounded'
      <3>1. \A r \in Port : msgs'[r] = IF r = p THEN Tail(msgs[p]) ELSE msgs[r]
        BY <1>1, <1>4
      <3>2. MaxMsgCount \in Nat /\ \A r \in Port : Len(msgs[r]) <= MaxMsgCount
        BY <1>1, PortsAssumption DEF PInv, PortBounded
      <3>3. Len(msgs[p]) - 1 <= MaxMsgCount
        BY <1>1, <2>1, <3>2
      <3> QED
        BY <1>1, <2>1, <3>1, <3>2, <3>3 DEF PortBounded
    <2> QED
      BY <1>1, <2>2, <2>3, <2>4, <2>5, Arranged
  <1> QED
    BY <1>2, <1>3, <1>4 DEF RecvLoop, c

LEMMA SendStep ==
    ASSUME PInv, NEW src \in Port, NEW dst \in Port, NEW fits \in BOOLEAN,
           PortSend(src, dst, fits)
    PROVE  PInv'
  <1> DEFINE p == IF slaved[dst] # NULL THEN slaved[dst] ELSE dst
             m == [from |-> src, to |-> dst]
  <1>1. me \in Thread /\ me \notin stale /\ m \in Message
        /\ UNCHANGED <<live, owner, slaved, refcount, nowait, stale>>
    BY RunnerFresh DEF PortSend, Message
  <1>2. CASE \E error \in Error : Return(error) /\ UNCHANGED <<k, msgs, passed>>
    BY <1>1, <1>2, PlainEnd DEF PInv, TypeOK
  <1>3. CASE p \in live /\ SendLoop(p, m, fits)
    BY <1>1, <1>3, SendLoopStep DEF InCall
  <1> QED
    BY <1>2, <1>3 DEF PortSend, Error

LEMMA RecvStep ==
    ASSUME PInv, NEW dst \in Port, PortRecv(dst)
    PROVE  PInv'
  <1>1. me \in Thread /\ me \notin stale /\ "RECVPORT" \in Error
        /\ UNCHANGED <<live, owner, slaved, refcount, nowait, stale>>
    BY RunnerFresh DEF PortRecv, Error
  <1>2. CASE Return("RECVPORT") /\ UNCHANGED <<k, msgs, passed>>
    BY <1>1, <1>2, PlainEnd DEF PInv, TypeOK
  <1>3. CASE dst \in live /\ RecvLoop(dst)
    BY <1>1, <1>3, RecvLoopStep DEF InCall
  <1> QED
    BY <1>2, <1>3 DEF PortRecv

\* A call that comes back from wait_on has its thread, its port and its word.
LEMMA Comes ==
    ASSUME PInv, NEW at \in {"port_send", "port_recv"}, Resumes(at)
    PROVE  /\ me \in Thread /\ me \in Task /\ call[me].p \in Port
           /\ k.status[me] \in Status /\ call[me].fits \in BOOLEAN
           /\ at = "port_send" => call[me].m \in Message
           /\ k.status[me] # "NONE" => me \notin stale
           /\ k.status[me] = "NONE" /\ me \notin stale => call[me].p \in live
  <1>1. me \in Task /\ pc[me] = at /\ me \in Thread /\ k \in KState
    BY Within DEF Resumes
  <1> QED
    BY <1>1 DEF PInv, CallsKnown, TypeOK, KState, Call

\* It does not come back to a port that is gone: it is told, or is lost.
LEMMA EarlyEnd ==
    ASSUME PInv, NEW at \in {"port_send", "port_recv"}, Resumes(at), NEW L,
           Comeback(L), ~(k.status[me] = "NONE" /\ me \notin stale)
    PROVE  PInv'
  <1>1. CASE k.status[me] # "NONE"
    <2>1. Return(k.status[me]) /\ UNCHANGED <<k, msgs, stale, passed>>
          /\ UNCHANGED <<live, owner, slaved, refcount, nowait>>
          /\ passed' \subseteq PortQueue
      BY <1>1 DEF Comeback, PInv, TypeOK
    <2>2. k.status[me] \in Error \cup {"NONE"}
      BY Comes DEF Status, Error
    <2> QED
      BY <1>1, <2>1, <2>2, Comes, PlainEnd
  <1>2. CASE k.status[me] = "NONE" /\ me \in stale
    <2>1. /\ k' = [k EXCEPT !.stop = "wild"]
          /\ UNCHANGED <<msgs, pc, call, stale, res, passed>>
          /\ UNCHANGED <<live, owner, slaved, refcount, nowait>>
      BY <1>2 DEF Comeback
    <2>2. KInv(k') /\ Moves(k, k') /\ k'.status = k.status /\ k'.queue = k.queue
      BY <2>1, Within, WildMoves DEF Moves
    <2>3. SchedulerConsistent' /\ KernelUp'
      BY <2>1, <2>2, KernelStays DEF PInv, KernelUp
    <2>4. \A t \in Thread : Known(t)'
      BY <2>1, <2>2, Bystander
    <2>5. TypeOK' /\ PortBounded'
      BY <2>1, <2>2 DEF PInv, TypeOK, PortBounded, KInv
    <2> QED
      BY <2>3, <2>4, <2>5, AllKnown DEF PInv, SleepersKnown, CallsKnown, Known
  <1> QED
    BY <1>1, <1>2

LEMMA SendResumeStep ==
    ASSUME PInv, PortSendResume
    PROVE  PInv'
  <1>1. Resumes("port_send")
        /\ Comeback(SendLoop(call[me].p, call[me].m, call[me].fits))
    BY DEF PortSendResume
  <1>2. CASE k.status[me] = "NONE" /\ me \notin stale
    <2>1. InCall(call[me].p) /\ SendLoop(call[me].p, call[me].m, call[me].fits)
      BY <1>1, <1>2, Comes DEF Comeback, InCall
    <2> QED
      BY <1>1, <2>1, Comes, SendLoopStep
  <1> QED
    BY <1>1, <1>2, EarlyEnd

LEMMA RecvResumeStep ==
    ASSUME PInv, PortRecvResume
    PROVE  PInv'
  <1>1. Resumes("port_recv") /\ Comeback(RecvLoop(call[me].p))
    BY DEF PortRecvResume
  <1>2. CASE k.status[me] = "NONE" /\ me \notin stale
    <2>1. InCall(call[me].p) /\ RecvLoop(call[me].p)
      BY <1>1, <1>2, Comes DEF Comeback, InCall
    <2> QED
      BY <1>1, <2>1, RecvLoopStep
  <1> QED
    BY <1>1, <1>2, EarlyEnd

-----------------------------------------------------------------------------
(* The first state, and all that follow.                                    *)

\* All threads but the one that runs are on the run queue, each once.
LEMMA FirstQueue ==
    ASSUME NEW t \in Thread, NEW q \in [1..(Cardinality(Thread) - 1) -> Thread \ {t}],
           \A i, j \in DOMAIN q : q[i] = q[j] => i = j
    PROVE  /\ q \in Seq(Task) /\ Len(q) = Cardinality(Thread) - 1
           /\ \A u \in Thread \ {t} : \E i \in 1..Len(q) : q[i] = u
           /\ Cardinality(Thread) \in Nat
  <1> DEFINE n == Cardinality(Thread) - 1
             T == Thread \ {t}
  <1>1. Cardinality(Thread) \in Nat \ {0}
    BY PortsAssumption, FS_CardinalityType, FS_EmptySet
  <1>2. IsFiniteSet(T) /\ Cardinality(T) = n
    BY PortsAssumption, FS_RemoveElement
  <1>9. n \in Nat /\ 1 \in Int /\ n \in Int
    BY <1>1
  <1>3. n \in Nat /\ IsFiniteSet(1..n) /\ Cardinality(1..n) = n
    <2> HIDE DEF n
    <2>1. IsFiniteSet(1..n) /\ Cardinality(1..n) = IF 1 > n THEN 0 ELSE n - 1 + 1
      BY <1>9, FS_Interval
    <2> QED
      BY <1>9, <2>1
  <1>4. q \in [1..n -> T] /\ \A i, j \in 1..n : q[i] = q[j] => i = j
    OBVIOUS
  <1> HIDE DEF n, T
  <1>5. q \in Injection(1..n, T)
    BY <1>4, Fun_IsInj
  <1>6. q \in Surjection(1..n, T)
    BY <1>2, <1>3, <1>5, FS_Injection
  <1>7. \A u \in T : \E i \in 1..n : q[i] = u
    BY <1>6 DEF Surjection
  <1>8. q \in Seq(Task) /\ Len(q) = n
    BY <1>3, <1>4, PortNames DEF T
  <1> QED
    BY <1>1, <1>7, <1>8 DEF n, T

LEMMA FirstKernel ==
    ASSUME Init
    PROVE  /\ KInv(k) /\ CurrentRuns(k) /\ Placed(k) = Thread
           /\ \A o \in PortQueue : k.queue[o] = <<>>
           /\ k.waiting_on[Reaper] = Limbo /\ k.live_tasks # 0 /\ k.stop = "no"
  <1> DEFINE Begins(t, q) ==
           /\ \A i, j \in DOMAIN q : q[i] = q[j] => i = j
           /\ k = [ queue      |-> [o \in Object |-> IF o = RunQ THEN q
                                    ELSE IF o = Limbo THEN <<Reaper>> ELSE <<>>],
                    waiting_on |-> [u \in Task |-> IF u \in {t, Idle} THEN NULL
                                    ELSE IF u = Reaper THEN Limbo ELSE RunQ],
                    flags      |-> [u \in Task |-> IF u = t THEN "RUNNING"
                                    ELSE IF u = Idle THEN "READY" ELSE "WAITING"],
                    status     |-> [u \in Task |-> "NONE"],
                    wait_time  |-> [u \in Task |-> 0],
                    current    |-> t,
                    live_tasks |-> Cardinality(Thread) + 2,
                    stop       |-> "no" ]
  <1>a. PICK t \in Thread :
           \E q \in [1..(Cardinality(Thread) - 1) -> Thread \ {t}] : Begins(t, q)
    BY DEF Init
  <1>1. PICK q \in [1..(Cardinality(Thread) - 1) -> Thread \ {t}] : Begins(t, q)
    BY <1>a
  <1>2. /\ q \in Seq(Task) /\ \A u \in Thread \ {t} : \E i \in 1..Len(q) : q[i] = u
        /\ Cardinality(Thread) \in Nat
        /\ \A i \in 1..Len(q) : q[i] \in Thread \ {t}
        /\ \A i, j \in 1..Len(q) : q[i] = q[j] => i = j
    BY <1>1, FirstQueue
  <1> DEFINE Q == [o \in Object |-> IF o = RunQ THEN q
                                    ELSE IF o = Limbo THEN <<Reaper>> ELSE <<>>]
             w == [u \in Task |-> IF u \in {t, Idle} THEN NULL
                                    ELSE IF u = Reaper THEN Limbo ELSE RunQ]
             f == [u \in Task |-> IF u = t THEN "RUNNING"
                                    ELSE IF u = Idle THEN "READY" ELSE "WAITING"]
  <1>3. /\ k.queue = Q /\ k.waiting_on = w /\ k.flags = f /\ k.current = t
        /\ k.stop = "no" /\ k.live_tasks = Cardinality(Thread) + 2
    BY <1>1
  <1>4. Q \in [Object -> Seq(Task)] /\ w \in [Task -> Object \cup {NULL}]
        /\ f \in [Task -> Flag]
    BY <1>2, PortNames DEF Flag
  <1>5. k \in KState
    BY <1>1, <1>2, <1>4, PortNames DEF KState, Status
  <1>6. QueuesConsistent(k)
    <2>1. ASSUME NEW o \in Object
          PROVE  /\ \A i, j \in 1..Len(k.queue[o]) :
                       k.queue[o][i] = k.queue[o][j] => i = j
                 /\ \A i \in 1..Len(k.queue[o]) : k.waiting_on[k.queue[o][i]] = o
      <3>1. CASE o = RunQ
        <4>1. k.queue[o] = q
          BY <1>3, <3>1
        <4>2. \A i \in 1..Len(q) : w[q[i]] = o
          BY <1>2, <3>1, PortNames
        <4> QED
          BY <1>2, <1>3, <4>1, <4>2
      <3>2. CASE o = Limbo
        <4>1. k.queue[o] = <<Reaper>> /\ Len(<<Reaper>>) = 1 /\ <<Reaper>>[1] = Reaper
          BY <1>3, <3>2, PortNames
        <4>2. k.waiting_on[Reaper] = o
          BY <1>3, <3>2, PortNames
        <4>3. \A i \in 1..Len(k.queue[o]) : i = 1 /\ k.queue[o][i] = Reaper
          BY ONLY <4>1
        <4> QED
          BY ONLY <4>2, <4>3
      <3>3. CASE o \notin {RunQ, Limbo}
        <4>1. k.queue[o] = <<>>
          BY <1>3, <3>3
        <4> QED
          BY ONLY <4>1
      <3> QED
        BY <3>1, <3>2, <3>3
    <2>2. ASSUME NEW u \in Task, k.waiting_on[u] # NULL
          PROVE  \E i \in 1..Len(k.queue[k.waiting_on[u]]) :
                    k.queue[k.waiting_on[u]][i] = u
      <3>1. CASE u = Reaper
        <4>1. k.waiting_on[u] = Limbo
          BY <1>3, <3>1, PortNames
        <4>2. k.queue[Limbo] = <<Reaper>> /\ Len(<<Reaper>>) = 1 /\ <<Reaper>>[1] = Reaper
          BY <1>3, PortNames
        <4> QED
          BY <3>1, <4>1, <4>2
      <3>2. CASE u # Reaper
        <4>1. k.waiting_on[u] = RunQ /\ u \in Thread \ {t}
          BY <1>3, <2>2, <3>2, PortNames DEF Task
        <4>2. k.queue[RunQ] = q
          BY <1>3, PortNames
        <4> QED
          BY <1>2, <4>1, <4>2
      <3> QED
        BY <3>1, <3>2
    <2> QED
      BY <2>1, <2>2 DEF QueuesConsistent
  <1>7. FlagsConsistent(k)
    <2>1. \A u \in Task : k.waiting_on[u] \in {NULL, Limbo, RunQ}
                         /\ (k.waiting_on[u] = NULL <=> u \in {t, Idle})
      BY <1>3, PortNames
    <2>2. \A u \in Task : /\ k.flags[u] \in {"RUNNING", "READY", "WAITING"}
                          /\ k.flags[u] = "WAITING" <=> u \notin {t, Idle}
      BY <1>3, PortNames
    <2>3. ReaperQ \notin {NULL, Limbo, RunQ}
      BY PortNames, RunQObject
    <2> QED
      BY <2>1, <2>2, <2>3 DEF FlagsConsistent
  <1>8. CurrentRuns(k) /\ k.waiting_on[Idle] = NULL /\ k.waiting_on[Reaper] = Limbo
    BY <1>3, PortNames DEF CurrentRuns
  <1>9. Placed(k) = Thread
    BY <1>3, PortNames DEF Placed
  <1>10. \A o \in PortQueue : k.queue[o] = <<>>
    BY <1>3, PortNames
  <1> QED
    BY <1>2, <1>3, <1>5, <1>6, <1>7, <1>8, <1>9, <1>10 DEF KInv

LEMMA InitHolds ==
    Init => PInv
  <1> SUFFICES ASSUME Init PROVE PInv
    OBVIOUS
  <1>1. /\ KInv(k) /\ CurrentRuns(k) /\ Placed(k) = Thread
        /\ \A o \in PortQueue : k.queue[o] = <<>>
        /\ k.waiting_on[Reaper] = Limbo /\ k.live_tasks # 0 /\ k.stop = "no"
    BY FirstKernel
  <1>2. TypeOK
    <2>1. NoCall \in Call /\ "user" \in PC
      BY DEF NoCall, Call, PC
    <2>2. res \in Result
      BY DEF Init, Result
    <2> QED
      BY <1>1, <2>1, <2>2 DEF Init, TypeOK, KInv
  <1>3. SchedulerConsistent /\ KernelUp
    BY <1>1, PortNames DEF SchedulerConsistent, KernelUp, KInv, Init
  <1>4. \A t \in Thread : Known(t)
    <2>1. \A t \in Thread, o \in PortQueue : k.waiting_on[t] # o
      <3>1. \A t \in Thread, o \in PortQueue : t \notin Elems(k.queue[o])
        BY <1>1 DEF Elems
      <3> QED
        BY <1>1, <3>1, OnQueue, PortNames
    <2> QED
      BY <2>1, PortNames DEF Known, Init, PortQueue
  <1>5. PortBounded
    BY PortsAssumption DEF PortBounded, Init
  <1> QED
    BY <1>2, <1>3, <1>4, <1>5, AllKnown DEF PInv

LEMMA StepHolds ==
    PInv /\ [Next]_vars => PInv'
  <1> SUFFICES ASSUME PInv, [Next]_vars PROVE PInv'
    OBVIOUS
  <1>1. CASE PortCall
    <2> PICK p \in Port :
            \/ PortCreate(p) \/ PortDestroy(p)
            \/ p \in Slave /\ \E master \in Master \cup {NULL} : PortSlave(p, master)
            \/ \E arg \in Nowaits : PortNowait(p, arg)
            \/ \E src \in Port, fits \in Fits : PortSend(src, p, fits)
            \/ PortRecv(p)
      BY <1>1 DEF PortCall
    <2> QED
      BY PortsAssumption, CreateStep, DestroyStep, SlaveStep, NowaitStep, SendStep,
         RecvStep
  <1>2. CASE Resume
    BY <1>2, SendResumeStep, RecvResumeStep DEF Resume
  <1>3. CASE Tick
    BY <1>3, TickStep
  <1>4. CASE UNCHANGED vars
    <2>1. /\ k' = k /\ live' = live /\ owner' = owner /\ msgs' = msgs /\ slaved' = slaved
          /\ refcount' = refcount /\ nowait' = nowait /\ pc' = pc /\ call' = call
          /\ stale' = stale /\ res' = res /\ passed' = passed
      BY <1>4 DEF vars
    <2> QED
      BY <2>1 DEF PInv, TypeOK, SchedulerConsistent, SleepersKnown, PortBounded,
         CallsKnown, KernelUp
  <1> QED
    BY <1>1, <1>2, <1>3, <1>4 DEF Next, Stopped

\* For any threads and ports, whatever they call: port_send, port_recv, port_destroy
\* and port_option leave the scheduler whole, who sleeps in them is known, and no
\* port holds more than MAX_MSGCOUNT messages.
THEOREM PortsInvariance == Spec => []PInv
  BY InitHolds, StepHolds, PTL DEF Spec

\* WaitersKept of the runs, for any number of threads, ports and messages.
THEOREM WaitersStayKept == Spec => []WaitersKept
  <1>1. PInv => WaitersKept
    BY DEF PInv, WaitersKept
  <1> QED
    BY <1>1, PortsInvariance, PTL

-----------------------------------------------------------------------------
(* Masters.  A port that is not there is nobody's slave: without this,        *)
(* port_create could bring a slave to life whose master does not count it.    *)

SlavesOf(p) == {q \in live : slaved[q] = p}

MInv == PInv /\ MasterKept /\ \A p \in Port : p \notin live => slaved[p] = NULL

LEMMA SlavesFinite ==
    ASSUME PInv, NEW p
    PROVE  IsFiniteSet(SlavesOf(p)) /\ Cardinality(SlavesOf(p)) \in Nat
  <1>1. SlavesOf(p) \in SUBSET Port
    BY DEF PInv, TypeOK, SlavesOf
  <1> QED
    BY <1>1, PortsAssumption, FS_Subset, FS_CardinalityType

LEMMA MasterCreate ==
    ASSUME MInv, PInv', NEW p \in Port, PortCreate(p)
    PROVE  MInv'
  <1>1. /\ p \notin live /\ live' = live \cup {p} /\ slaved' = slaved
        /\ live \subseteq Port /\ slaved \in [Port -> Port \cup {NULL}]
        /\ refcount' = [refcount EXCEPT ![p] = 1] /\ refcount \in [Port -> Int]
        /\ slaved[p] = NULL /\ NULL \notin Port
    BY PortNames DEF MInv, PInv, TypeOK, PortCreate
  <1>2. \A q \in Port : SlavesOf(q)' = SlavesOf(q)
    BY <1>1 DEF SlavesOf
  <1>3. SlavesOf(p) = {}
    BY <1>1 DEF SlavesOf, MInv, MasterKept
  <1>4. Cardinality(SlavesOf(p)) = 0
    BY <1>3, FS_EmptySet
  <1>5. ASSUME NEW q \in live'
        PROVE  /\ slaved'[q] # NULL => slaved'[q] \in live'
               /\ refcount'[q] >= 1 + Cardinality(SlavesOf(q)')
    <2>1. CASE q = p
      BY <1>1, <1>2, <1>4, <2>1
    <2>2. CASE q # p
      <3>1. q \in live /\ refcount'[q] = refcount[q] /\ SlavesOf(q)' = SlavesOf(q)
        BY <1>1, <1>2, <2>2
      <3> QED
        BY <1>1, <3>1 DEF MInv, MasterKept, SlavesOf
    <2> QED
      BY <2>1, <2>2
  <1> QED
    BY <1>1, <1>5 DEF MInv, MasterKept, SlavesOf

LEMMA MasterDestroy ==
    ASSUME MInv, PInv', NEW p \in Port, PortDestroy(p)
    PROVE  MInv'
  <1>1. /\ p \in live /\ live' = live \ {p} /\ slaved' = [slaved EXCEPT ![p] = NULL]
        /\ live \subseteq Port /\ slaved \in [Port -> Port \cup {NULL}]
        /\ refcount' = [refcount EXCEPT ![p] = 0] /\ refcount \in [Port -> Int]
        /\ refcount[p] = 1 /\ NULL \notin Port /\ PInv
    BY PortNames DEF MInv, PInv, TypeOK, PortDestroy
  <1>2. SlavesOf(p) = {}
    <2>1. Cardinality(SlavesOf(p)) \in Nat /\ 1 >= 1 + Cardinality(SlavesOf(p))
          /\ IsFiniteSet(SlavesOf(p))
      BY <1>1, SlavesFinite DEF MInv, MasterKept, SlavesOf
    <2>2. Cardinality(SlavesOf(p)) = 0
      BY <2>1
    <2> QED
      BY <2>1, <2>2, FS_EmptySet
  <1>3. ASSUME NEW q \in live'
        PROVE  /\ slaved'[q] # NULL => slaved'[q] \in live'
               /\ refcount'[q] >= 1 + Cardinality(SlavesOf(q)')
    <2>1. q \in live /\ q \in Port /\ refcount'[q] = refcount[q]
          /\ slaved'[q] = slaved[q] /\ slaved[q] # p /\ refcount[q] \in Int
      BY <1>1, <1>2 DEF SlavesOf
    <2>2. SlavesOf(q)' \in SUBSET SlavesOf(q)
      BY <1>1, <2>1 DEF SlavesOf
    <2>3. IsFiniteSet(SlavesOf(q)) /\ Cardinality(SlavesOf(q)) \in Nat
          /\ Cardinality(SlavesOf(q)') <= Cardinality(SlavesOf(q))
          /\ Cardinality(SlavesOf(q)') \in Nat
      BY <1>1, <2>2, SlavesFinite, FS_Subset, FS_CardinalityType
    <2>4. /\ slaved[q] # NULL => slaved[q] \in live
          /\ refcount[q] >= 1 + Cardinality(SlavesOf(q))
      BY <2>1 DEF MInv, MasterKept, SlavesOf
    <2> QED
      BY <1>1, <2>1, <2>3, <2>4
  <1> QED
    BY <1>1, <1>3 DEF MInv, MasterKept, SlavesOf

LEMMA MasterSlave ==
    ASSUME MInv, PInv', NEW p \in Port, NEW master \in Port \cup {NULL},
           PortSlave(p, master)
    PROVE  MInv'
  <1>1. /\ p \in live /\ live' = live /\ slaved' = [slaved EXCEPT ![p] = master]
        /\ live \subseteq Port /\ slaved \in [Port -> Port \cup {NULL}]
        /\ refcount \in [Port -> Int] /\ NULL \notin Port /\ PInv
        /\ master # NULL => master \in live
        /\ \A q \in Port : refcount'[q] =
              refcount[q] + (IF q = master THEN 1 ELSE 0)
                          - (IF q = slaved[p] THEN 1 ELSE 0)
    BY PortNames DEF MInv, PInv, TypeOK, PortSlave
  <1>2. ASSUME NEW q \in live
        PROVE  /\ slaved'[q] # NULL => slaved'[q] \in live
               /\ refcount'[q] >= 1 + Cardinality(SlavesOf(q)')
    <2>1. /\ q \in Port /\ refcount[q] \in Int /\ IsFiniteSet(SlavesOf(q))
          /\ Cardinality(SlavesOf(q)) \in Nat
          /\ slaved[q] # NULL => slaved[q] \in live
          /\ refcount[q] >= 1 + Cardinality(SlavesOf(q))
      BY <1>1, SlavesFinite, ZenonT(60) DEF MInv, MasterKept, SlavesOf
    <2>2. slaved'[q] # NULL => slaved'[q] \in live
      BY <1>1, <2>1
    <2>3. CASE q = master /\ slaved[p] # q
      <3>1. SlavesOf(q)' = SlavesOf(q) \cup {p} /\ p \notin SlavesOf(q)
        BY <1>1, <2>1, <2>3 DEF SlavesOf
      <3>2. Cardinality(SlavesOf(q)') = Cardinality(SlavesOf(q)) + 1
        BY <2>1, <3>1, FS_AddElement
      <3> QED
        BY <1>1, <2>1, <2>2, <2>3, <3>2
    <2>4. CASE q # master /\ slaved[p] = q
      <3>1. SlavesOf(q)' = SlavesOf(q) \ {p} /\ p \in SlavesOf(q)
        BY <1>1, <2>1, <2>4 DEF SlavesOf
      <3>2. Cardinality(SlavesOf(q)') = Cardinality(SlavesOf(q)) - 1
        BY <2>1, <3>1, FS_RemoveElement
      <3> QED
        BY <1>1, <2>1, <2>2, <2>4, <3>2
    <2>5. CASE q = master <=> slaved[p] = q
      <3>1. SlavesOf(q)' = SlavesOf(q)
        BY <1>1, <2>1, <2>5 DEF SlavesOf
      <3>2. refcount'[q] = refcount[q]
        BY <1>1, <2>1, <2>5
      <3> QED
        BY <2>1, <2>2, <3>1, <3>2
    <2> QED
      BY <2>3, <2>4, <2>5
  <1> QED
    BY <1>1, <1>2 DEF MInv, MasterKept, SlavesOf

LEMMA MasterStep ==
    MInv /\ [Next]_vars => MInv'
  <1> SUFFICES ASSUME MInv, [Next]_vars PROVE MInv'
    OBVIOUS
  <1>1. PInv'
    BY StepHolds DEF MInv
  <1>2. CASE UNCHANGED <<live, slaved, refcount>>
    BY <1>1, <1>2 DEF MInv, MasterKept
  <1>3. CASE PortCall
    <2> PICK p \in Port :
            \/ PortCreate(p) \/ PortDestroy(p)
            \/ p \in Slave /\ \E master \in Master \cup {NULL} : PortSlave(p, master)
            \/ \E arg \in Nowaits : PortNowait(p, arg)
            \/ \E src \in Port, fits \in Fits : PortSend(src, p, fits)
            \/ PortRecv(p)
      BY <1>3 DEF PortCall
    <2>1. CASE \/ \E arg \in Nowaits : PortNowait(p, arg)
               \/ \E src \in Port, fits \in Fits : PortSend(src, p, fits)
               \/ PortRecv(p)
      BY <1>2, <2>1 DEF PortNowait, PortSend, PortRecv
    <2> QED
      BY <1>1, <2>1, PortsAssumption, MasterCreate, MasterDestroy, MasterSlave
  <1>4. CASE Resume
    BY <1>2, <1>4 DEF Resume, PortSendResume, PortRecvResume, Comeback
  <1>5. CASE Tick
    BY <1>2, <1>5 DEF Tick
  <1>6. CASE UNCHANGED vars
    BY <1>2, <1>6 DEF vars
  <1> QED
    BY <1>3, <1>4, <1>5, <1>6 DEF Next, Stopped

\* A master outlives its slaves and counts at least them: port_option never loses
\* the port it lets go, port_send always finds the one it is told to use.
THEOREM MastersStayKept == Spec => []MasterKept
  <1>1. Init => MInv
    BY InitHolds, ZenonT(60) DEF Init, MInv, MasterKept
  <1>2. MInv => MasterKept
    BY DEF MInv
  <1> QED
    BY <1>1, <1>2, MasterStep, PTL DEF Spec

-----------------------------------------------------------------------------
(* Every step is a step of PortSpec, or changes nothing PortSpec sees.  A port *)
(* that is not there holds no message, so that a port starts empty.           *)

EInv == PInv /\ \A p \in Port : p \notin live => msgs[p] = <<>>

Chan == [p \in Port |-> IF p \in live THEN msgs[p] ELSE <<>>]

PromiseStep == Promise!Next \/ UNCHANGED <<live, msgs, res>>

LEMMA CallFails ==
    ASSUME me \in Thread, NEW code \in Error, Return(code), UNCHANGED <<live, msgs>>
    PROVE  PromiseStep
  <1>1. Promise!Fail(me)
    BY DEF Return, Deliver, Promise!Fail, Promise!Answer
  <1> QED
    BY <1>1 DEF PromiseStep, Promise!Next

LEMMA SendLoopKeeps ==
    ASSUME EInv, NEW p, NEW m \in Message, NEW fits \in BOOLEAN, InCall(p),
           SendLoop(p, m, fits)
    PROVE  PromiseStep /\ \A q \in Port : q \notin live' => msgs'[q] = <<>>
  <1>1. /\ me \in Thread /\ p \in live /\ live' = live /\ p \in Port /\ live \subseteq Port
        /\ msgs \in [Port -> Seq(Message)] /\ MaxMsgCount \in Nat
    BY PortsAssumption DEF InCall, PInv, TypeOK
  <1>2. CASE /\ Return("WOULD_BLOCK") \/ Return("MEMORY")
             /\ UNCHANGED msgs
    BY <1>1, <1>2, CallFails DEF Error, EInv
  <1>3. CASE Block(SendQ(p), "port_send", [p |-> p, m |-> m, fits |-> fits])
    BY <1>1, <1>3 DEF Block, PromiseStep, EInv
  <1>4. CASE /\ ~(Len(msgs[p]) >= MaxMsgCount)
             /\ msgs' = [msgs EXCEPT ![p] = Append(@, m)]
             /\ Return("SENT")
    <2>1. /\ Len(msgs[p]) < MaxMsgCount
          /\ \A q \in Port : msgs'[q] = IF q = p THEN Append(msgs[p], m) ELSE msgs[q]
          /\ msgs' \in [Port -> Seq(Message)]
      BY <1>1, <1>4
    <2>2. Chan[p] = msgs[p] /\ Chan' = [Chan EXCEPT ![p] = Append(Chan[p], m)]
      BY <1>1, <2>1 DEF Chan
    <2>3. res' = [t |-> me, code |-> "SENT", m |-> NULL]
      BY <1>4 DEF Return, Deliver
    <2>4. Promise!Send(me, p, m)
      BY <1>1, <2>1, <2>2, <2>3 DEF Promise!Send, Promise!Answer, Chan
    <2> QED
      BY <1>1, <2>1, <2>4 DEF PromiseStep, Promise!Next, EInv
  <1> QED
    BY <1>2, <1>3, <1>4 DEF SendLoop

LEMMA RecvLoopKeeps ==
    ASSUME EInv, NEW p, InCall(p), RecvLoop(p)
    PROVE  PromiseStep /\ \A q \in Port : q \notin live' => msgs'[q] = <<>>
  <1>1. /\ me \in Thread /\ p \in live /\ live' = live /\ p \in Port /\ live \subseteq Port
        /\ msgs \in [Port -> Seq(Message)]
    BY DEF InCall, PInv, TypeOK
  <1>2. CASE Return("WOULD_BLOCK") /\ UNCHANGED msgs
    BY <1>1, <1>2, CallFails DEF Error, EInv
  <1>3. CASE Block(p, "port_recv", [NoCall EXCEPT !.p = p])
    BY <1>1, <1>3 DEF Block, PromiseStep, EInv
  <1>4. CASE /\ msgs[p] # <<>>
             /\ msgs' = [msgs EXCEPT ![p] = Tail(@)]
             /\ Deliver("RECEIVED", Head(msgs[p]))
    <2>1. \A q \in Port : msgs'[q] = IF q = p THEN Tail(msgs[p]) ELSE msgs[q]
      BY <1>1, <1>4
    <2>2. Chan[p] = msgs[p] /\ Chan' = [Chan EXCEPT ![p] = Tail(Chan[p])]
      BY <1>1, <2>1 DEF Chan
    <2>3. res' = [t |-> me, code |-> "RECEIVED", m |-> Head(msgs[p])]
      BY <1>4 DEF Deliver
    <2>4. Promise!Receive(me, p)
      BY <1>1, <1>4, <2>1, <2>2, <2>3 DEF Promise!Receive, Promise!Answer, Chan
    <2> QED
      BY <1>1, <2>1, <2>4 DEF PromiseStep, Promise!Next, EInv
  <1> QED
    BY <1>2, <1>3, <1>4 DEF RecvLoop

LEMMA ComebackKeeps ==
    ASSUME EInv, NEW at \in {"port_send", "port_recv"}, Resumes(at), NEW L, Comeback(L),
           ~(k.status[me] = "NONE" /\ me \notin stale)
    PROVE  PromiseStep /\ \A q \in Port : q \notin live' => msgs'[q] = <<>>
  <1>1. me \in Thread /\ k.status[me] \in Status /\ live' = live /\ msgs' = msgs
    BY Comes DEF EInv, Comeback
  <1>2. CASE k.status[me] # "NONE"
    <2>1. k.status[me] \in Error /\ Return(k.status[me])
      BY <1>1, <1>2 DEF Status, Error, Comeback
    <2> QED
      BY <1>1, <2>1, CallFails DEF EInv
  <1>3. CASE k.status[me] = "NONE"
    <2>1. res' = res
      BY <1>3 DEF Comeback
    <2> QED
      BY <1>1, <2>1 DEF EInv, PromiseStep
  <1> QED
    BY <1>2, <1>3

LEMMA PortCallKeeps ==
    ASSUME EInv, PortCall
    PROVE  PromiseStep /\ \A q \in Port : q \notin live' => msgs'[q] = <<>>
  <1>1. live \subseteq Port /\ msgs \in [Port -> Seq(Message)] /\ PInv
    BY DEF EInv, PInv, TypeOK
  <1>2. PICK p \in Port :
            \/ PortCreate(p) \/ PortDestroy(p)
            \/ p \in Slave /\ \E master \in Master \cup {NULL} : PortSlave(p, master)
            \/ \E arg \in Nowaits : PortNowait(p, arg)
            \/ \E src \in Port, fits \in Fits : PortSend(src, p, fits)
            \/ PortRecv(p)
    BY DEF PortCall
  <1>3. CASE PortCreate(p)
    <2>1. /\ p \notin live /\ live' = live \cup {p} /\ msgs' = msgs /\ res' = res
          /\ msgs[p] = <<>>
      BY <1>3 DEF PortCreate, EInv
    <2>2. Chan' = [Chan EXCEPT ![p] = <<>>]
      BY <2>1 DEF Chan
    <2>3. Promise!Create(p)
      BY <2>1, <2>2 DEF Promise!Create, Chan
    <2> QED
      BY <2>1, <2>3 DEF PromiseStep, Promise!Next, EInv
  <1>4. CASE PortDestroy(p)
    <2>1. /\ p \in live /\ live' = live \ {p} /\ msgs' = [msgs EXCEPT ![p] = <<>>]
          /\ res' = res
      BY <1>4 DEF PortDestroy
    <2>2. Chan' = [Chan EXCEPT ![p] = <<>>]
      BY <1>1, <2>1 DEF Chan
    <2>3. Promise!Destroy(p)
      BY <2>1, <2>2 DEF Promise!Destroy, Chan
    <2> QED
      BY <1>1, <2>1, <2>3 DEF PromiseStep, Promise!Next, EInv
  <1>5. CASE \/ \E master \in Master \cup {NULL} : PortSlave(p, master)
             \/ \E arg \in Nowaits : PortNowait(p, arg)
    BY <1>5 DEF PortSlave, PortNowait, PromiseStep, EInv
  <1>6. ASSUME NEW src \in Port, NEW fits \in Fits, PortSend(src, p, fits)
        PROVE  PromiseStep /\ \A q \in Port : q \notin live' => msgs'[q] = <<>>
    <2> DEFINE d == IF slaved[p] # NULL THEN slaved[p] ELSE p
               m == [from |-> src, to |-> p]
    <2>1. me \in Thread /\ me \notin stale /\ m \in Message /\ fits \in BOOLEAN
          /\ UNCHANGED <<live, owner, slaved, refcount, nowait, stale>>
      BY <1>1, <1>6, RunnerFresh, PortsAssumption DEF PortSend, Message
    <2>2. CASE \E error \in Error : Return(error) /\ UNCHANGED msgs
      BY <2>1, <2>2, CallFails DEF EInv
    <2>3. CASE d \in live /\ SendLoop(d, m, fits)
      BY <1>1, <2>1, <2>3, SendLoopKeeps DEF InCall
    <2> QED
      BY <1>6, <2>2, <2>3 DEF PortSend, Error
  <1>7. CASE PortRecv(p)
    <2>1. me \in Thread /\ me \notin stale /\ "RECVPORT" \in Error
          /\ UNCHANGED <<live, owner, slaved, refcount, nowait, stale>>
      BY <1>1, <1>7, RunnerFresh DEF PortRecv, Error
    <2>2. CASE Return("RECVPORT") /\ UNCHANGED <<k, msgs>>
      BY <2>1, <2>2, CallFails DEF EInv
    <2>3. CASE p \in live /\ RecvLoop(p)
      BY <1>1, <2>1, <2>3, RecvLoopKeeps DEF InCall
    <2> QED
      BY <1>7, <2>2, <2>3 DEF PortRecv
  <1> QED
    BY <1>2, <1>3, <1>4, <1>5, <1>6, <1>7

LEMMA ResumeKeeps ==
    ASSUME EInv, Resume
    PROVE  PromiseStep /\ \A q \in Port : q \notin live' => msgs'[q] = <<>>
  <1>1. PInv
    BY DEF EInv
  <1>2. CASE PortSendResume
    <2>1. Resumes("port_send")
          /\ Comeback(SendLoop(call[me].p, call[me].m, call[me].fits))
      BY <1>2 DEF PortSendResume
    <2>2. CASE k.status[me] = "NONE" /\ me \notin stale
      <3>1. InCall(call[me].p) /\ SendLoop(call[me].p, call[me].m, call[me].fits)
        BY <1>1, <2>1, <2>2, Comes DEF Comeback, InCall
      <3>2. call[me].m \in Message /\ call[me].fits \in BOOLEAN
        BY <1>1, <2>1, Comes
      <3> QED
        BY <3>1, <3>2, SendLoopKeeps
    <2> QED
      BY <2>1, <2>2, ComebackKeeps
  <1>3. CASE PortRecvResume
    <2>1. Resumes("port_recv") /\ Comeback(RecvLoop(call[me].p))
      BY <1>3 DEF PortRecvResume
    <2>2. CASE k.status[me] = "NONE" /\ me \notin stale
      <3>1. InCall(call[me].p) /\ RecvLoop(call[me].p)
        BY <1>1, <2>1, <2>2, Comes DEF Comeback, InCall
      <3> QED
        BY <3>1, RecvLoopKeeps
    <2> QED
      BY <2>1, <2>2, ComebackKeeps
  <1> QED
    BY <1>2, <1>3 DEF Resume

LEMMA PromiseHolds ==
    EInv /\ [Next]_vars => EInv' /\ [Promise!Next]_(Promise!vars)
  <1> SUFFICES ASSUME EInv, [Next]_vars
               PROVE  EInv' /\ [Promise!Next]_(Promise!vars)
    OBVIOUS
  <1>1. PInv'
    BY StepHolds DEF EInv
  <1>2. PromiseStep /\ \A q \in Port : q \notin live' => msgs'[q] = <<>>
    <2>1. CASE Tick \/ UNCHANGED vars
      BY <2>1 DEF Tick, vars, PromiseStep, EInv
    <2> QED
      BY <2>1, PortCallKeeps, ResumeKeeps DEF Next, Stopped
  <1>3. UNCHANGED <<live, msgs, res>> => UNCHANGED Promise!vars
    BY DEF Promise!vars
  <1> QED
    BY <1>1, <1>2, <1>3 DEF EInv, PromiseStep

\* Ports implements PortSpec, for any number of threads and ports: no message is
\* lost, duplicated or reordered between port_send and port_recv, whoever sleeps,
\* wakes, overtakes or is told to leave.
THEOREM PortsImplement == Spec => PortsKeepPromise
  <1>1. Init => EInv /\ Promise!Init
    BY InitHolds, ZenonT(60) DEF Init, EInv, Promise!Init, Promise!Answer
  <1> QED
    BY <1>1, PromiseHolds, PTL DEF Spec, PortsKeepPromise, Promise!Spec

-----------------------------------------------------------------------------
(* Nobody is forgotten, as long as no port is slaved and no message is too     *)
(* large: a woken sender that fails with ERR_MEMORY does not pass the place    *)
(* on, and a message for a slave wakes the receivers of another port.  Counted *)
(* are those on their way who will act, not those told to leave.               *)

Coming(at, p, o) ==
    {t \in Thread : /\ pc[t] = at /\ call[t].p = p /\ k.waiting_on[t] # o
                    /\ k.status[t] = "NONE" /\ t \notin stale}

RecvServed(p) ==
    Excused(p) \/ Len(msgs[p]) <= Cardinality(Coming("port_recv", p, p))

SendServed(p) ==
    \/ Excused(SendQ(p))
    \/ MaxMsgCount - Len(msgs[p]) <= Cardinality(Coming("port_send", p, SendQ(p)))

AllServed == \A p \in live : RecvServed(p) /\ SendServed(p)

FInv == PInv /\ AllServed

LEMMA OneLess ==
    ASSUME NEW A \in SUBSET Thread, NEW B \in SUBSET Thread, NEW x, A \ {x} \subseteq B
    PROVE  /\ Cardinality(A) \in Nat /\ Cardinality(B) \in Nat
           /\ Cardinality(A) - 1 <= Cardinality(B)
           /\ x \notin A => Cardinality(A) <= Cardinality(B)
  <1>1. IsFiniteSet(A) /\ IsFiniteSet(B)
    BY PortsAssumption, FS_Subset
  <1>2. Cardinality(A) \in Nat /\ Cardinality(B) \in Nat
        /\ Cardinality(A \ {x}) = IF x \in A THEN Cardinality(A) - 1 ELSE Cardinality(A)
    BY <1>1, FS_CardinalityType, FS_RemoveElement
  <1>3. Cardinality(A \ {x}) <= Cardinality(B)
    BY <1>1, FS_Subset
  <1> QED
    BY <1>2, <1>3

LEMMA OneMore ==
    ASSUME NEW A \in SUBSET Thread, NEW B \in SUBSET Thread, A \subseteq B,
           NEW x \in B, x \notin A
    PROVE  Cardinality(A) + 1 <= Cardinality(B)
  <1>1. A \in SUBSET (B \ {x}) /\ IsFiniteSet(B) /\ IsFiniteSet(B \ {x})
        /\ Cardinality(B \ {x}) = Cardinality(B) - 1
    BY PortsAssumption, FS_Subset, FS_RemoveElement
  <1>2. Cardinality(A) <= Cardinality(B \ {x})
    BY <1>1, FS_Subset
  <1>3. Cardinality(A) \in Nat /\ Cardinality(B) \in Nat
    BY PortsAssumption, FS_Subset, FS_CardinalityType
  <1> QED
    BY <1>1, <1>2, <1>3

LEMMA StillComing ==
    ASSUME PInv, KInv(k'), NEW t \in Thread, NEW at, NEW q \in Port, NEW o \in PortQueue,
           t \in Coming(at, q, o), pc'[t] = pc[t], call'[t] = call[t],
           t \in stale' => t \in stale, k'.status[t] \in {k.status[t], "NONE"},
           t \in Elems(k'.queue[o]) => t \in Elems(k.queue[o])
    PROVE  t \in Coming(at, q, o)'
  <1>1. k'.waiting_on[t] # o
    BY Within, PortNames, OnQueue DEF Coming
  <1> QED
    BY <1>1 DEF Coming

\* The queues of a port that is not there are empty, and only threads sleep on any.
LEMMA SleepersAreThreads ==
    ASSUME PInv, NEW o \in PortQueue, k.queue[o] # <<>>
    PROVE  LET h == Head(k.queue[o])
           IN  /\ h \in Thread /\ h \in Elems(k.queue[o])
               /\ \A p \in Port : o = p => p \in live /\ pc[h] = "port_recv" /\ call[h].p = p
               /\ \A p \in Port : o = SendQ(p) => p \in live /\ pc[h] = "port_send"
                                                  /\ call[h].p = p
  <1> DEFINE h == Head(k.queue[o])
  <1>1. KInv(k) /\ o \in Object /\ k.queue[o] \in Seq(Task) /\ o # Limbo /\ o # NULL
    BY Within, PortNames DEF KInv, KState
  <1>2. h \in Elems(k.queue[o])
    BY <1>1, HeadOff
  <1>3. h \in Task /\ k.waiting_on[h] = o
    BY <1>1, HeadWaits
  <1>4. h \in Thread
    BY <1>1, <1>3 DEF PInv, KernelUp, Task
  <1> HIDE DEF h
  <1>5. Known(h)
    BY <1>4, AllKnown DEF PInv
  <1> QED
    BY <1>2, <1>3, <1>4, <1>5 DEF Known, h

\* A call ends: who was on the way stays on the way, but for the caller; who was
\* woken is.
LEMMA EndsComing ==
    ASSUME PInv, me \in Thread, NEW code, NEW m, Deliver(code, m), stale' = stale,
           NEW o \in PortQueue, k' = k \/ k' = WakeOne(k, o, "NONE")
    PROVE  \A at, q, r : q \in Port /\ r \in PortQueue =>
              Coming(at, q, r) \ {me} \subseteq Coming(at, q, r)'
  <1>1. /\ KInv(k')
        /\ \A p \in PortQueue : Elems(k'.queue[p]) \subseteq Elems(k.queue[p])
    BY WokenOnly
  <1>2. \A t \in Task : k'.status[t] \in {k.status[t], "NONE"}
    <2>1. KInv(k) /\ CurrentRuns(k) /\ o \in Object \ {RunQ} /\ "NONE" \in Status
      BY Within, PortNames DEF Status
    <2>2. \A t \in Task : WakeOne(k, o, "NONE").status[t] \in {k.status[t], "NONE"}
      BY <2>1, WakeFirst
    <2> QED
      BY <2>2
  <1>3. \A t \in Thread \ {me} : t \in Task /\ pc'[t] = pc[t] /\ call'[t] = call[t]
    BY PortNames DEF Deliver, PInv, TypeOK
  <1> SUFFICES ASSUME NEW at, NEW q \in Port, NEW r \in PortQueue,
                      NEW t \in Coming(at, q, r) \ {me}
               PROVE  t \in Coming(at, q, r)'
    OBVIOUS
  <1>4. t \in Thread \ {me}
    BY DEF Coming
  <1> QED
    BY <1>1, <1>2, <1>3, <1>4, StillComing

\* A call sleeps: the same.
LEMMA SleepsComing ==
    ASSUME PInv, me \in Thread, NEW o \in PortQueue, NEW at, NEW c, Block(o, at, c),
           stale' = stale
    PROVE  /\ \A p \in PortQueue \ {o} : k'.queue[p] = k.queue[p]
           /\ \A by, q, r : q \in Port /\ r \in PortQueue =>
                 Coming(by, q, r) \ {me} \subseteq Coming(by, q, r)'
  <1>1. /\ KInv(k) /\ CurrentRuns(k) /\ k.current # Idle /\ k.live_tasks # 0
        /\ me \in Task /\ o \in Object \ {RunQ, ReaperQ}
        /\ \A q \in PortQueue : q \in Object \ {RunQ}
        /\ k.queue[o] \in Seq(Task)
    BY Within, PortNames DEF PInv, KernelUp, KInv, KState
  <1>2. /\ KInv(k')
        /\ k'.queue[o] = Append(k.queue[o], me)
        /\ \A q \in PortQueue \ {o} : k'.queue[q] = k.queue[q]
        /\ \A t \in Task : k'.status[t] = IF t = me THEN "NONE" ELSE k.status[t]
    BY <1>1, WaitLast DEF Block, me
  <1>3. \A t \in Task \ {me} : t \in Elems(k'.queue[o]) => t \in Elems(k.queue[o])
    <2> DEFINE q == k.queue[o]
    <2> HIDE DEF q
    <2>1. q \in Seq(Task) /\ me \in Task /\ k'.queue[o] = Append(q, me)
      BY <1>1, <1>2 DEF q
    <2>2. /\ Len(Append(q, me)) = Len(q) + 1 /\ Append(q, me)[Len(q) + 1] = me
          /\ \A i \in 1..Len(q) : Append(q, me)[i] = q[i]
      BY <2>1
    <2>3. Elems(Append(q, me)) \subseteq Elems(q) \cup {me}
      BY <2>1, <2>2 DEF Elems
    <2> QED
      BY <2>1, <2>3 DEF q
  <1>4. \A t \in Thread \ {me} : t \in Task /\ pc'[t] = pc[t] /\ call'[t] = call[t]
    BY PortNames DEF Block, PInv, TypeOK
  <1>5. ASSUME NEW by, NEW q \in Port, NEW r \in PortQueue,
               NEW t \in Coming(by, q, r) \ {me}
        PROVE  t \in Coming(by, q, r)'
    <2>1. t \in Thread \ {me}
      BY DEF Coming
    <2>2. t \in Elems(k'.queue[r]) => t \in Elems(k.queue[r])
      BY <1>2, <1>3, <1>4, <2>1
    <2> QED
      BY <1>2, <1>4, <2>1, <2>2, StillComing
  <1> QED
    BY <1>2, <1>5

\* What is owed on one side of a port stays served if nobody left who was on the
\* way, or as many as it is less, or if nothing is owed.
LEMMA RecvStays ==
    ASSUME PassesOn, NEW q \in Port, RecvServed(q), Len(msgs[q]) \in Nat, Len(msgs'[q]) \in Nat,
           Coming("port_recv", q, q) \ {me} \subseteq Coming("port_recv", q, q)',
           \/ Len(msgs'[q]) = 0
           \/ Excused(q)'
           \/ /\ k'.queue[q] # <<>> => k.queue[q] # <<>>
              /\ \/ Len(msgs'[q]) <= Len(msgs[q]) - 1
                 \/ /\ Len(msgs'[q]) <= Len(msgs[q])
                    /\ me \notin Coming("port_recv", q, q)
    PROVE  RecvServed(q)'
  <1> DEFINE A == Coming("port_recv", q, q)
             B == Coming("port_recv", q, q)'
  <1>1. A \in SUBSET Thread /\ B \in SUBSET Thread /\ A \ {me} \subseteq B
    BY DEF Coming
  <1> HIDE DEF A, B
  <1>2. /\ Cardinality(A) \in Nat /\ Cardinality(B) \in Nat
        /\ Cardinality(A) - 1 <= Cardinality(B)
        /\ me \notin A => Cardinality(A) <= Cardinality(B)
    BY <1>1, OneLess
  <1>3. Excused(q) \/ Len(msgs[q]) <= Cardinality(A)
    BY DEF RecvServed, A
  <1>4. Excused(q) /\ (k'.queue[q] # <<>> => k.queue[q] # <<>>) => Excused(q)'
    BY DEF Excused, PassesOn
  <1>5. Excused(q)' \/ Len(msgs'[q]) <= Cardinality(B)
    BY <1>2, <1>3, <1>4 DEF A
  <1> QED
    BY <1>5 DEF RecvServed, B

LEMMA SendStays ==
    ASSUME PassesOn, NEW q \in Port, SendServed(q), Len(msgs[q]) \in Nat, Len(msgs'[q]) \in Nat,
           Coming("port_send", q, SendQ(q)) \ {me}
              \subseteq Coming("port_send", q, SendQ(q))',
           \/ Len(msgs'[q]) >= MaxMsgCount
           \/ Excused(SendQ(q))'
           \/ /\ k'.queue[SendQ(q)] # <<>> => k.queue[SendQ(q)] # <<>>
              /\ \/ Len(msgs'[q]) >= Len(msgs[q]) + 1
                 \/ /\ Len(msgs'[q]) >= Len(msgs[q])
                    /\ me \notin Coming("port_send", q, SendQ(q))
    PROVE  SendServed(q)'
  <1> DEFINE A == Coming("port_send", q, SendQ(q))
             B == Coming("port_send", q, SendQ(q))'
  <1>1. A \in SUBSET Thread /\ B \in SUBSET Thread /\ A \ {me} \subseteq B
        /\ MaxMsgCount \in Nat
    BY PortsAssumption DEF Coming
  <1> HIDE DEF A, B
  <1>2. /\ Cardinality(A) \in Nat /\ Cardinality(B) \in Nat
        /\ Cardinality(A) - 1 <= Cardinality(B)
        /\ me \notin A => Cardinality(A) <= Cardinality(B)
    BY <1>1, OneLess
  <1>3. Excused(SendQ(q)) \/ MaxMsgCount - Len(msgs[q]) <= Cardinality(A)
    BY DEF SendServed, A
  <1>4. Excused(SendQ(q)) /\ (k'.queue[SendQ(q)] # <<>> => k.queue[SendQ(q)] # <<>>)
           => Excused(SendQ(q))'
    BY DEF Excused, PassesOn, SendQ
  <1>5. Excused(SendQ(q))' \/ MaxMsgCount - Len(msgs'[q]) <= Cardinality(B)
    BY <1>1, <1>2, <1>3, <1>4 DEF A
  <1> QED
    BY <1>5 DEF SendServed, B, SendQ

\* The sleeper that is woken is on the way from then on.
LEMMA WokenComes ==
    ASSUME PInv, me \in Thread, NEW code, NEW m, Deliver(code, m), stale' = stale,
           NEW o \in PortQueue, k' = WakeOne(k, o, "NONE"), k.queue[o] # <<>>
    PROVE  LET h == Head(k.queue[o])
           IN  /\ h \in Thread /\ h # me
               /\ \A at, q : h \notin Coming(at, q, o)
               /\ \A p \in Port : o = p => h \in Coming("port_recv", p, p)'
               /\ \A p \in Port : o = SendQ(p) => h \in Coming("port_send", p, SendQ(p))'
  <1> DEFINE h == Head(k.queue[o])
  <1>1. KInv(k) /\ CurrentRuns(k) /\ o \in Object \ {RunQ} /\ "NONE" \in Status
        /\ k.waiting_on[me] = NULL /\ o # NULL
    BY Within, PortNames DEF Status
  <1>2. /\ h \in Thread /\ h \in Elems(k.queue[o]) /\ h \in Task
        /\ \A p \in Port : o = p => pc[h] = "port_recv" /\ call[h].p = p
        /\ \A p \in Port : o = SendQ(p) => pc[h] = "port_send" /\ call[h].p = p
    BY SleepersAreThreads, PortNames
  <1>3. k.waiting_on[h] = o /\ h # me /\ h \notin stale
    BY <1>1, <1>2, OnQueue, SleeperCalls
  <1>4. KInv(k') /\ k'.queue[o] = Tail(k.queue[o]) /\ k'.status[h] = "NONE"
    BY <1>1, <1>2, WakeFirst
  <1>5. k'.waiting_on[h] # o
    <2> DEFINE q == k.queue[o]
    <2>1. /\ q \in Seq(Task) /\ \A i, j \in 1..Len(q) : q[i] = q[j] => i = j
      BY <1>1 DEF KInv, KState, QueuesConsistent
    <2>2. q # <<>>
      OBVIOUS
    <2>3. h = Head(q)
      OBVIOUS
    <2> HIDE DEF q, h
    <2>4. h \notin Elems(Tail(q))
      <3>1. /\ Len(q) \in Nat \ {0} /\ Head(q) = q[1] /\ Len(Tail(q)) = Len(q) - 1
            /\ \A i \in 1..Len(q) - 1 : Tail(q)[i] = q[i + 1]
        BY <2>1, <2>2
      <3>2. \A i \in 1..Len(q) - 1 : Tail(q)[i] # q[1]
        BY <2>1, <3>1
      <3> QED
        BY <2>3, <3>1, <3>2 DEF Elems
    <2> QED
      BY <1>1, <1>2, <1>4, <2>4, OnQueue DEF q
  <1>6. pc'[h] = pc[h] /\ call'[h] = call[h]
    BY <1>2, <1>3 DEF Deliver, PInv, TypeOK
  <1> HIDE DEF h
  <1> QED
    BY <1>2, <1>3, <1>4, <1>5, <1>6 DEF Coming, h

\* A call of port_send or port_recv that runs in its loop, for p.
SendsOn(p) == pc[me] = "user" \/ (pc[me] = "port_send" /\ call[me].p = p)
RecvsOn(p) == pc[me] = "user" \/ (pc[me] = "port_recv" /\ call[me].p = p)

LEMMA Lengths ==
    ASSUME PInv
    PROVE  /\ live \subseteq Port /\ msgs \in [Port -> Seq(Message)]
           /\ \A q \in Port : Len(msgs[q]) \in Nat /\ Len(msgs[q]) <= MaxMsgCount
           /\ MaxMsgCount \in Nat
  BY PortsAssumption DEF PInv, TypeOK, PortBounded

\* A call that ends and leaves the messages: nobody is woken, and if the caller was
\* counted, its side of the port has nothing to do or was passed by.
LEMMA EndServes ==
    ASSUME FInv, me \in Thread, NEW code, Return(code), UNCHANGED <<k, live, msgs, stale>>,
           PassesOn, NEW p \in Port,
           \/ SendsOn(p) /\ Len(msgs[p]) >= MaxMsgCount
           \/ SendsOn(p) /\ Excused(SendQ(p))'
           \/ RecvsOn(p) /\ Len(msgs[p]) = 0
           \/ k.status[me] # "NONE"
           \/ pc[me] = "user"
    PROVE  AllServed'
  <1>1. PInv /\ AllServed /\ Deliver(code, NULL) /\ p \in PortQueue
        /\ live \subseteq Port /\ \A q \in Port : Len(msgs[q]) \in Nat
    BY Lengths, PortNames DEF FInv, AllServed, Return
  <1>2. \A at, q, r : q \in Port /\ r \in PortQueue =>
              Coming(at, q, r) \ {me} \subseteq Coming(at, q, r)'
    BY <1>1, EndsComing
  <1>3. ASSUME NEW q \in live
        PROVE  RecvServed(q)' /\ SendServed(q)'
    <2>1. RecvServed(q) /\ SendServed(q) /\ q \in Port /\ q \in PortQueue
          /\ SendQ(q) \in PortQueue
      BY <1>1, PortNames DEF AllServed
    <2>2. Len(msgs'[q]) = 0 \/ me \notin Coming("port_recv", q, q)
      BY DEF Coming, SendsOn, RecvsOn
    <2>3. \/ Len(msgs'[q]) >= MaxMsgCount
          \/ Excused(SendQ(q))'
          \/ me \notin Coming("port_send", q, SendQ(q))
      BY DEF Coming, SendsOn, RecvsOn
    <2>4. RecvServed(q)'
      BY <1>1, <1>2, <2>1, <2>2, RecvStays
    <2>5. SendServed(q)'
      BY <1>1, <1>2, <2>1, <2>3, SendStays
    <2> QED
      BY <2>4, <2>5
  <1> QED
    BY <1>3 DEF AllServed

\* A call that sleeps has found nothing to do.
LEMMA SleepServes ==
    ASSUME FInv, me \in Thread, NEW p \in live, NEW o \in PortQueue, NEW at, NEW c,
           Block(o, at, c), UNCHANGED <<live, stale>>,
           \/ o = SendQ(p) /\ SendsOn(p) /\ Len(msgs[p]) >= MaxMsgCount
           \/ o = p /\ RecvsOn(p) /\ Len(msgs[p]) = 0
    PROVE  AllServed'
  <1>1. PInv /\ AllServed /\ msgs' = msgs /\ PassesOn
        /\ live \subseteq Port /\ \A q \in Port : Len(msgs[q]) \in Nat
    BY Lengths, Passes DEF FInv, Block
  <1>2. /\ \A q \in PortQueue \ {o} : k'.queue[q] = k.queue[q]
        /\ \A by, q, r : q \in Port /\ r \in PortQueue =>
              Coming(by, q, r) \ {me} \subseteq Coming(by, q, r)'
    BY <1>1, SleepsComing
  <1>3. ASSUME NEW q \in live
        PROVE  RecvServed(q)' /\ SendServed(q)'
    <2>1. RecvServed(q) /\ SendServed(q) /\ q \in Port /\ q \in PortQueue
          /\ SendQ(q) \in PortQueue
      BY <1>1, PortNames DEF AllServed
    <2>2. \/ Len(msgs'[q]) = 0
          \/ q # o /\ me \notin Coming("port_recv", q, q)
      BY <1>1, <2>1, PortNames DEF Coming, SendsOn, RecvsOn
    <2>3. \/ Len(msgs'[q]) >= MaxMsgCount
          \/ SendQ(q) # o /\ me \notin Coming("port_send", q, SendQ(q))
      BY <1>1, <2>1, PortNames DEF Coming, SendsOn, RecvsOn
    <2>4. RecvServed(q)'
      BY <1>1, <1>2, <2>1, <2>2, RecvStays
    <2>5. SendServed(q)'
      BY <1>1, <1>2, <2>1, <2>3, SendStays
    <2> QED
      BY <2>4, <2>5
  <1> QED
    BY <1>3 DEF AllServed

\* A message is put: its receiver, if one sleeps, is on the way, or its receivers were
\* passed by; the place the sender came for is taken.
LEMMA PutServes ==
    ASSUME FInv, me \in Thread, NEW p \in live, NEW m \in Message, SendsOn(p),
           msgs' = [msgs EXCEPT ![p] = Append(@, m)],
           NEW o \in Port, k' = WakeOne(k, o, "NONE"), o = p \/ Excused(p)', PassesOn,
           Return("SENT"), UNCHANGED <<live, stale>>
    PROVE  AllServed'
  <1>1. PInv /\ AllServed /\ Deliver("SENT", NULL) /\ live \subseteq Port
        /\ \A q \in Port : Len(msgs[q]) \in Nat
    BY Lengths DEF FInv, Return
  <1>2. /\ o \in PortQueue /\ p \in PortQueue /\ SendQ(p) \in PortQueue
        /\ \A q \in PortQueue : q \in Object \ {RunQ}
        /\ KInv(k) /\ CurrentRuns(k) /\ "NONE" \in Status
    BY <1>1, PortNames, Within DEF Status
  <1>3. \A at, q, r : q \in Port /\ r \in PortQueue =>
              Coming(at, q, r) \ {me} \subseteq Coming(at, q, r)'
    BY <1>1, <1>2, EndsComing
  <1>4. \A q \in PortQueue : k'.queue[q] # <<>> => k.queue[q] # <<>>
    <2>1. /\ k'.queue[o] = IF k.queue[o] = <<>> THEN <<>> ELSE Tail(k.queue[o])
          /\ \A q \in PortQueue \ {o} : k'.queue[q] = k.queue[q]
      BY <1>2, WakeFirst
    <2> QED
      BY <2>1
  <1>5. /\ Len(msgs'[p]) = Len(msgs[p]) + 1
        /\ \A q \in Port \ {p} : msgs'[q] = msgs[q]
    <2>1. msgs \in [Port -> Seq(Message)] /\ msgs[p] \in Seq(Message)
      BY <1>1, Lengths
    <2>2. msgs'[p] = Append(msgs[p], m) /\ \A q \in Port \ {p} : msgs'[q] = msgs[q]
      BY <1>1, <2>1
    <2> QED
      BY <2>1, <2>2
  <1>6. RecvServed(p)'
    <2>1. CASE Excused(p)'
      BY <2>1 DEF RecvServed
    <2>2. CASE ~Excused(p)'
      <3> DEFINE A == Coming("port_recv", p, p)
                 B == Coming("port_recv", p, p)'
                 h == Head(k.queue[p])
      <3>1. o = p /\ k.queue[p] # <<>> /\ ~Excused(p)
        BY <1>2, <1>4, <2>2 DEF Excused, PassesOn
      <3>2. h \in B /\ h \notin A
        BY <1>1, <1>2, <3>1, WokenComes
      <3>3. A \in SUBSET Thread /\ B \in SUBSET Thread /\ A \subseteq B
        BY <1>1, <1>2, <1>3 DEF Coming, SendsOn
      <3> HIDE DEF A, B, h
      <3>4. Cardinality(A) + 1 <= Cardinality(B)
        BY <3>2, <3>3, OneMore
      <3>5. Cardinality(A) \in Nat /\ Cardinality(B) \in Nat
        BY <3>3, OneLess
      <3>6. Len(msgs[p]) <= Cardinality(A)
        BY <1>1, <3>1 DEF AllServed, RecvServed, A
      <3>7. Len(msgs'[p]) <= Cardinality(B)
        BY <1>1, <1>5, <3>4, <3>5, <3>6
      <3> QED
        BY <3>7 DEF RecvServed, B
    <2> QED
      BY <2>1, <2>2
  <1>7. SendServed(p)'
    BY <1>1, <1>2, <1>3, <1>4, <1>5, SendStays DEF AllServed
  <1>8. ASSUME NEW q \in live, q # p
        PROVE  RecvServed(q)' /\ SendServed(q)'
    <2>1. /\ RecvServed(q) /\ SendServed(q) /\ q \in Port /\ msgs'[q] = msgs[q]
          /\ q \in PortQueue /\ SendQ(q) \in PortQueue
      BY <1>1, <1>5, <1>8, PortNames DEF AllServed
    <2>2. /\ me \notin Coming("port_recv", q, q)
          /\ me \notin Coming("port_send", q, SendQ(q))
      BY <1>8 DEF Coming, SendsOn
    <2>3. /\ Len(msgs[q]) \in Nat /\ Len(msgs'[q]) \in Nat
          /\ Len(msgs'[q]) <= Len(msgs[q])
      BY ONLY <1>1, <2>1
    <2>4. k'.queue[q] # <<>> => k.queue[q] # <<>>
      BY <1>4, <2>1
    <2>5. Coming("port_recv", q, q) \ {me} \subseteq Coming("port_recv", q, q)'
      BY <1>3, <2>1
    <2>6. RecvServed(q)'
      BY <2>1, <2>2, <2>3, <2>4, <2>5, RecvStays
    <2>7. SendServed(q)'
      BY <1>1, <1>3, <1>4, <2>1, <2>2, SendStays
    <2> QED
      BY <2>6, <2>7
  <1> QED
    BY <1>6, <1>7, <1>8 DEF AllServed

\* A message is taken: the place it leaves has a sender on the way, if one sleeps.
LEMMA TakeServes ==
    ASSUME FInv, me \in Thread, NEW p \in live, RecvsOn(p), msgs[p] # <<>>,
           msgs' = [msgs EXCEPT ![p] = Tail(@)], k' = WakeOne(k, SendQ(p), "NONE"),
           NEW m, Deliver("RECEIVED", m), UNCHANGED <<live, stale>>, PassesOn
    PROVE  AllServed'
  <1> DEFINE o == SendQ(p)
  <1>1. PInv /\ AllServed /\ live \subseteq Port /\ MaxMsgCount \in Nat
        /\ \A q \in Port : Len(msgs[q]) \in Nat
    BY Lengths DEF FInv, AllServed
  <1>2. /\ p \in PortQueue /\ o \in PortQueue /\ p # o
        /\ \A q \in PortQueue : q \in Object \ {RunQ}
        /\ KInv(k) /\ CurrentRuns(k) /\ "NONE" \in Status
    BY <1>1, PortNames, Within DEF Status
  <1>3. \A at, q, r : q \in Port /\ r \in PortQueue =>
              Coming(at, q, r) \ {me} \subseteq Coming(at, q, r)'
    BY <1>1, <1>2, EndsComing
  <1>4. /\ k'.queue[o] = IF k.queue[o] = <<>> THEN <<>> ELSE Tail(k.queue[o])
        /\ \A q \in PortQueue \ {o} : k'.queue[q] = k.queue[q]
    BY <1>2, WakeFirst
  <1>5. /\ Len(msgs'[p]) = Len(msgs[p]) - 1 /\ Len(msgs'[p]) \in Nat
        /\ \A q \in Port \ {p} : msgs'[q] = msgs[q]
    <2>1. msgs \in [Port -> Seq(Message)] /\ msgs[p] \in Seq(Message)
      BY <1>1, Lengths
    <2>2. msgs'[p] = Tail(msgs[p]) /\ \A q \in Port \ {p} : msgs'[q] = msgs[q]
      BY <1>1, <2>1
    <2>3. Len(Tail(msgs[p])) = Len(msgs[p]) - 1 /\ Len(Tail(msgs[p])) \in Nat
      BY <2>1
    <2> QED
      BY <2>2, <2>3
  <1>6. SendServed(p)'
    <2>1. CASE Excused(o)'
      BY <2>1 DEF SendServed, SendQ
    <2>2. CASE ~Excused(o)'
      <3> DEFINE A == Coming("port_send", p, o)
                 B == Coming("port_send", p, o)'
                 h == Head(k.queue[o])
      <3>0. k.queue[o] # <<>> /\ ~Excused(o)
        BY <1>2, <1>4, <2>2 DEF Excused, PassesOn, SendQ
      <3>1. h \in B /\ h \notin A
        BY <1>1, <1>2, <3>0, WokenComes
      <3>2. A \in SUBSET Thread /\ B \in SUBSET Thread /\ A \subseteq B
        <4>1. A \ {me} \subseteq B
          BY <1>1, <1>2, <1>3
        <4>2. A \in SUBSET Thread /\ B \in SUBSET Thread /\ me \notin A
          BY DEF Coming, RecvsOn
        <4> HIDE DEF A, B
        <4> QED
          BY <4>1, <4>2
      <3>3. MaxMsgCount - Len(msgs[p]) <= Cardinality(A)
        BY <1>1, <3>0 DEF AllServed, SendServed
      <3> HIDE DEF A, B, h
      <3>4. Cardinality(A) + 1 <= Cardinality(B)
        BY <3>1, <3>2, OneMore
      <3>5. Cardinality(A) \in Nat /\ Cardinality(B) \in Nat
        BY <3>2, OneLess
      <3>6. MaxMsgCount - Len(msgs'[p]) <= Cardinality(B)
        BY <1>1, <1>5, <3>3, <3>4, <3>5
      <3> QED
        BY <3>6 DEF SendServed, B, SendQ
    <2> QED
      BY <2>1, <2>2
  <1>7. RecvServed(p)'
    BY <1>1, <1>2, <1>3, <1>4, <1>5, RecvStays DEF AllServed
  <1>8. ASSUME NEW q \in live, q # p
        PROVE  RecvServed(q)' /\ SendServed(q)'
    <2>1. /\ RecvServed(q) /\ SendServed(q) /\ q \in Port /\ msgs'[q] = msgs[q]
          /\ q \in PortQueue \ {o} /\ SendQ(q) \in PortQueue \ {o}
      BY <1>1, <1>5, <1>8, PortNames DEF AllServed
    <2>2. /\ me \notin Coming("port_recv", q, q)
          /\ me \notin Coming("port_send", q, SendQ(q))
      BY <1>8 DEF Coming, RecvsOn
    <2>3. RecvServed(q)'
      BY <1>1, <1>3, <1>4, <2>1, <2>2, RecvStays
    <2>4. SendServed(q)'
      BY <1>1, <1>3, <1>4, <2>1, <2>2, SendStays
    <2> QED
      BY <2>3, <2>4
  <1> QED
    BY <1>6, <1>7, <1>8 DEF AllServed

LEMMA SendLoopServes ==
    ASSUME FInv, NEW p, NEW m \in Message, NEW fits, InCall(p), SendsOn(p),
           SendLoop(p, m, fits)
    PROVE  AllServed'
  <1>1. /\ PInv /\ me \in Thread /\ p \in live /\ p \in Port
        /\ UNCHANGED <<live, stale>>
        /\ p \in PortQueue /\ SendQ(p) \in PortQueue
        /\ slaved[p] \in Port \cup {NULL}
    BY PortNames DEF InCall, PInv, TypeOK, FInv
  <1>2. PassesOn
    BY <1>1, SendPasses
  <1>3. CASE Len(msgs[p]) >= MaxMsgCount
    BY <1>1, <1>2, <1>3, EndServes, SleepServes DEF SendLoop
  <1>4. CASE ~(Len(msgs[p]) >= MaxMsgCount) /\ ~fits
    <2>1. Return("MEMORY") /\ UNCHANGED <<k, msgs>>
      BY <1>4 DEF SendLoop
    <2>2. pc[me] = "port_send" => Excused(SendQ(p))'
      <3>1. ASSUME pc[me] = "port_send"
            PROVE  PassedBy({SendQ(p)})
        BY <1>4, <3>1 DEF SendLoop
      <3>2. {SendQ(p)} \in SUBSET PortQueue
        BY <1>1
      <3> QED
        BY <1>1, <3>1, <3>2, Passes
    <2>3. pc[me] = "user" \/ (SendsOn(p) /\ Excused(SendQ(p))')
      BY <2>2 DEF SendsOn
    <2> QED
      BY <1>1, <1>2, <2>1, <2>3, EndServes
  <1>5. CASE ~(Len(msgs[p]) >= MaxMsgCount) /\ fits
    <2> DEFINE o == IF slaved[p] # NULL THEN slaved[p] ELSE p
    <2>1. /\ msgs' = [msgs EXCEPT ![p] = Append(@, m)]
          /\ k' = WakeOne(k, o, "NONE") /\ Return("SENT") /\ o \in Port
      BY <1>1, <1>5 DEF SendLoop
    <2>2. o = p \/ Excused(p)'
      <3>1. ASSUME slaved[p] \notin {NULL, p}
            PROVE  PassedBy({p})
        BY <1>5, <3>1 DEF SendLoop
      <3>2. {p} \in SUBSET PortQueue
        BY <1>1
      <3> QED
        BY <1>1, <3>1, <3>2, Passes
    <2> HIDE DEF o
    <2> QED
      BY <1>1, <1>2, <2>1, <2>2, PutServes
  <1> QED
    BY <1>3, <1>4, <1>5

LEMMA RecvLoopServes ==
    ASSUME FInv, NEW p, InCall(p), RecvsOn(p), RecvLoop(p)
    PROVE  AllServed'
  <1>1. /\ me \in Thread /\ p \in live /\ p \in Port /\ UNCHANGED <<live, stale>>
        /\ p \in PortQueue /\ PassesOn
    BY PortNames, RecvPasses DEF InCall, PInv, TypeOK, FInv
  <1>2. CASE msgs[p] = <<>>
    <2>1. Len(msgs[p]) = 0
      BY <1>2
    <2> QED
      BY <1>1, <1>2, <2>1, EndServes, SleepServes DEF RecvLoop
  <1>3. CASE msgs[p] # <<>>
    BY <1>1, <1>3, TakeServes DEF RecvLoop
  <1> QED
    BY <1>2, <1>3

\* Nobody who matters to a port that is there moves.
LEMMA OthersServe ==
    ASSUME PInv, KInv(k'), AllServed, PassesOn, live' \subseteq Port,
           UNCHANGED <<pc, call>>,
           NEW q \in live', q \in live, msgs'[q] = msgs[q],
           k'.queue[q] = k.queue[q], k'.queue[SendQ(q)] = k.queue[SendQ(q)],
           \A t \in Thread : call[t].p = q => /\ k'.status[t] = k.status[t]
                                              /\ t \in stale' <=> t \in stale
    PROVE  RecvServed(q)' /\ SendServed(q)'
  <1>1. q \in Port /\ q \in PortQueue /\ SendQ(q) \in PortQueue
    BY PortNames
  <1>2. \A t \in Thread, o \in {q, SendQ(q)} :
            k'.waiting_on[t] = o <=> k.waiting_on[t] = o
    BY <1>1, Within, PortNames, OnQueue
  <1>3. Coming("port_recv", q, q)' = Coming("port_recv", q, q)
    BY <1>1, <1>2 DEF Coming
  <1>4. Coming("port_send", q, SendQ(q))' = Coming("port_send", q, SendQ(q))
    BY <1>1, <1>2 DEF Coming, SendQ
  <1>5. /\ Excused(q) => Excused(q)'
        /\ Excused(SendQ(q)) => Excused(SendQ(q))'
    BY DEF Excused, PassesOn, SendQ
  <1>6. RecvServed(q)'
    BY <1>3, <1>5 DEF AllServed, RecvServed
  <1>7. SendServed(q)'
    BY <1>4, <1>5 DEF AllServed, SendServed, SendQ
  <1> QED
    BY <1>6, <1>7

LEMMA CreateServes ==
    ASSUME FInv, NEW p \in Port, PortCreate(p)
    PROVE  AllServed'
  <1>1. /\ PInv /\ AllServed /\ live \subseteq Port /\ KInv(k') /\ k' = k
        /\ live' = live \cup {p} /\ p \notin live
        /\ UNCHANGED <<pc, call, msgs, stale>>
        /\ \A q \in Port : Len(msgs[q]) \in Nat
        /\ PassesOn
    BY Lengths, Within, PassedStays DEF FInv, PortCreate
  <1>2. ASSUME NEW q \in live', q # p
        PROVE  RecvServed(q)' /\ SendServed(q)'
    <2>1. q \in live /\ live' \subseteq Port
      BY <1>1, <1>2
    <2> QED
      BY <1>1, <2>1, OthersServe
  <1>3. k'.queue[p] = <<>> /\ k'.queue[SendQ(p)] = <<>>
    BY <1>1, SleepersAreThreads, PortNames
  <1>4. RecvServed(p)' /\ SendServed(p)'
    BY <1>3 DEF RecvServed, SendServed, SendQ, Excused
  <1> QED
    BY <1>1, <1>2, <1>4 DEF AllServed

LEMMA DestroyServes ==
    ASSUME FInv, NEW p \in Port, PortDestroy(p)
    PROVE  AllServed'
  <1> DEFINE Left == Elems(k.queue[p]) \cup Elems(k.queue[SendQ(p)])
  <1>1. /\ PInv /\ AllServed /\ live \subseteq Port /\ live' = live \ {p}
        /\ UNCHANGED <<pc, call>> /\ msgs' = [msgs EXCEPT ![p] = <<>>]
        /\ stale' = stale \cup {t \in Thread : call[t].p = p /\ k'.status[t] = "NONE"}
        /\ p \in PortQueue /\ SendQ(p) \in PortQueue /\ msgs \in [Port -> Seq(Message)]
        /\ PassesOn
    BY Lengths, PortNames, Passes DEF FInv, PortDestroy
  <1>2. /\ KInv(k')
        /\ \A o \in PortQueue \ {p, SendQ(p)} : k'.queue[o] = k.queue[o]
        /\ \A t \in Task : k'.status[t] = IF t \in Left THEN "RESOURCE" ELSE k.status[t]
    BY <1>1, BothReleased DEF PortDestroy
  <1>3. ASSUME NEW t \in Thread, t \in Left
        PROVE  call[t].p = p
    <2>1. KInv(k) /\ p \in Object /\ SendQ(p) \in Object /\ t \in Task
      BY <1>1, Within, PortNames
    <2>2. k.waiting_on[t] = p \/ k.waiting_on[t] = SendQ(p)
      BY <1>3, <2>1, OnQueue
    <2> QED
      BY <1>1, <2>2 DEF PInv, SleepersKnown
  <1> HIDE DEF Left
  <1>4. ASSUME NEW q \in live'
        PROVE  RecvServed(q)' /\ SendServed(q)'
    <2>1. /\ q \in live /\ q # p /\ msgs'[q] = msgs[q] /\ live' \subseteq Port
          /\ q \in PortQueue \ {p, SendQ(p)} /\ SendQ(q) \in PortQueue \ {p, SendQ(p)}
      BY <1>1, PortNames
    <2>2. \A t \in Thread : call[t].p = q => /\ k'.status[t] = k.status[t]
                                             /\ t \in stale' <=> t \in stale
      BY <1>1, <1>2, <1>3, <2>1, PortNames
    <2> QED
      BY <1>1, <1>2, <2>1, <2>2, OthersServe
  <1> QED
    BY <1>4 DEF AllServed

LEMMA StaysServed ==
    ASSUME FInv, [Next]_vars
    PROVE  AllServed'
  <1>1. PInv /\ AllServed /\ live \subseteq Port /\ KInv(k)
    BY Lengths, Within DEF FInv, AllServed
  <1>2. CASE PortCall
    <2> PICK p \in Port :
            \/ PortCreate(p) \/ PortDestroy(p)
            \/ p \in Slave /\ \E master \in Master \cup {NULL} : PortSlave(p, master)
            \/ \E arg \in Nowaits : PortNowait(p, arg)
            \/ \E src \in Port, fits \in Fits : PortSend(src, p, fits)
            \/ PortRecv(p)
      BY <1>2 DEF PortCall
    <2>1. ASSUME NEW arg, PortNowait(p, arg)
          PROVE  AllServed'
      <3>1. PassesOn
        BY <1>1, <2>1, PassedStays DEF PortNowait
      <3> QED
        BY <1>1, <2>1, <3>1, OthersServe DEF PortNowait, AllServed
    <2>4. ASSUME NEW master, PortSlave(p, master)
          PROVE  AllServed'
      <3>1. PassesOn
        BY <1>1, <2>4, PassedStays DEF PortSlave
      <3> QED
        BY <1>1, <2>4, <3>1, OthersServe DEF PortSlave, AllServed
    <2>2. ASSUME NEW src \in Port, NEW fits \in Fits, PortSend(src, p, fits)
          PROVE  AllServed'
      <3> DEFINE m == [from |-> src, to |-> p]
                 q == IF slaved[p] # NULL THEN slaved[p] ELSE p
      <3>1. /\ me \in Thread /\ me \notin stale /\ m \in Message
            /\ UNCHANGED <<live, owner, slaved, refcount, nowait, stale>>
            /\ pc[me] = "user"
        BY <1>1, <2>2, RunnerFresh DEF PortSend, Message, InUser
      <3>2. CASE \E error : Return(error) /\ UNCHANGED <<k, msgs, passed>>
        BY <1>1, <3>1, <3>2, PassedStays, EndServes
      <3>3. CASE q \in live /\ SendLoop(q, m, fits)
        BY <1>1, <3>1, <3>3, SendLoopServes DEF InCall, SendsOn
      <3> QED
        BY <2>2, <3>1, <3>2, <3>3 DEF PortSend
    <2>3. CASE PortRecv(p)
      <3>1. /\ me \in Thread /\ me \notin stale /\ pc[me] = "user"
            /\ UNCHANGED <<live, owner, slaved, refcount, nowait, stale>>
        BY <1>1, <2>3, RunnerFresh DEF PortRecv, InUser
      <3>2. CASE Return("RECVPORT") /\ UNCHANGED <<k, msgs, passed>>
        BY <1>1, <3>1, <3>2, PassedStays, EndServes
      <3>3. CASE p \in live /\ RecvLoop(p)
        BY <1>1, <3>1, <3>3, RecvLoopServes DEF InCall, RecvsOn
      <3> QED
        BY <2>3, <3>2, <3>3 DEF PortRecv
    <2> QED
      BY <2>1, <2>2, <2>3, <2>4, CreateServes, DestroyServes
  <1>3. CASE Resume
    <2>1. ASSUME NEW at \in {"port_send", "port_recv"}, Resumes(at), NEW L, Comeback(L),
                 ~(k.status[me] = "NONE" /\ me \notin stale)
          PROVE  AllServed'
      <3>1. me \in Thread /\ call[me].p \in Port /\ UNCHANGED <<live, msgs, stale>>
            /\ PassesOn
        BY <1>1, <2>1, Comes, PassedStays DEF Comeback
      <3>2. CASE k.status[me] # "NONE"
        <4>1. Return(k.status[me]) /\ UNCHANGED k
          BY <2>1, <3>2 DEF Comeback
        <4> QED
          BY <3>1, <3>2, <4>1, EndServes
      <3>3. CASE k.status[me] = "NONE"
        <4>1. k' = [k EXCEPT !.stop = "wild"] /\ UNCHANGED <<pc, call>>
          BY <2>1, <3>3 DEF Comeback
        <4>2. KInv(k') /\ k'.status = k.status /\ k'.queue = k.queue
          BY <1>1, <4>1, Within, WildMoves DEF Moves
        <4> QED
          BY <1>1, <3>1, <4>1, <4>2, OthersServe DEF AllServed
      <3> QED
        BY <3>2, <3>3
    <2>2. CASE PortSendResume
      <3>1. Resumes("port_send")
            /\ Comeback(SendLoop(call[me].p, call[me].m, call[me].fits))
        BY <2>2 DEF PortSendResume
      <3>2. CASE k.status[me] = "NONE" /\ me \notin stale
        <4>1. InCall(call[me].p) /\ SendLoop(call[me].p, call[me].m, call[me].fits)
          BY <1>1, <3>1, <3>2, Comes DEF Comeback, InCall
        <4>2. call[me].m \in Message /\ SendsOn(call[me].p)
          BY <1>1, <3>1, Comes DEF SendsOn, Resumes
        <4> QED
          BY <4>1, <4>2, SendLoopServes
      <3> QED
        BY <2>1, <3>1, <3>2
    <2>3. CASE PortRecvResume
      <3>1. Resumes("port_recv") /\ Comeback(RecvLoop(call[me].p))
        BY <2>3 DEF PortRecvResume
      <3>2. CASE k.status[me] = "NONE" /\ me \notin stale
        <4>1. InCall(call[me].p) /\ RecvLoop(call[me].p) /\ RecvsOn(call[me].p)
          BY <1>1, <3>1, <3>2, Comes DEF Comeback, InCall, RecvsOn, Resumes
        <4> QED
          BY <4>1, RecvLoopServes
      <3> QED
        BY <2>1, <3>1, <3>2
    <2> QED
      BY <1>3, <2>2, <2>3 DEF Resume
  <1>4. CASE Tick
    <2>1. /\ KInv(k') /\ k'.status = k.status
          /\ \A o \in PortQueue : k'.queue[o] = k.queue[o]
          /\ UNCHANGED <<live, msgs, pc, call, stale>> /\ PassesOn
      BY <1>1, <1>4, Within, SwtchMoves, PassedStays DEF Tick, Moves, PInv, KernelUp
    <2>2. ASSUME NEW q \in live'
          PROVE  RecvServed(q)' /\ SendServed(q)'
      <3>1. q \in PortQueue /\ SendQ(q) \in PortQueue /\ q \in live
        BY <1>1, <2>1, PortNames
      <3> QED
        BY <1>1, <2>1, <3>1, OthersServe
    <2> QED
      BY <2>2 DEF AllServed
  <1>5. CASE UNCHANGED vars
    <2>1. PassesOn
      BY <1>1, <1>5, PassedStays DEF vars
    <2> QED
      BY <1>1, <1>5, <2>1, OthersServe DEF vars, AllServed
  <1> QED
    BY <1>2, <1>3, <1>4, <1>5 DEF Next, Stopped

\* Whatever programs send, and whichever ports they slave: for every message that
\* waits a receiver is on its way, for every free place a sender, as long as any
\* sleeps that was not passed by.
THEOREM NobodyIsForgotten == Spec => []NobodyForgotten
  <1>1. Init => FInv
    <2> SUFFICES ASSUME Init PROVE FInv
      OBVIOUS
    <2> QED
      BY InitHolds DEF Init, FInv, AllServed
  <1>2. FInv /\ [Next]_vars => FInv'
    BY StepHolds, StaysServed DEF FInv
  <1>3. FInv => NobodyForgotten
    <2> SUFFICES ASSUME FInv PROVE NobodyForgotten
      OBVIOUS
    <2>1. \A q \in Port : Len(msgs[q]) \in Nat /\ MaxMsgCount \in Nat
      BY Lengths DEF FInv
    <2>2. ASSUME NEW p \in live, NEW at, NEW o
          PROVE  /\ Cardinality(Coming(at, p, o)) <= Cardinality(Woken(at, p, o))
                 /\ Cardinality(Coming(at, p, o)) \in Nat
                 /\ Cardinality(Woken(at, p, o)) \in Nat
      <3>1. Coming(at, p, o) \in SUBSET Woken(at, p, o)
            /\ Woken(at, p, o) \in SUBSET Thread
        BY DEF Coming, Woken
      <3> QED
        BY <3>1, PortsAssumption, FS_Subset, FS_CardinalityType
    <2>3. ASSUME NEW p \in live, k.queue[p] # <<>>, p \notin passed
          PROVE  Len(msgs[p]) <= Cardinality(Woken("port_recv", p, p))
      <3>1. Len(msgs[p]) <= Cardinality(Coming("port_recv", p, p)) /\ p \in Port
        BY <2>3 DEF FInv, AllServed, RecvServed, Excused, PInv, TypeOK
      <3> QED
        BY <2>1, <2>2, <3>1
    <2>4. ASSUME NEW p \in live, k.queue[SendQ(p)] # <<>>, SendQ(p) \notin passed
          PROVE  MaxMsgCount - Len(msgs[p]) <= Cardinality(Woken("port_send", p, SendQ(p)))
      <3>1. MaxMsgCount - Len(msgs[p]) <= Cardinality(Coming("port_send", p, SendQ(p)))
            /\ p \in Port
        BY <2>4 DEF FInv, AllServed, SendServed, Excused, PInv, TypeOK
      <3> QED
        BY <2>1, <2>2, <3>1
    <2> QED
      BY <2>3, <2>4 DEF NobodyForgotten, NoReceiverForgotten, NoSenderForgotten
  <1> QED
    BY <1>1, <1>2, <1>3, PTL DEF Spec
=============================================================================
