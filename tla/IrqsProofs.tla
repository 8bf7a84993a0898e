----------------------------- MODULE IrqsProofs -----------------------------
(***************************************************************************)
(* Device interrupts, for any number of threads and any use of irqs 1 to 7: *)
(* no thread and no interrupt is lost, and every interrupt in service has   *)
(* exactly one task to end it.                                              *)
(*                                                                         *)
(* The scheduler knows nothing of SLEEP_IRQ: a thread in os_sleep_irq is on *)
(* no queue, and only preempt brings it back.  That it can, rests on what   *)
(* irq and map say of each other.                                           *)
(***************************************************************************)
EXTENDS Irqs, SchedProofs, FiniteSetTheorems

\* What os_handle_irq wrote: a thread is in the map for what it asked for only,
\* and the only one that asks is.
IrqsKnown ==
    /\ \A t \in Thread : irq[t] # 0 =>
          irq[t] \in Drives[t] /\ (OwnIrq(t, irq[t]) => map[irq[t]] = t)
    /\ \A n \in Irq : map[n] # NULL => n \in Drives[map[n]]

\* A system with threads does not stop.
Lives == k.stop = "no" /\ k.live_tasks # 0

DInv == DriversKept /\ IrqsKnown /\ Lives

-----------------------------------------------------------------------------
(* The scheduler and those that sleep for an interrupt.                     *)

LEMMA IrqNames ==
    /\ Thread \subseteq Task /\ Reaper \in Task /\ Idle \in Task
    /\ Reaper # Idle /\ Reaper \notin Thread /\ Idle \notin Thread
    /\ RunQ \in Object /\ ReaperQ \in Object /\ NULL \notin Object /\ RunQ # ReaperQ
    /\ Irq \subseteq 1..7
    /\ \A t \in Thread : Drives[t] \subseteq Irq
  BY SchedAssumption, IrqsAssumption DEF Task, Object

\* What swtch does to a state in which the running task goes on, or sleeps for an
\* interrupt: somebody runs, and everybody else sleeps as before.
LEMMA SwtchSleeps ==
    ASSUME NEW s, KInv(s), s.waiting_on[s.current] = NULL, s.live_tasks # 0,
           s.flags[s.current] \in {"RUNNING", "SLEEP_IRQ"}
    PROVE  LET r == Swtch(s)
           IN  /\ KInv(r) /\ CurrentRuns(r)
               /\ r.stop = s.stop /\ r.live_tasks = s.live_tasks
               /\ \A t \in Thread : r.flags[t] = "SLEEP_IRQ" <=> s.flags[t] = "SLEEP_IRQ"
               /\ \A t \in Thread :
                     t = r.current \/ r.waiting_on[t] # NULL <=>
                     \/ s.waiting_on[t] # NULL
                     \/ t = s.current /\ s.flags[t] = "RUNNING"
  <1> DEFINE c == s.current
             r == Requeue(s)
             x == Swtch(s)
  <1>1. s \in KState /\ c \in Task /\ RunQ \in Object /\ NULL \notin Object
    BY IrqNames DEF KInv, KState
  <1>2. CASE s.queue[RunQ] = <<>> /\ s.flags[c] = "RUNNING"
    <2>1. x = s
      BY <1>2 DEF Swtch
    <2>2. CurrentRuns(s)
      BY <1>2 DEF CurrentRuns
    <2> QED
      BY <1>2, <2>1, <2>2
  <1>3. CASE ~(s.queue[RunQ] = <<>> /\ s.flags[c] = "RUNNING")
    <2>1. x = IF r.queue[RunQ] # <<>>
              THEN Run(RsrcDequeue(r, RunQ), Head(r.queue[RunQ]))
              ELSE IF r.live_tasks # 0
                   THEN Run(r, Idle)
                   ELSE [r EXCEPT !.stop = "exit"]
      BY <1>3 DEF Swtch
    <2>2. /\ KInv(r) /\ r \in KState /\ r.stop = s.stop /\ r.live_tasks = s.live_tasks
          /\ \A t \in Thread : r.flags[t] = "SLEEP_IRQ" <=> s.flags[t] = "SLEEP_IRQ"
          /\ \A t \in Thread : r.waiting_on[t] # NULL <=>
                \/ s.waiting_on[t] # NULL
                \/ t = c /\ s.flags[t] = "RUNNING"
      <3>1. CASE s.flags[c] = "RUNNING" /\ c # Idle
        <4>1. r = RsrcEnqueue(s, RunQ, c)
          BY <3>1 DEF Requeue
        <4>2. KInv(r) /\ r \in KState
          BY <1>1, <3>1, <4>1, EnqueueInv, IrqNames DEF KInv
        <4>3. /\ r.waiting_on[c] = RunQ /\ r.flags[c] = "WAITING"
              /\ \A u \in Task \ {c} : r.waiting_on[u] = s.waiting_on[u]
                                      /\ r.flags[u] = s.flags[u]
              /\ r.live_tasks = s.live_tasks /\ r.stop = s.stop
          BY <1>1, <4>1, EnqueueMoves
        <4> HIDE DEF r
        <4> QED
          BY <1>1, <3>1, <4>2, <4>3, IrqNames
      <3>2. CASE ~(s.flags[c] = "RUNNING" /\ c # Idle)
        <4>1. r = s
          BY <3>2 DEF Requeue
        <4>2. \A t \in Thread : t = c => s.flags[t] # "RUNNING"
          BY <3>2, IrqNames
        <4> QED
          BY <1>1, <4>1, <4>2
      <3> QED
        BY <3>1, <3>2
    <2> HIDE DEF r, x
    <2>3. CASE r.queue[RunQ] # <<>>
      <3> DEFINE h == Head(r.queue[RunQ])
                 d == RsrcDequeue(r, RunQ)
      <3>1. KInv(d) /\ h \in Task /\ d \in KState /\ r.waiting_on[h] = RunQ
        BY <1>1, <2>2, <2>3, DequeueInv, HeadWaits DEF KInv
      <3>2. r.flags[h] = "WAITING"
        BY <2>2, <3>1, IrqNames DEF KInv, FlagsConsistent
      <3>3. /\ d.waiting_on[h] = NULL /\ d.flags[h] = "READY"
            /\ \A u \in Task \ {h} : d.waiting_on[u] = r.waiting_on[u]
                                    /\ d.flags[u] = r.flags[u]
            /\ d.live_tasks = r.live_tasks /\ d.stop = r.stop
        BY <1>1, <2>2, <2>3, DequeueMoves
      <3>4. x = Run(d, h)
        BY <2>1, <2>3
      <3> HIDE DEF d, h
      <3>5. KInv(x) /\ CurrentRuns(x)
        BY <3>1, <3>3, <3>4, RunInv
      <3>6. /\ x.waiting_on = d.waiting_on /\ x.current = h
            /\ x.flags = [d.flags EXCEPT ![h] = "RUNNING"]
            /\ x.live_tasks = d.live_tasks /\ x.stop = d.stop
        BY <3>1, <3>4, RunFields
      <3>7. d.flags \in [Task -> Flag]
        BY <3>1 DEF KState
      <3>8. ASSUME NEW t \in Thread
            PROVE  /\ x.flags[t] = "SLEEP_IRQ" <=> s.flags[t] = "SLEEP_IRQ"
                   /\ t = x.current \/ x.waiting_on[t] # NULL <=>
                        \/ s.waiting_on[t] # NULL
                        \/ t = c /\ s.flags[t] = "RUNNING"
        <4>1. t \in Task
          BY IrqNames
        <4>2. CASE t = h
          BY <1>1, <2>2, <3>1, <3>2, <3>3, <3>6, <3>7, <4>1, <4>2
        <4>3. CASE t # h
          BY <1>1, <2>2, <3>1, <3>3, <3>6, <3>7, <4>1, <4>3
        <4> QED
          BY <4>2, <4>3
      <3> QED
        BY <2>2, <3>3, <3>5, <3>6, <3>8 DEF x
    <2>4. CASE r.queue[RunQ] = <<>>
      <3>1. x = Run(r, Idle) /\ Idle \in Task /\ r.waiting_on[Idle] = NULL
        BY <2>1, <2>2, <2>4, IrqNames DEF KInv
      <3>2. KInv(x) /\ CurrentRuns(x)
        BY <2>2, <3>1, RunInv
      <3>3. /\ x.waiting_on = r.waiting_on /\ x.current = Idle
            /\ x.flags = [r.flags EXCEPT ![Idle] = "RUNNING"]
            /\ x.live_tasks = r.live_tasks /\ x.stop = r.stop
        BY <2>2, <3>1, RunFields
      <3>4. r.flags \in [Task -> Flag]
        BY <2>2 DEF KState
      <3>5. \A t \in Thread : t # Idle /\ t \in Task
        BY IrqNames
      <3>6. \A t \in Thread : /\ x.flags[t] = "SLEEP_IRQ" <=> s.flags[t] = "SLEEP_IRQ"
                              /\ x.waiting_on[t] = r.waiting_on[t]
        BY <2>2, <3>3, <3>4, <3>5, ZenonT(60)
      <3> QED
        BY <2>2, <3>2, <3>3, <3>5, <3>6 DEF x
    <2> QED
      BY <2>3, <2>4
  <1> QED
    BY <1>2, <1>3

\* preempt of a driver asleep: it runs, and nobody else wakes or falls asleep.
LEMMA PreemptSleeps ==
    ASSUME NEW s, KInv(s), CurrentRuns(s), NEW t \in Thread, s.flags[t] = "SLEEP_IRQ"
    PROVE  LET r == Preempt(s, t, "NONE")
           IN  /\ KInv(r) /\ CurrentRuns(r)
               /\ r.stop = s.stop /\ r.live_tasks = s.live_tasks
               /\ r.current = t /\ r.flags[t] = "RUNNING"
               /\ \A u \in Thread \ {t} :
                     /\ r.flags[u] = "SLEEP_IRQ" <=> s.flags[u] = "SLEEP_IRQ"
                     /\ r.waiting_on[u] # NULL <=> s.waiting_on[u] # NULL \/ u = s.current
  <1> DEFINE c == s.current
             e == IF c # Idle THEN RsrcEnqueue(s, RunQ, c) ELSE s
             x == Run(e, t)
             r == SetStatus(x, t, "NONE")
  <1>1. /\ s \in KState /\ c \in Task /\ RunQ \in Object /\ NULL \notin Object
        /\ t \in Task /\ "NONE" \in Status /\ t # c /\ RunQ # ReaperQ /\ t # Idle
        /\ \A u \in Thread : u \in Task /\ u # Idle
    BY IrqNames DEF KInv, KState, CurrentRuns, Status
  <1>2. s.waiting_on[t] = NULL
    BY <1>1 DEF KInv, FlagsConsistent
  <1>3. Preempt(s, t, "NONE") = r
    BY DEF Preempt
  <1>4. /\ KInv(e) /\ e \in KState /\ e.stop = s.stop /\ e.live_tasks = s.live_tasks
        /\ e.waiting_on[t] = NULL
        /\ \A u \in Thread :
              /\ e.flags[u] = "SLEEP_IRQ" <=> s.flags[u] = "SLEEP_IRQ"
              /\ e.waiting_on[u] # NULL <=> s.waiting_on[u] # NULL \/ u = c
    <2>1. CASE c # Idle
      <3>1. e = RsrcEnqueue(s, RunQ, c)
        BY <2>1
      <3>2. KInv(e) /\ e \in KState
        BY <1>1, <2>1, <3>1, EnqueueInv DEF KInv, CurrentRuns
      <3>3. /\ e.waiting_on[c] = RunQ /\ e.flags[c] = "WAITING"
            /\ \A u \in Task \ {c} : e.waiting_on[u] = s.waiting_on[u]
                                    /\ e.flags[u] = s.flags[u]
            /\ e.live_tasks = s.live_tasks /\ e.stop = s.stop
        BY <1>1, <3>1, EnqueueMoves
      <3> HIDE DEF e
      <3> QED
        BY <1>1, <1>2, <3>2, <3>3 DEF CurrentRuns
    <2>2. CASE c = Idle
      BY <1>1, <1>2, <2>2
    <2> QED
      BY <2>1, <2>2
  <1> HIDE DEF e
  <1>5. KInv(x) /\ CurrentRuns(x) /\ x \in KState
    BY <1>1, <1>4, RunInv DEF KInv
  <1>6. /\ x.waiting_on = e.waiting_on /\ x.current = t
        /\ x.flags = [e.flags EXCEPT ![t] = "RUNNING"]
        /\ x.live_tasks = e.live_tasks /\ x.stop = e.stop
    BY <1>1, <1>4, RunFields
  <1> HIDE DEF x
  <1>7. /\ r.waiting_on = x.waiting_on /\ r.current = x.current /\ r.flags = x.flags
        /\ r.live_tasks = x.live_tasks /\ r.stop = x.stop
    BY <1>1, <1>5, StatusFields
  <1>8. KInv(r)
    BY <1>1, <1>5, StatusInv
  <1>9. CurrentRuns(r)
    BY <1>5, <1>7 DEF CurrentRuns
  <1> HIDE DEF r
  <1>10. e.flags \in [Task -> Flag]
    BY <1>4 DEF KState
  <1>11. /\ r.flags[t] = "RUNNING"
         /\ \A u \in Thread \ {t} : r.flags[u] = e.flags[u] /\ r.waiting_on[u] = e.waiting_on[u]
    BY <1>1, <1>6, <1>7, <1>10
  <1>12. /\ r.stop = s.stop /\ r.live_tasks = s.live_tasks /\ r.current = t
         /\ \A u \in Thread \ {t} :
              /\ r.flags[u] = "SLEEP_IRQ" <=> s.flags[u] = "SLEEP_IRQ"
              /\ r.waiting_on[u] # NULL <=> s.waiting_on[u] # NULL \/ u = s.current
    BY <1>4, <1>6, <1>7, <1>11
  <1> QED
    BY <1>3, <1>8, <1>9, <1>11, <1>12

-----------------------------------------------------------------------------
(* Every step keeps the drivers.                                            *)

\* What the scheduler's part of a step must do.
LEMMA Apart ==
    ASSUME KInv(k'), CurrentRuns(k'),
           \A t \in Thread : t = k'.current \/ k'.waiting_on[t] # NULL <=>
                             k'.flags[t] # "SLEEP_IRQ"
    PROVE  SleepersApart'
  BY DEF SleepersApart, KInv, Placed, Sleeps

LEMMA Known ==
    ASSUME DInv
    PROVE  /\ KInv(k) /\ CurrentRuns(k) /\ k \in KState /\ me \in Task
           /\ k.waiting_on[me] = NULL /\ k.flags[me] = "RUNNING"
           /\ k.stop = "no" /\ k.live_tasks # 0
           /\ \A t \in Thread : t = k.current \/ k.waiting_on[t] # NULL <=> ~Sleeps(t)
           /\ TypeOK /\ me = k.current
  <1>1. TypeOK /\ SleepersApart /\ Lives
    BY DEF DInv, DriversKept
  <1>2. KInv(k) /\ CurrentRuns(k) /\ k \in KState
    BY <1>1 DEF TypeOK, SleepersApart, KInv
  <1>3. \A t \in Thread : t \in Placed(k) <=> ~Sleeps(t)
    BY <1>1 DEF SleepersApart
  <1> QED
    BY <1>1, <1>2, <1>3 DEF CurrentRuns, me, KState, Lives, Placed

LEMMA HandleStep ==
    ASSUME DInv, NEW t \in Thread, t = me, NEW n \in Drives[t], HandleIrq(n)
    PROVE  DInv'
  <1>1. /\ n \in Irq /\ k' = k /\ irq' = [irq EXCEPT ![t] = n] /\ map' = [map EXCEPT ![n] = t]
        /\ UNCHANGED <<masked, pending, inService, left, pc>> /\ ~Sleeps(t) /\ n # 0
    BY Known, IrqNames DEF HandleIrq, Sleeps
  <1>2. /\ irq \in [Thread -> Irq \cup {0}] /\ map \in [Irq -> Thread \cup {NULL}]
    BY Known DEF TypeOK
  <1>3. TypeOK'
    BY <1>1, <1>2, Known DEF TypeOK
  <1>4. SleepersApart' /\ Lives'
    BY <1>1 DEF DInv, DriversKept, SleepersApart, Placed, Sleeps, Lives
  <1>5. /\ irq'[t] = n /\ map'[n] = t
        /\ \A u \in Thread \ {t} : irq'[u] = irq[u]
        /\ \A m \in Irq \ {n} : map'[m] = map[m]
    BY <1>1, <1>2
  <1>6. \A u \in Thread \ {t} : ~OwnIrq(u, n)
    BY DEF OwnIrq
  <1>7. IrqsKnown'
    <2>1. ASSUME NEW u \in Thread, irq'[u] # 0
          PROVE  irq'[u] \in Drives[u] /\ (OwnIrq(u, irq'[u]) => map'[irq'[u]] = u)
      <3>1. CASE u = t
        BY <1>5, <3>1
      <3>2. CASE u # t
        <4>1. irq'[u] = irq[u] /\ irq[u] \in Irq \cup {0}
          BY <1>2, <1>5, <3>2
        <4> QED
          BY <1>5, <1>6, <2>1, <3>2, <4>1 DEF DInv, IrqsKnown
      <3> QED
        BY <3>1, <3>2
    <2>2. ASSUME NEW m \in Irq, map'[m] # NULL
          PROVE  m \in Drives[map'[m]]
      BY <1>5, <2>2 DEF DInv, IrqsKnown
    <2> QED
      BY <2>1, <2>2 DEF IrqsKnown, OwnIrq
  <1>8. UnmaskedFindsDriver'
    <2> SUFFICES ASSUME NEW u \in Thread, NEW m \in Irq \ masked, OwnIrq(u, m)
                 PROVE  map'[m] = u /\ Sleeps(u)' /\ irq'[u] = m
      BY <1>1 DEF UnmaskedFindsDriver, OwnIrq
    <2>1. map[m] = u /\ Sleeps(u) /\ irq[u] = m
      BY DEF DInv, DriversKept, UnmaskedFindsDriver
    <2>2. u # t /\ m # n
      BY <1>1, <1>6, <2>1
    <2> QED
      BY <1>1, <1>5, <2>1, <2>2 DEF Sleeps
  <1>9. SleeperCanBeWoken'
    <2> SUFFICES ASSUME NEW u \in Thread, Sleeps(u), OwnIrq(u, irq'[u])
                 PROVE  irq'[u] \notin masked
      BY <1>1 DEF SleeperCanBeWoken, OwnIrq, Sleeps
    <2>1. irq'[u] = irq[u]
      BY <1>1, <1>5
    <2> QED
      BY <2>1 DEF DInv, DriversKept, SleeperCanBeWoken
  <1> QED
    BY <1>3, <1>4, <1>7, <1>8, <1>9 DEF DInv, DriversKept

\* swtch in a state that differs from k in the flags of the caller at most.
LEMMA GiveAway ==
    ASSUME DInv, NEW s, KInv(s), s.current = me, s.waiting_on = k.waiting_on,
           s.live_tasks = k.live_tasks, s.stop = k.stop,
           s.flags[me] \in {"RUNNING", "SLEEP_IRQ"},
           \A t \in Thread \ {me} : s.flags[t] = k.flags[t], k' = Swtch(s)
    PROVE  /\ KInv(k') /\ SleepersApart' /\ Lives'
           /\ \A t \in Thread \ {me} : Sleeps(t)' <=> Sleeps(t)
           /\ me \in Thread => (k'.flags[me] = "SLEEP_IRQ" <=> s.flags[me] = "SLEEP_IRQ")
  <1>1. /\ s.waiting_on[s.current] = NULL /\ s.live_tasks # 0 /\ s.stop = "no"
        /\ s.flags[s.current] \in {"RUNNING", "SLEEP_IRQ"}
    BY Known
  <1>2. /\ KInv(k') /\ CurrentRuns(k') /\ k'.stop = s.stop /\ k'.live_tasks = s.live_tasks
        /\ \A t \in Thread : k'.flags[t] = "SLEEP_IRQ" <=> s.flags[t] = "SLEEP_IRQ"
        /\ \A t \in Thread :
              t = k'.current \/ k'.waiting_on[t] # NULL <=>
              \/ s.waiting_on[t] # NULL
              \/ t = s.current /\ s.flags[t] = "RUNNING"
    BY <1>1, SwtchSleeps
  <1>3. ASSUME NEW t \in Thread
        PROVE  t = k'.current \/ k'.waiting_on[t] # NULL <=> k'.flags[t] # "SLEEP_IRQ"
    <2>1. CASE t = me
      BY <1>1, <1>2, <2>1
    <2>2. CASE t # me
      BY <1>2, <2>2, Known DEF Sleeps
    <2> QED
      BY <2>1, <2>2
  <1>4. SleepersApart'
    BY <1>2, <1>3, Apart
  <1> QED
    BY <1>1, <1>2, <1>4, Known DEF Lives, Sleeps

\* Nobody falls asleep or wakes, and nothing of irqs changes but what is raised.
LEMMA IrqsStay ==
    ASSUME DInv, TypeOK', SleepersApart', Lives', UNCHANGED <<irq, map, masked>>,
           \A t \in Thread : Sleeps(t)' <=> Sleeps(t)
    PROVE  DInv'
  <1>1. IrqsKnown'
    BY DEF DInv, IrqsKnown, OwnIrq
  <1>2. UnmaskedFindsDriver' /\ SleeperCanBeWoken'
    BY DEF DInv, DriversKept, UnmaskedFindsDriver, SleeperCanBeWoken, OwnIrq
  <1> QED
    BY <1>1, <1>2 DEF DInv, DriversKept

LEMMA TickStep ==
    ASSUME DInv, Tick
    PROVE  DInv'
  <1>1. k' = Swtch(k) /\ UNCHANGED <<irq, map, masked, pending, inService, left, pc>>
    BY DEF Tick
  <1>2. /\ KInv(k') /\ SleepersApart' /\ Lives'
        /\ \A t \in Thread \ {me} : Sleeps(t)' <=> Sleeps(t)
        /\ me \in Thread => (k'.flags[me] = "SLEEP_IRQ" <=> k.flags[me] = "SLEEP_IRQ")
    BY <1>1, GiveAway, Known
  <1>3. \A t \in Thread : Sleeps(t)' <=> Sleeps(t)
    BY <1>2 DEF Sleeps
  <1>4. TypeOK'
    BY <1>1, <1>2, Known DEF TypeOK, KInv
  <1> QED
    BY <1>1, <1>2, <1>3, <1>4, IrqsStay

LEMMA SleepStep ==
    ASSUME DInv, SleepIrq
    PROVE  DInv'
  <1>1. me \in Thread /\ UNCHANGED <<irq, map, pending, inService, left, pc>>
    BY DEF SleepIrq, InUser
  <1>2. CASE irq[me] = 0
    <2>1. k' = Swtch(k) /\ masked' = masked
      BY <1>2 DEF SleepIrq
    <2>2. /\ KInv(k') /\ SleepersApart' /\ Lives'
          /\ \A t \in Thread \ {me} : Sleeps(t)' <=> Sleeps(t)
          /\ k'.flags[me] = "SLEEP_IRQ" <=> k.flags[me] = "SLEEP_IRQ"
      BY <1>1, <2>1, GiveAway, Known
    <2>3. \A t \in Thread : Sleeps(t)' <=> Sleeps(t)
      BY <2>2 DEF Sleeps
    <2>4. TypeOK'
      BY <1>1, <2>1, <2>2, Known DEF TypeOK, KInv
    <2> QED
      BY <1>1, <2>1, <2>2, <2>3, <2>4, IrqsStay
  <1>3. CASE irq[me] # 0
    <2> DEFINE n == irq[me]
               s == [k EXCEPT !.flags = [k.flags EXCEPT ![me] = "SLEEP_IRQ"]]
    <2>1. k' = Swtch(s) /\ masked' = masked \ {n}
      BY <1>3 DEF SleepIrq
    <2>2. /\ s \in KState /\ s.queue = k.queue /\ s.waiting_on = k.waiting_on
          /\ s.current = me /\ s.live_tasks = k.live_tasks /\ s.stop = k.stop
          /\ s.flags[me] = "SLEEP_IRQ"
          /\ \A t \in Task \ {me} : s.flags[t] = k.flags[t]
      BY Known DEF KState, Flag
    <2> HIDE DEF s
    <2>3. KInv(s)
      <3>1. QueuesConsistent(s) /\ s.waiting_on[Idle] = NULL
        BY <2>2, Known DEF KInv, QueuesConsistent
      <3>2. FlagsConsistent(s)
        BY <2>2, Known, IrqNames, ZenonT(60) DEF KInv, FlagsConsistent
      <3> QED
        BY <2>2, <3>1, <3>2 DEF KInv
    <2>4. /\ KInv(k') /\ SleepersApart' /\ Lives'
          /\ \A t \in Thread \ {me} : Sleeps(t)' <=> Sleeps(t)
          /\ k'.flags[me] = "SLEEP_IRQ"
      BY <1>1, <2>1, <2>2, <2>3, GiveAway, IrqNames
    <2>5. /\ irq \in [Thread -> Irq \cup {0}] /\ map \in [Irq -> Thread \cup {NULL}]
          /\ masked \subseteq Irq
      BY Known DEF TypeOK
    <2>6. n \in Irq /\ n \in Drives[me] /\ (OwnIrq(me, n) => map[n] = me)
      BY <1>1, <1>3, <2>5 DEF DInv, IrqsKnown
    <2> HIDE DEF n
    <2>7. TypeOK'
      BY <1>1, <2>1, <2>4, <2>5, Known DEF TypeOK, KInv
    <2>8. IrqsKnown'
      BY <1>1 DEF DInv, IrqsKnown, OwnIrq
    <2>9. UnmaskedFindsDriver'
      <3> SUFFICES ASSUME NEW u \in Thread, NEW m \in Irq \ masked', OwnIrq(u, m)
                   PROVE  map[m] = u /\ k'.flags[u] = "SLEEP_IRQ" /\ irq[u] = m
        BY <1>1 DEF UnmaskedFindsDriver, OwnIrq, Sleeps
      <3>1. CASE m = n
        <4>1. u = me
          BY <1>1, <2>6, <3>1 DEF OwnIrq
        <4> QED
          BY <2>4, <2>6, <3>1, <4>1 DEF n
      <3>2. CASE m # n
        <4>1. m \notin masked
          BY <2>1, <3>2
        <4>2. map[m] = u /\ Sleeps(u) /\ irq[u] = m
          BY <4>1 DEF DInv, DriversKept, UnmaskedFindsDriver
        <4> QED
          BY <2>4, <4>2 DEF Sleeps
      <3> QED
        BY <3>1, <3>2
    <2>10. SleeperCanBeWoken'
      <3> SUFFICES ASSUME NEW u \in Thread, k'.flags[u] = "SLEEP_IRQ", OwnIrq(u, irq[u])
                   PROVE  irq[u] \notin masked'
        BY <1>1 DEF SleeperCanBeWoken, OwnIrq, Sleeps
      <3>1. CASE u = me
        BY <2>1, <3>1 DEF n
      <3>2. CASE u # me
        BY <2>1, <2>4, <3>2 DEF Sleeps, DInv, DriversKept, SleeperCanBeWoken
      <3> QED
        BY <3>1, <3>2
    <2> QED
      BY <2>4, <2>7, <2>8, <2>9, <2>10 DEF DInv, DriversKept
  <1> QED
    BY <1>2, <1>3

LEMMA RaiseStep ==
    ASSUME DInv, NEW n \in Irq, Raise(n)
    PROVE  DInv'
  <1>1. /\ pending' = pending \cup {n} /\ left > 0 /\ left' = left - 1
        /\ UNCHANGED <<k, irq, map, masked, inService, pc>>
    BY DEF Raise
  <1>2. TypeOK'
    BY <1>1, Known, IrqsAssumption DEF TypeOK
  <1>3. SleepersApart' /\ Lives' /\ \A t \in Thread : Sleeps(t)' <=> Sleeps(t)
    BY <1>1 DEF DInv, DriversKept, SleepersApart, Placed, Sleeps, Lives
  <1> QED
    BY <1>1, <1>2, <1>3, IrqsStay

LEMMA ReturnStep ==
    ASSUME DInv, IrqReturn
    PROVE  DInv'
  <1>1. /\ inService' = Eoi(inService) /\ pc' = [pc EXCEPT ![me] = "user"]
        /\ UNCHANGED <<k, irq, map, masked, pending, left>>
    BY DEF IrqReturn
  <1>2. TypeOK'
    BY <1>1, Known DEF TypeOK, Eoi
  <1>3. SleepersApart' /\ Lives' /\ \A t \in Thread : Sleeps(t)' <=> Sleeps(t)
    BY <1>1 DEF DInv, DriversKept, SleepersApart, Placed, Sleeps, Lives
  <1> QED
    BY <1>1, <1>2, <1>3, IrqsStay

LEMMA DispatchStep ==
    ASSUME DInv, NEW n \in Irq, IrqDispatch(n)
    PROVE  DInv'
  <1>1. /\ n \in pending /\ n \notin masked /\ n \notin inService
        /\ pending' = pending \ {n} /\ masked' = masked \cup {n}
        /\ UNCHANGED <<irq, map, left>>
    BY DEF IrqDispatch, Presents
  <1>2. /\ irq \in [Thread -> Irq \cup {0}] /\ map \in [Irq -> Thread \cup {NULL}]
        /\ masked \subseteq Irq /\ inService \subseteq Irq /\ pending \subseteq Irq
        /\ pc \in [Task -> {"user", "eoi"}] /\ left \in 0..MaxRaises
    BY Known DEF TypeOK
  <1>3. IrqsKnown'
    BY <1>1 DEF DInv, IrqsKnown, OwnIrq
  <1>4. CASE map[n] # NULL /\ k.flags[map[n]] = "SLEEP_IRQ"
    <2> DEFINE t == map[n]
    <2>1. /\ k' = Preempt(k, t, "NONE") /\ inService' = inService \cup {n}
          /\ pc' = [pc EXCEPT ![me] = "eoi"]
      BY <1>4 DEF IrqDispatch
    <2>2. t \in Thread /\ k.flags[t] = "SLEEP_IRQ" /\ n \in Drives[t]
      BY <1>2, <1>4 DEF DInv, IrqsKnown
    <2> HIDE DEF t
    <2>3. /\ KInv(k') /\ CurrentRuns(k') /\ k'.stop = k.stop /\ k'.live_tasks = k.live_tasks
          /\ k'.current = t /\ k'.flags[t] = "RUNNING"
          /\ \A u \in Thread \ {t} :
                /\ k'.flags[u] = "SLEEP_IRQ" <=> k.flags[u] = "SLEEP_IRQ"
                /\ k'.waiting_on[u] # NULL <=> k.waiting_on[u] # NULL \/ u = k.current
      BY <2>1, <2>2, PreemptSleeps, Known
    <2>4. Lives'
      BY <2>3, Known DEF Lives
    <2>5. ASSUME NEW u \in Thread
          PROVE  u = k'.current \/ k'.waiting_on[u] # NULL <=> k'.flags[u] # "SLEEP_IRQ"
      <3>1. CASE u = t
        BY <2>3, <3>1
      <3>2. CASE u # t
        BY <2>3, <3>2, Known DEF Sleeps
      <3> QED
        BY <3>1, <3>2
    <2>6. SleepersApart'
      BY <2>3, <2>5, Apart
    <2>7. TypeOK'
      BY <1>1, <1>2, <2>1, <2>3 DEF TypeOK, KInv
    <2>8. UnmaskedFindsDriver'
      <3> SUFFICES ASSUME NEW u \in Thread, NEW m \in Irq \ masked', OwnIrq(u, m)
                   PROVE  map[m] = u /\ k'.flags[u] = "SLEEP_IRQ" /\ irq[u] = m
        BY <1>1 DEF UnmaskedFindsDriver, OwnIrq, Sleeps
      <3>1. m # n /\ m \notin masked
        BY <1>1
      <3>2. map[m] = u /\ Sleeps(u) /\ irq[u] = m
        BY <3>1 DEF DInv, DriversKept, UnmaskedFindsDriver
      <3>3. u # t
        BY <2>2, <3>1 DEF OwnIrq
      <3> QED
        BY <2>3, <3>2, <3>3 DEF Sleeps
    <2>9. SleeperCanBeWoken'
      <3> SUFFICES ASSUME NEW u \in Thread, k'.flags[u] = "SLEEP_IRQ", OwnIrq(u, irq[u])
                   PROVE  irq[u] \notin masked'
        BY <1>1 DEF SleeperCanBeWoken, OwnIrq, Sleeps
      <3>1. u # t
        BY <2>3
      <3>2. irq[u] # n
        BY <2>2, <3>1 DEF OwnIrq
      <3>3. irq[u] \notin masked
        BY <2>3, <3>1 DEF Sleeps, DInv, DriversKept, SleeperCanBeWoken
      <3> QED
        BY <1>1, <3>2, <3>3
    <2> QED
      BY <1>3, <2>4, <2>6, <2>7, <2>8, <2>9 DEF DInv, DriversKept
  <1>5. CASE ~(map[n] # NULL /\ k.flags[map[n]] = "SLEEP_IRQ")
    <2>1. k' = k /\ pc' = pc /\ inService' = Eoi(inService \cup {n})
      BY <1>5 DEF IrqDispatch
    <2>2. TypeOK'
      BY <1>1, <1>2, <2>1, Known DEF TypeOK, Eoi
    <2>3. SleepersApart' /\ Lives'
      BY <2>1 DEF DInv, DriversKept, SleepersApart, Placed, Sleeps, Lives
    <2>4. UnmaskedFindsDriver'
      BY <1>1, <2>1 DEF DInv, DriversKept, UnmaskedFindsDriver, OwnIrq, Sleeps
    <2>5. SleeperCanBeWoken'
      <3> SUFFICES ASSUME NEW u \in Thread, Sleeps(u), OwnIrq(u, irq[u])
                   PROVE  irq[u] \notin masked'
        BY <1>1, <2>1 DEF SleeperCanBeWoken, OwnIrq, Sleeps
      <3>1. irq[u] \notin masked
        BY DEF DInv, DriversKept, SleeperCanBeWoken
      <3>2. CASE irq[u] = n
        <4>1. map[n] = u /\ u # NULL
          BY <1>1, <3>1, <3>2, IrqsAssumption DEF DInv, DriversKept, UnmaskedFindsDriver
        <4> QED
          BY <1>5, <4>1 DEF Sleeps
      <3>3. CASE irq[u] # n
        BY <1>1, <3>1, <3>3
      <3> QED
        BY <3>2, <3>3
    <2> QED
      BY <1>3, <2>2, <2>3, <2>4, <2>5 DEF DInv, DriversKept
  <1> QED
    BY <1>4, <1>5

-----------------------------------------------------------------------------
(* The first state, and the theorem.                                        *)

\* A queue as long as there are others, with nobody twice, has them all.
LEMMA AllQueued ==
    ASSUME NEW t \in Thread, NEW q \in [1..(Cardinality(Thread) - 1) -> Thread \ {t}],
           \A i, j \in DOMAIN q : q[i] = q[j] => i = j
    PROVE  /\ Cardinality(Thread) \in Nat \ {0}
           /\ \A u \in Thread \ {t} : \E i \in 1..(Cardinality(Thread) - 1) : q[i] = u
  <1> DEFINE n == Cardinality(Thread) - 1
  <1>1. IsFiniteSet(Thread) /\ Cardinality(Thread) \in Nat /\ Cardinality(Thread) # 0
    BY IrqsAssumption, FS_CardinalityType, FS_EmptySet
  <1>2. IsFiniteSet(Thread \ {t}) /\ Cardinality(Thread \ {t}) = n
    BY <1>1, FS_RemoveElement
  <1>3. n \in Nat
    BY <1>1
  <1> HIDE DEF n
  <1>6. Cardinality(1..n) = n
    BY <1>3, FS_Interval
  <1>4. q \in Injection(1..n, Thread \ {t})
    BY DEF Injection, IsInjective, n
  <1>5. q \in Surjection(1..n, Thread \ {t})
    BY <1>2, <1>4, <1>6, FS_Injection
  <1> QED
    BY <1>1, <1>5 DEF Surjection, n

LEMMA InitDInv ==
    ASSUME Init
    PROVE  DInv
  <1>1. PICK t \in Thread :
          \E q \in [1..(Cardinality(Thread) - 1) -> Thread \ {t}] :
            /\ \A i, j \in DOMAIN q : q[i] = q[j] => i = j
            /\ k = [ queue      |-> [o \in Object |-> IF o = RunQ THEN q
                                        ELSE IF o = Limbo THEN <<Reaper>> ELSE <<>>],
                     waiting_on |-> [u \in Task |-> IF u \in {t, Idle} THEN NULL
                                        ELSE IF u = Reaper THEN Limbo ELSE RunQ],
                     flags      |-> [u \in Task |-> IF u = t THEN "RUNNING"
                                        ELSE IF u = Idle THEN "READY" ELSE "WAITING"],
                     status     |-> [u \in Task |-> "NONE"],
                     wait_time  |-> [u \in Task |-> 0],
                     current    |-> t,
                     live_tasks |-> Cardinality(Thread) + 2,
                     stop       |-> "no" ]
    BY DEF Init
  <1> DEFINE n == Cardinality(Thread) - 1
  <1>2. PICK q \in [1..n -> Thread \ {t}] :
            /\ \A i, j \in DOMAIN q : q[i] = q[j] => i = j
            /\ k = [ queue      |-> [o \in Object |-> IF o = RunQ THEN q
                                        ELSE IF o = Limbo THEN <<Reaper>> ELSE <<>>],
                     waiting_on |-> [u \in Task |-> IF u \in {t, Idle} THEN NULL
                                        ELSE IF u = Reaper THEN Limbo ELSE RunQ],
                     flags      |-> [u \in Task |-> IF u = t THEN "RUNNING"
                                        ELSE IF u = Idle THEN "READY" ELSE "WAITING"],
                     status     |-> [u \in Task |-> "NONE"],
                     wait_time  |-> [u \in Task |-> 0],
                     current    |-> t,
                     live_tasks |-> Cardinality(Thread) + 2,
                     stop       |-> "no" ]
    BY <1>1
  <1>3. /\ n \in Nat /\ \A u \in Thread \ {t} : \E i \in 1..n : q[i] = u
        /\ n + 3 = Cardinality(Thread) + 2
    <2>1. \A i, j \in DOMAIN q : q[i] = q[j] => i = j
      BY <1>2
    <2>2. /\ Cardinality(Thread) \in Nat \ {0}
          /\ \A u \in Thread \ {t} : \E i \in 1..n : q[i] = u
      BY <2>1, AllQueued
    <2> QED
      BY <2>2
  <1> HIDE DEF n
  <1>4. /\ Limbo \in Object /\ Limbo # RunQ /\ Limbo # ReaperQ /\ Limbo # NULL
        /\ Object = {Limbo, RunQ, ReaperQ, TimerQ} /\ RunQ # NULL /\ ReaperQ # NULL
        /\ NULL \notin Thread
    BY SchedAssumption, IrqsAssumption DEF Object
  <1>5. /\ q \in Seq(Task) /\ Len(q) = n /\ \A i \in 1..n : q[i] \in Thread \ {t}
    <2>1. q \in [1..n -> Task]
      BY <1>2, IrqNames
    <2> QED
      BY <1>2, <1>3, <2>1
  <1>6. /\ <<Reaper>> \in Seq(Task) /\ <<>> \in Seq(Task)
        /\ Len(<<Reaper>>) = 1 /\ <<Reaper>>[1] = Reaper /\ Len(<<>>) = 0
    BY IrqNames
  <1>7. n + 3 = Cardinality(Thread) + 2 /\ n + 3 \in Nat /\ n + 3 # 0
    BY <1>3
  <1>8. /\ k.queue = [o \in Object |-> IF o = RunQ THEN q
                                  ELSE IF o = Limbo THEN <<Reaper>> ELSE <<>>]
        /\ k.waiting_on = [u \in Task |-> IF u \in {t, Idle} THEN NULL
                                  ELSE IF u = Reaper THEN Limbo ELSE RunQ]
        /\ k.flags = [u \in Task |-> IF u = t THEN "RUNNING"
                                  ELSE IF u = Idle THEN "READY" ELSE "WAITING"]
        /\ k.current = t /\ k.live_tasks = n + 3 /\ k.stop = "no"
    BY <1>2, <1>7
  <1>9. k \in KState
    <2>1. k.queue \in [Object -> Seq(Task)]
      BY <1>5, <1>6, <1>8
    <2>2. k.waiting_on \in [Task -> Object \cup {NULL}]
      BY <1>4, <1>8, IrqNames
    <2>3. k.flags \in [Task -> Flag]
      BY <1>8 DEF Flag
    <2> QED
      BY <1>2, <1>7, <2>1, <2>2, <2>3, IrqNames DEF KState, Status
  <1>10. QueuesConsistent(k)
    <2>1. k.queue[RunQ] = q /\ k.queue[Limbo] = <<Reaper>>
          /\ \A o \in Object \ {RunQ, Limbo} : k.queue[o] = <<>>
      BY <1>4, <1>8, IrqNames
    <2>2. \A o \in Object : \A i, j \in 1..Len(k.queue[o]) :
              k.queue[o][i] = k.queue[o][j] => i = j
      BY <1>2, <1>4, <1>5, <1>6, <2>1
    <2>3. \A o \in Object : \A i \in 1..Len(k.queue[o]) :
              k.waiting_on[k.queue[o][i]] = o
      <3>1. \A u \in Thread \ {t} : k.waiting_on[u] = RunQ
        BY <1>8, IrqNames
      <3>2. k.waiting_on[Reaper] = Limbo
        BY <1>8, IrqNames
      <3> QED
        BY <1>4, <1>5, <1>6, <2>1, <3>1, <3>2
    <2>4. ASSUME NEW u \in Task, k.waiting_on[u] # NULL
          PROVE  \E i \in 1..Len(k.queue[k.waiting_on[u]]) :
                     k.queue[k.waiting_on[u]][i] = u
      <3>1. CASE u = Reaper
        <4>1. k.waiting_on[u] = Limbo
          BY <1>8, <3>1, IrqNames
        <4>2. k.queue[k.waiting_on[u]] = <<Reaper>>
          BY <2>1, <4>1
        <4>3. 1 \in 1..Len(k.queue[k.waiting_on[u]]) /\ k.queue[k.waiting_on[u]][1] = u
          BY <1>6, <3>1, <4>2
        <4> QED
          BY <4>3
      <3>2. CASE u # Reaper
        <4>1. u \in Thread \ {t} /\ k.waiting_on[u] = RunQ
          BY <1>8, <2>4, <3>2 DEF Task
        <4>2. PICK i \in 1..n : q[i] = u
          BY <1>3, <4>1
        <4>3. k.queue[k.waiting_on[u]] = q
          BY <2>1, <4>1
        <4>4. Len(k.queue[k.waiting_on[u]]) = n /\ k.queue[k.waiting_on[u]][i] = u
          BY <1>5, <4>2, <4>3
        <4> HIDE DEF n
        <4> QED
          BY <4>4
      <3> QED
        BY <3>1, <3>2
    <2> QED
      BY <2>2, <2>3, <2>4 DEF QueuesConsistent
  <1>11. /\ FlagsConsistent(k) /\ CurrentRuns(k) /\ k.waiting_on[Idle] = NULL
         /\ Placed(k) = {u \in Thread : ~Sleeps(u)}
    <2>1. ASSUME NEW u \in Task
          PROVE  /\ k.flags[u] = "WAITING" <=> k.waiting_on[u] \notin {NULL, ReaperQ}
                 /\ k.flags[u] = "DEAD" <=> k.waiting_on[u] = ReaperQ
                 /\ k.flags[u] # "SLEEP_IRQ"
      BY <1>4, <1>8, IrqNames
    <2>2. FlagsConsistent(k)
      BY <2>1 DEF FlagsConsistent
    <2>3. CurrentRuns(k) /\ k.waiting_on[Idle] = NULL
      BY <1>8, IrqNames DEF CurrentRuns
    <2>4. \A u \in Thread : u = k.current \/ k.waiting_on[u] # NULL
      BY <1>4, <1>8, IrqNames
    <2> QED
      BY <2>1, <2>2, <2>3, <2>4, IrqNames DEF Placed, Sleeps
  <1>12. TypeOK
    BY <1>9, IrqsAssumption DEF Init, TypeOK
  <1>13. IrqsKnown /\ Lives /\ UnmaskedFindsDriver
    BY <1>7, <1>8 DEF Init, IrqsKnown, Lives, UnmaskedFindsDriver
  <1>14. SleeperCanBeWoken
    <2>1. \A u \in Thread : ~Sleeps(u)
      BY <1>8, IrqNames DEF Sleeps
    <2> QED
      BY <2>1 DEF SleeperCanBeWoken
  <1> QED
    BY <1>10, <1>11, <1>12, <1>13, <1>14 DEF DInv, DriversKept, SleepersApart

LEMMA NextDInv ==
    DInv /\ [Next]_vars => DInv'
  <1> SUFFICES ASSUME DInv, [Next]_vars
               PROVE  DInv'
    OBVIOUS
  <1>1. CASE UNCHANGED vars
    <2>1. TypeOK'
      BY <1>1, Known DEF vars, TypeOK
    <2>2. /\ SleepersApart' /\ Lives' /\ UNCHANGED <<irq, map, masked>>
          /\ \A t \in Thread : Sleeps(t)' <=> Sleeps(t)
      BY <1>1 DEF vars, DInv, DriversKept, SleepersApart, Placed, Sleeps, Lives
    <2> QED
      BY <2>1, <2>2, IrqsStay
  <1>2. CASE \E t \in Thread : t = me /\ \E n \in Drives[t] : HandleIrq(n)
    BY <1>2, HandleStep
  <1> QED
    BY <1>1, <1>2, SleepStep, TickStep, RaiseStep, ReturnStep, DispatchStep DEF Next

\* The invariant behind DriversKept, with what os_handle_irq wrote down.
THEOREM IrqsInvariance == Spec => []DInv
  <1>1. Init => DInv
    BY InitDInv
  <1> QED
    BY <1>1, NextDInv, PTL DEF Spec

\* os_sleep_irq, irq_dispatch and preempt lose no thread and no interrupt, for any
\* number of threads and any irqs they ask for: a driver asleep is on no queue and
\* can be woken, and an irq that is not masked finds its driver asleep.
THEOREM DriversStayKept == Spec => []DriversKept
  <1>1. DInv => DriversKept
    BY DEF DInv
  <1> QED
    BY <1>1, IrqsInvariance, PTL

-----------------------------------------------------------------------------
(* Interrupts in service and the tasks that end them, one by one.           *)

Enders == {u \in Task : pc[u] = "eoi"}

\* The least of some irqs is one of them.
LEMMA MinIn ==
    ASSUME NEW S \in SUBSET Irq, S # {}
    PROVE  Min(S) \in S
  <1>1. S \subseteq 1..7
    BY IrqNames
  <1>2. \E x \in S : \A y \in S : x =< y
    <2>1. CASE 1 \in S
      BY <1>1, <2>1
    <2>2. CASE 1 \notin S /\ 2 \in S
      BY <1>1, <2>2
    <2>3. CASE 1 \notin S /\ 2 \notin S /\ 3 \in S
      BY <1>1, <2>3
    <2>4. CASE 1 \notin S /\ 2 \notin S /\ 3 \notin S /\ 4 \in S
      BY <1>1, <2>4
    <2>5. CASE 1 \notin S /\ 2 \notin S /\ 3 \notin S /\ 4 \notin S /\ 5 \in S
      BY <1>1, <2>5
    <2>6. CASE 1 \notin S /\ 2 \notin S /\ 3 \notin S /\ 4 \notin S /\ 5 \notin S /\ 6 \in S
      BY <1>1, <2>6
    <2>7. CASE /\ 1 \notin S /\ 2 \notin S /\ 3 \notin S /\ 4 \notin S /\ 5 \notin S
               /\ 6 \notin S
      <3>1. \A y \in S : y = 7
        BY <1>1, <2>7
      <3>2. PICK y \in S : TRUE
        OBVIOUS
      <3>3. 7 \in S /\ \A z \in S : 7 =< z
        BY <3>1, <3>2
      <3> QED
        BY <3>3
    <2> QED
      BY <2>1, <2>2, <2>3, <2>4, <2>5, <2>6, <2>7
  <1> QED
    BY <1>2 DEF Min

LEMMA EoiCounts ==
    ASSUME NEW S \in SUBSET Irq
    PROVE  /\ IsFiniteSet(S) /\ Cardinality(S) \in Nat
           /\ S # {} => Cardinality(Eoi(S)) = Cardinality(S) - 1
  <1>1. IsFiniteSet(S) /\ Cardinality(S) \in Nat
    <2>1. S \subseteq 1..7
      BY IrqNames
    <2>2. \A a, b \in Int : IsFiniteSet(a..b)
      BY FS_Interval
    <2>3. 1 \in Int /\ 7 \in Int
      OBVIOUS
    <2>4. IsFiniteSet(1..7)
      BY ONLY <2>2, <2>3, ZenonT(20)
    <2> QED
      BY <2>1, <2>4, FS_Subset, FS_CardinalityType
  <1>2. ASSUME S # {}
        PROVE  Cardinality(Eoi(S)) = Cardinality(S) - 1
    BY <1>1, <1>2, MinIn, FS_RemoveElement DEF Eoi
  <1> QED
    BY <1>1, <1>2

LEMMA EndersFinite ==
    /\ IsFiniteSet(Task) /\ IsFiniteSet(Enders) /\ Cardinality(Enders) \in Nat
  <1>1. IsFiniteSet(Thread \cup {Reaper} \cup {Idle})
    BY IrqsAssumption, FS_AddElement
  <1>2. Task = Thread \cup {Reaper} \cup {Idle}
    BY DEF Task
  <1>3. Enders \in SUBSET Task
    BY DEF Enders
  <1> QED
    BY <1>1, <1>2, <1>3, FS_Subset, FS_CardinalityType

LEMMA EndsStep ==
    ASSUME DInv, EachHasItsEnd, [Next]_vars
    PROVE  EachHasItsEnd'
  <1>1. /\ me \in Task /\ pc \in [Task -> {"user", "eoi"}] /\ inService \subseteq Irq
        /\ Cardinality(inService) = Cardinality(Enders)
    BY Known DEF TypeOK, EachHasItsEnd, Enders
  <1>2. EachHasItsEnd' <=> Cardinality(inService') = Cardinality(Enders')
    BY DEF EachHasItsEnd, Enders
  <1>3. CASE UNCHANGED <<inService, pc>>
    BY <1>1, <1>2, <1>3 DEF Enders
  <1>4. CASE IrqReturn
    <2>1. /\ pc[me] = "eoi" /\ inService' = Eoi(inService)
          /\ pc' = [pc EXCEPT ![me] = "user"]
      BY <1>4 DEF IrqReturn
    <2>2. me \in Enders /\ Enders' = Enders \ {me}
      BY <1>1, <2>1 DEF Enders
    <2>3. Cardinality(Enders') = Cardinality(Enders) - 1 /\ Cardinality(Enders) # 0
      BY <2>2, EndersFinite, FS_RemoveElement, FS_EmptySet
    <2>4. inService # {}
      BY <1>1, <2>3, FS_EmptySet
    <2> QED
      BY <1>1, <1>2, <2>1, <2>3, <2>4, EoiCounts
  <1>5. CASE \E n \in Irq : IrqDispatch(n)
    <2>1. PICK n \in Irq : IrqDispatch(n)
      BY <1>5
    <2>2. n \notin inService /\ pc[me] = "user"
      BY <2>1 DEF IrqDispatch, Presents, Interruptible
    <2> DEFINE S == inService \cup {n}
    <2>3. S \in SUBSET Irq /\ S # {} /\ Cardinality(S) = Cardinality(inService) + 1
          /\ Cardinality(inService) \in Nat
      BY <1>1, <2>2, EoiCounts, FS_AddElement
    <2>4. CASE inService' = S /\ pc' = [pc EXCEPT ![me] = "eoi"]
      <3>1. me \notin Enders /\ Enders' = Enders \cup {me}
        BY <1>1, <2>2, <2>4 DEF Enders
      <3>2. Cardinality(Enders') = Cardinality(Enders) + 1
        BY <3>1, EndersFinite, FS_AddElement
      <3> QED
        BY <1>1, <1>2, <2>3, <2>4, <3>2
    <2>5. CASE inService' = Eoi(S) /\ pc' = pc
      <3>1. Cardinality(inService') = Cardinality(inService)
        BY <2>3, <2>5, EoiCounts
      <3> QED
        BY <1>1, <1>2, <2>5, <3>1 DEF Enders
    <2> QED
      BY <2>1, <2>4, <2>5 DEF IrqDispatch
  <1> QED
    BY <1>3, <1>4, <1>5 DEF Next, vars, HandleIrq, SleepIrq, Raise, Tick

\* Each interrupt the 8259 has in service will be ended by exactly one task, whoever
\* irq_dispatch interrupted, although the end-of-interrupts come in another order.
THEOREM EveryInterruptEnds == Spec => []EachHasItsEnd
  <1>1. Init => EachHasItsEnd
    <2> SUFFICES ASSUME Init
                 PROVE  EachHasItsEnd
      OBVIOUS
    <2>1. inService = {} /\ {u \in Task : pc[u] = "eoi"} = {}
      BY DEF Init
    <2> QED
      BY <2>1 DEF EachHasItsEnd
  <1>2. DInv /\ EachHasItsEnd /\ [Next]_vars => EachHasItsEnd'
    BY EndsStep
  <1> QED
    BY <1>1, <1>2, IrqsInvariance, PTL DEF Spec
=============================================================================
