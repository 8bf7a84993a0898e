----------------------------- MODULE SchedProofs -----------------------------
(***************************************************************************)
(* What the operators of Sched do to a scheduler state.  The proofs of the  *)
(* modules that extend Sched rest on these lemmas, one per C function.      *)
(***************************************************************************)
EXTENDS Sched, TLAPS

-----------------------------------------------------------------------------
(* Every operator returns a scheduler state.                                *)

LEMMA EnqueueType ==
    ASSUME NEW k \in KState, NEW o \in Object, NEW t \in Task
    PROVE  RsrcEnqueue(k, o, t) \in KState
  <1> DEFINE q == [k.queue EXCEPT ![o] = Append(@, t)]
             w == [k.waiting_on EXCEPT ![t] = o]
             f == [k.flags EXCEPT ![t] = "WAITING"]
             x == [k.wait_time EXCEPT ![t] = 0]
  <1>1. q \in [Object -> Seq(Task)]
    BY DEF KState
  <1>2. w \in [Task -> Object \cup {NULL}]
    BY DEF KState
  <1>3. f \in [Task -> Flag]
    BY DEF KState, Flag
  <1>4. x \in [Task -> Nat]
    BY DEF KState
  <1>5. RsrcEnqueue(k, o, t) = [k EXCEPT !.queue = q, !.waiting_on = w,
                                         !.flags = f, !.wait_time = x]
    BY DEF RsrcEnqueue
  <1> HIDE DEF q, w, f, x
  <1> QED
    BY <1>1, <1>2, <1>3, <1>4, <1>5 DEF KState

LEMMA DequeueType ==
    ASSUME NEW k \in KState, NEW o \in Object, k.queue[o] # <<>>
    PROVE  /\ RsrcDequeue(k, o) \in KState
           /\ Head(k.queue[o]) \in Task
  <1> DEFINE t == Head(k.queue[o])
             q == [k.queue EXCEPT ![o] = Tail(@)]
             w == [k.waiting_on EXCEPT ![t] = NULL]
             f == [k.flags EXCEPT ![t] = "READY"]
  <1>0. t \in Task
    BY DEF KState
  <1>1. q \in [Object -> Seq(Task)]
    BY DEF KState
  <1>2. w \in [Task -> Object \cup {NULL}]
    BY DEF KState
  <1>3. f \in [Task -> Flag]
    BY DEF KState, Flag
  <1>5. RsrcDequeue(k, o) = [k EXCEPT !.queue = q, !.waiting_on = w,
                                      !.flags = f]
    BY DEF RsrcDequeue
  <1> HIDE DEF q, w, f
  <1> QED
    BY <1>0, <1>1, <1>2, <1>3, <1>5 DEF KState

LEMMA StatusType ==
    ASSUME NEW k \in KState, NEW t \in Task, NEW s \in Status
    PROVE  SetStatus(k, t, s) \in KState
  <1> DEFINE x == [k.status EXCEPT ![t] = s]
  <1>1. x \in [Task -> Status]
    BY DEF KState
  <1>2. SetStatus(k, t, s) = [k EXCEPT !.status = x]
    BY DEF SetStatus
  <1> HIDE DEF x
  <1> QED
    BY <1>1, <1>2 DEF KState

LEMMA RunType ==
    ASSUME NEW k \in KState, NEW t \in Task
    PROVE  Run(k, t) \in KState
  <1> DEFINE f == [k.flags EXCEPT ![t] = "RUNNING"]
  <1>1. f \in [Task -> Flag]
    BY DEF KState, Flag
  <1>2. Run(k, t) = [k EXCEPT !.current = t, !.flags = f]
    BY DEF Run
  <1> HIDE DEF f
  <1> QED
    BY <1>1, <1>2 DEF KState

-----------------------------------------------------------------------------
(* What every operator reads and leaves alone, field by field.              *)

LEMMA EnqueueFields ==
    ASSUME NEW k \in KState, NEW o \in Object, NEW t \in Task
    PROVE  LET r == RsrcEnqueue(k, o, t)
           IN  /\ r.queue = [k.queue EXCEPT ![o] = Append(k.queue[o], t)]
               /\ r.waiting_on = [k.waiting_on EXCEPT ![t] = o]
               /\ r.flags = [k.flags EXCEPT ![t] = "WAITING"]
               /\ r.current = k.current
               /\ r.live_tasks = k.live_tasks /\ r.stop = k.stop
               /\ r.status = k.status
  BY DEF KState, RsrcEnqueue

\* The same, task by task and queue by queue.
LEMMA EnqueueMoves ==
    ASSUME NEW k \in KState, NEW o \in Object, NEW t \in Task
    PROVE  LET r == RsrcEnqueue(k, o, t)
           IN  /\ r.queue[o] = Append(k.queue[o], t)
               /\ \A p \in Object \ {o} : r.queue[p] = k.queue[p]
               /\ r.waiting_on[t] = o /\ r.flags[t] = "WAITING"
               /\ \A u \in Task \ {t} : r.waiting_on[u] = k.waiting_on[u]
                                      /\ r.flags[u] = k.flags[u]
               /\ r.current = k.current
               /\ r.live_tasks = k.live_tasks /\ r.stop = k.stop
               /\ r.status = k.status
  <1> DEFINE r == RsrcEnqueue(k, o, t)
  <1>1. /\ r.queue = [k.queue EXCEPT ![o] = Append(k.queue[o], t)]
        /\ r.waiting_on = [k.waiting_on EXCEPT ![t] = o]
        /\ r.flags = [k.flags EXCEPT ![t] = "WAITING"]
        /\ r.current = k.current
        /\ r.live_tasks = k.live_tasks /\ r.stop = k.stop
        /\ r.status = k.status
    BY EnqueueFields
  <1>2. /\ k.queue \in [Object -> Seq(Task)]
        /\ k.waiting_on \in [Task -> Object \cup {NULL}]
        /\ k.flags \in [Task -> Flag]
    BY DEF KState
  <1> HIDE DEF r
  <1>3. /\ r.queue[o] = Append(k.queue[o], t)
        /\ \A p \in Object \ {o} : r.queue[p] = k.queue[p]
        /\ r.waiting_on[t] = o /\ r.flags[t] = "WAITING"
        /\ \A u \in Task \ {t} : r.waiting_on[u] = k.waiting_on[u]
                               /\ r.flags[u] = k.flags[u]
    BY <1>1, <1>2
  <1> QED
    BY <1>1, <1>3 DEF r

LEMMA DequeueFields ==
    ASSUME NEW k \in KState, NEW o \in Object, k.queue[o] # <<>>
    PROVE  LET r == RsrcDequeue(k, o)
               t == Head(k.queue[o])
           IN  /\ r.queue = [k.queue EXCEPT ![o] = Tail(k.queue[o])]
               /\ r.waiting_on = [k.waiting_on EXCEPT ![t] = NULL]
               /\ r.flags = [k.flags EXCEPT ![t] = "READY"]
               /\ r.current = k.current
               /\ r.live_tasks = k.live_tasks /\ r.stop = k.stop
               /\ r.status = k.status
  BY DEF KState, RsrcDequeue

LEMMA DequeueMoves ==
    ASSUME NEW k \in KState, NEW o \in Object, k.queue[o] # <<>>
    PROVE  LET r == RsrcDequeue(k, o)
               t == Head(k.queue[o])
           IN  /\ r.queue[o] = Tail(k.queue[o])
               /\ \A p \in Object \ {o} : r.queue[p] = k.queue[p]
               /\ r.waiting_on[t] = NULL /\ r.flags[t] = "READY"
               /\ \A u \in Task \ {t} : r.waiting_on[u] = k.waiting_on[u]
                                      /\ r.flags[u] = k.flags[u]
               /\ r.current = k.current
               /\ r.live_tasks = k.live_tasks /\ r.stop = k.stop
               /\ r.status = k.status
  <1> DEFINE r == RsrcDequeue(k, o)
             t == Head(k.queue[o])
  <1>1. /\ r.queue = [k.queue EXCEPT ![o] = Tail(k.queue[o])]
        /\ r.waiting_on = [k.waiting_on EXCEPT ![t] = NULL]
        /\ r.flags = [k.flags EXCEPT ![t] = "READY"]
        /\ r.current = k.current
        /\ r.live_tasks = k.live_tasks /\ r.stop = k.stop
        /\ r.status = k.status
    BY DequeueFields
  <1>2. /\ k.queue \in [Object -> Seq(Task)]
        /\ k.waiting_on \in [Task -> Object \cup {NULL}]
        /\ k.flags \in [Task -> Flag] /\ t \in Task
    BY DequeueType DEF KState
  <1> HIDE DEF r, t
  <1>3. /\ r.queue[o] = Tail(k.queue[o])
        /\ \A p \in Object \ {o} : r.queue[p] = k.queue[p]
        /\ r.waiting_on[t] = NULL /\ r.flags[t] = "READY"
        /\ \A u \in Task \ {t} : r.waiting_on[u] = k.waiting_on[u]
                               /\ r.flags[u] = k.flags[u]
    BY <1>1, <1>2
  <1> QED
    BY <1>1, <1>3 DEF r, t

LEMMA RunFields ==
    ASSUME NEW k \in KState, NEW t \in Task
    PROVE  LET r == Run(k, t)
           IN  /\ r.queue = k.queue
               /\ r.waiting_on = k.waiting_on
               /\ r.flags = [k.flags EXCEPT ![t] = "RUNNING"]
               /\ r.current = t
               /\ r.live_tasks = k.live_tasks /\ r.stop = k.stop
               /\ r.status = k.status
  BY DEF KState, Run

LEMMA StatusFields ==
    ASSUME NEW k \in KState, NEW t \in Task, NEW s \in Status
    PROVE  LET r == SetStatus(k, t, s)
           IN  /\ r.queue = k.queue
               /\ r.waiting_on = k.waiting_on
               /\ r.flags = k.flags
               /\ r.current = k.current
               /\ r.live_tasks = k.live_tasks /\ r.stop = k.stop
  BY DEF KState, SetStatus

-----------------------------------------------------------------------------
(* Queues, waiting_on and flags stay consistent inside a handler as well.   *)

KInv(k) ==
    /\ k \in KState
    /\ QueuesConsistent(k)
    /\ FlagsConsistent(k)
    /\ k.waiting_on[Idle] = NULL

LEMMA RunQObject == RunQ \in Object /\ ReaperQ \in Object /\ TimerQ \in Object
                    /\ RunQ # ReaperQ /\ RunQ # TimerQ /\ NULL \notin Object
  BY SchedAssumption DEF Object

\* The head of a queue that is not empty waits there.
LEMMA HeadWaits ==
    ASSUME NEW k, KInv(k), NEW o \in Object, k.queue[o] # <<>>
    PROVE  /\ Head(k.queue[o]) \in Task
           /\ k.waiting_on[Head(k.queue[o])] = o
           /\ Len(k.queue[o]) >= 1
           /\ Head(k.queue[o]) = k.queue[o][1]
  <1>1. k.queue[o] \in Seq(Task)
    BY DEF KInv, KState
  <1>2. Len(k.queue[o]) >= 1 /\ Head(k.queue[o]) = k.queue[o][1]
        /\ Head(k.queue[o]) \in Task
    BY <1>1
  <1> QED
    BY <1>2 DEF KInv, QueuesConsistent

LEMMA EnqueueQueues ==
    ASSUME NEW k, KInv(k), NEW o \in Object, NEW t \in Task,
           k.waiting_on[t] = NULL
    PROVE  QueuesConsistent(RsrcEnqueue(k, o, t))
  <1> DEFINE r == RsrcEnqueue(k, o, t)
  <1>1. k \in KState /\ r \in KState
    BY EnqueueType DEF KInv
  <1>2. /\ r.queue = [k.queue EXCEPT ![o] = Append(k.queue[o], t)]
        /\ r.waiting_on = [k.waiting_on EXCEPT ![t] = o]
        /\ r.flags = [k.flags EXCEPT ![t] = "WAITING"]
    BY <1>1, EnqueueFields
  <1>3. /\ k.queue \in [Object -> Seq(Task)]
        /\ k.waiting_on \in [Task -> Object \cup {NULL}]
        /\ k.flags \in [Task -> Flag]
    BY <1>1 DEF KState
  <1> HIDE DEF r
  <1>4. \A p \in Object : \A i \in 1..Len(k.queue[p]) : k.queue[p][i] # t
    BY <1>3, RunQObject DEF KInv, QueuesConsistent
  <1>5. /\ Len(r.queue[o]) = Len(k.queue[o]) + 1
        /\ Len(k.queue[o]) \in Nat
        /\ \A i \in 1..Len(k.queue[o]) : r.queue[o][i] = k.queue[o][i]
        /\ r.queue[o][Len(k.queue[o]) + 1] = t
    BY <1>2, <1>3
  <1>6. \A p \in Object \ {o} : r.queue[p] = k.queue[p]
    BY <1>2, <1>3
  <1>7. ASSUME NEW p \in Object, NEW i \in 1..Len(r.queue[p]),
               NEW j \in 1..Len(r.queue[p]), r.queue[p][i] = r.queue[p][j]
        PROVE  i = j
    <2>1. CASE p # o
      BY <2>1, <1>6, <1>7 DEF KInv, QueuesConsistent
    <2>2. CASE p = o
      <3>1. /\ i \in 1..(Len(k.queue[o]) + 1)
            /\ j \in 1..(Len(k.queue[o]) + 1)
        BY <2>2, <1>5
      <3>2. CASE i \in 1..Len(k.queue[o]) /\ j \in 1..Len(k.queue[o])
        BY <2>2, <3>2, <1>5, <1>7 DEF KInv, QueuesConsistent
      <3>3. CASE i = Len(k.queue[o]) + 1 /\ j \in 1..Len(k.queue[o])
        BY <2>2, <3>3, <1>4, <1>5, <1>7
      <3>4. CASE i \in 1..Len(k.queue[o]) /\ j = Len(k.queue[o]) + 1
        BY <2>2, <3>4, <1>4, <1>5, <1>7
      <3> QED
        BY <3>1, <3>2, <3>3, <3>4, <1>5, SMTT(60)
    <2> QED
      BY <2>1, <2>2
  <1>8. ASSUME NEW p \in Object, NEW i \in 1..Len(r.queue[p])
        PROVE  r.waiting_on[r.queue[p][i]] = p
    <2>1. CASE p = o /\ i = Len(k.queue[o]) + 1
      BY <2>1, <1>2, <1>3, <1>5
    <2>2. CASE p = o /\ i # Len(k.queue[o]) + 1
      <3>1. i \in 1..Len(k.queue[o])
        BY <2>2, <1>5
      <3>2. k.queue[o][i] \in Task /\ k.queue[o][i] # t
        BY <3>1, <1>3, <1>4
      <3> QED
        BY <2>2, <3>1, <3>2, <1>2, <1>3, <1>5 DEF KInv, QueuesConsistent
    <2>3. CASE p # o
      <3>1. i \in 1..Len(k.queue[p]) /\ r.queue[p][i] = k.queue[p][i]
        BY <2>3, <1>6
      <3>2. k.queue[p][i] \in Task /\ k.queue[p][i] # t
        BY <3>1, <1>3, <1>4
      <3> QED
        BY <3>1, <3>2, <1>2, <1>3 DEF KInv, QueuesConsistent
    <2> QED
      BY <2>1, <2>2, <2>3
  <1>9. ASSUME NEW u \in Task, r.waiting_on[u] # NULL
        PROVE  \E i \in 1..Len(r.queue[r.waiting_on[u]]) :
                  r.queue[r.waiting_on[u]][i] = u
    <2>1. CASE u = t
      BY <2>1, <1>2, <1>3, <1>5
    <2>2. CASE u # t
      <3>1. r.waiting_on[u] = k.waiting_on[u]
        BY <2>2, <1>2, <1>3
      <3>2. k.waiting_on[u] \in Object
        BY <3>1, <1>9, <1>3
      <3>3. PICK i \in 1..Len(k.queue[k.waiting_on[u]]) :
                    k.queue[k.waiting_on[u]][i] = u
        BY <3>1, <1>9 DEF KInv, QueuesConsistent
      <3>4. i \in 1..Len(r.queue[k.waiting_on[u]])
            /\ r.queue[k.waiting_on[u]][i] = u
        <4>1. CASE k.waiting_on[u] = o
          <5>1. i \in 1..Len(k.queue[o]) /\ k.queue[o][i] = u
            BY <4>1, <3>3
          <5> QED
            BY <4>1, <5>1, <1>5
        <4>2. CASE k.waiting_on[u] # o
          <5>1. r.queue[k.waiting_on[u]] = k.queue[k.waiting_on[u]]
            BY <4>2, <3>2, <1>6
          <5> QED
            BY <5>1, <3>3
        <4> QED
          BY <4>1, <4>2
      <3> QED
        BY <3>1, <3>4
    <2> QED
      BY <2>1, <2>2
  <1> QED
    BY <1>7, <1>8, <1>9 DEF QueuesConsistent, r

LEMMA EnqueueInv ==
    ASSUME NEW k, KInv(k), NEW o \in Object, NEW t \in Task,
           k.waiting_on[t] = NULL, t # Idle, o # ReaperQ
    PROVE  KInv(RsrcEnqueue(k, o, t))
  <1> DEFINE r == RsrcEnqueue(k, o, t)
  <1>1. k \in KState /\ r \in KState
    BY EnqueueType DEF KInv
  <1>2. QueuesConsistent(r)
    BY EnqueueQueues
  <1>3. /\ r.waiting_on[t] = o /\ r.flags[t] = "WAITING"
        /\ \A u \in Task \ {t} : r.waiting_on[u] = k.waiting_on[u]
                               /\ r.flags[u] = k.flags[u]
    BY <1>1, EnqueueMoves
  <1> HIDE DEF r
  <1>4. FlagsConsistent(r)
    BY <1>3, RunQObject DEF KInv, FlagsConsistent
  <1>5. r.waiting_on[Idle] = NULL
    BY <1>3 DEF KInv, Task
  <1> QED
    BY <1>1, <1>2, <1>4, <1>5 DEF KInv, r

LEMMA DequeueInv ==
    ASSUME NEW k, KInv(k), NEW o \in Object, k.queue[o] # <<>>
    PROVE  KInv(RsrcDequeue(k, o))
  <1> DEFINE r == RsrcDequeue(k, o)
             t == Head(k.queue[o])
  <1>1. k \in KState /\ r \in KState /\ t \in Task
    BY DequeueType DEF KInv
  <1>2. /\ r.queue = [k.queue EXCEPT ![o] = Tail(k.queue[o])]
        /\ r.waiting_on = [k.waiting_on EXCEPT ![t] = NULL]
        /\ r.flags = [k.flags EXCEPT ![t] = "READY"]
    BY <1>1, DequeueFields
  <1>3. /\ k.queue \in [Object -> Seq(Task)]
        /\ k.waiting_on \in [Task -> Object \cup {NULL}]
        /\ k.flags \in [Task -> Flag]
    BY <1>1 DEF KState
  <1>4. k.waiting_on[t] = o /\ t = k.queue[o][1] /\ Len(k.queue[o]) >= 1
    BY HeadWaits
  <1> HIDE DEF r, t
  <1>5. /\ Len(r.queue[o]) = Len(k.queue[o]) - 1
        /\ Len(k.queue[o]) \in Nat
        /\ \A i \in 1..Len(r.queue[o]) : r.queue[o][i] = k.queue[o][i + 1]
    BY <1>2, <1>3, <1>4
  <1>6. \A p \in Object \ {o} : r.queue[p] = k.queue[p]
    BY <1>2, <1>3
  <1>7. ASSUME NEW p \in Object, NEW i \in 1..Len(r.queue[p]),
               NEW j \in 1..Len(r.queue[p]), r.queue[p][i] = r.queue[p][j]
        PROVE  i = j
    <2>1. CASE p # o
      BY <2>1, <1>6, <1>7 DEF KInv, QueuesConsistent
    <2>2. CASE p = o
      <3>1. /\ i + 1 \in 1..Len(k.queue[o]) /\ j + 1 \in 1..Len(k.queue[o])
            /\ k.queue[o][i + 1] = k.queue[o][j + 1]
        BY <2>2, <1>5, <1>7
      <3>2. i + 1 = j + 1
        BY <3>1 DEF KInv, QueuesConsistent
      <3> QED
        BY <3>2
    <2> QED
      BY <2>1, <2>2
  <1>8. ASSUME NEW p \in Object, NEW i \in 1..Len(r.queue[p])
        PROVE  r.waiting_on[r.queue[p][i]] = p
    <2>1. CASE p = o
      <3>1. /\ i + 1 \in 1..Len(k.queue[o]) /\ r.queue[o][i] = k.queue[o][i + 1]
            /\ 1 \in 1..Len(k.queue[o]) /\ i + 1 # 1
        BY <2>1, <1>5
      <3>2. k.queue[o][i + 1] # t
        BY <3>1, <1>4 DEF KInv, QueuesConsistent
      <3>3. k.queue[o][i + 1] \in Task
        BY <3>1, <1>3
      <3>4. k.waiting_on[k.queue[o][i + 1]] = o
        BY <3>1 DEF KInv, QueuesConsistent
      <3> QED
        BY <2>1, <3>1, <3>2, <3>3, <3>4, <1>2, <1>3
    <2>2. CASE p # o
      <3>1. i \in 1..Len(k.queue[p]) /\ r.queue[p][i] = k.queue[p][i]
        BY <2>2, <1>6
      <3>2. k.queue[p][i] \in Task /\ k.waiting_on[k.queue[p][i]] = p
        BY <3>1, <1>3 DEF KInv, QueuesConsistent
      <3>3. k.queue[p][i] # t
        BY <2>2, <3>2, <1>4
      <3> QED
        BY <3>1, <3>2, <3>3, <1>2, <1>3
    <2> QED
      BY <2>1, <2>2
  <1>9. ASSUME NEW u \in Task, r.waiting_on[u] # NULL
        PROVE  \E i \in 1..Len(r.queue[r.waiting_on[u]]) :
                  r.queue[r.waiting_on[u]][i] = u
    <2>1. u # t /\ r.waiting_on[u] = k.waiting_on[u]
      BY <1>9, <1>1, <1>2, <1>3
    <2>2. k.waiting_on[u] \in Object
      BY <2>1, <1>9, <1>3
    <2>3. PICK i \in 1..Len(k.queue[k.waiting_on[u]]) :
                  k.queue[k.waiting_on[u]][i] = u
      BY <2>1, <1>9 DEF KInv, QueuesConsistent
    <2>4. CASE k.waiting_on[u] # o
      BY <2>1, <2>2, <2>3, <2>4, <1>6
    <2>5. CASE k.waiting_on[u] = o
      <3>1. i # 1
        BY <2>1, <2>3, <2>5, <1>4
      <3>2. i - 1 \in 1..Len(r.queue[o]) /\ r.queue[o][i - 1] = u
        BY <2>3, <2>5, <3>1, <1>5
      <3> QED
        BY <2>1, <2>5, <3>2
    <2> QED
      BY <2>4, <2>5
  <1>10. QueuesConsistent(r)
    BY <1>7, <1>8, <1>9 DEF QueuesConsistent
  <1>11. FlagsConsistent(r)
    BY <1>1, <1>2, <1>3, RunQObject DEF KInv, FlagsConsistent
  <1>12. r.waiting_on[Idle] = NULL
    BY <1>1, <1>2, <1>3 DEF KInv, Task
  <1> QED
    BY <1>1, <1>10, <1>11, <1>12 DEF KInv, r

LEMMA RunInv ==
    ASSUME NEW k, KInv(k), NEW t \in Task, k.waiting_on[t] = NULL
    PROVE  KInv(Run(k, t)) /\ CurrentRuns(Run(k, t))
  <1> DEFINE r == Run(k, t)
  <1>1. k \in KState /\ r \in KState
    BY RunType DEF KInv
  <1>2. /\ r.queue = k.queue /\ r.waiting_on = k.waiting_on
        /\ r.flags = [k.flags EXCEPT ![t] = "RUNNING"] /\ r.current = t
    BY <1>1, RunFields
  <1>3. k.flags \in [Task -> Flag]
    BY <1>1 DEF KState
  <1> HIDE DEF r
  <1>4. QueuesConsistent(r)
    BY <1>2 DEF KInv, QueuesConsistent
  <1>5. FlagsConsistent(r)
    BY <1>2, <1>3, RunQObject DEF KInv, FlagsConsistent
  <1> QED
    BY <1>1, <1>2, <1>3, <1>4, <1>5 DEF KInv, CurrentRuns, r

LEMMA StatusInv ==
    ASSUME NEW k, KInv(k), NEW t \in Task, NEW s \in Status
    PROVE  KInv(SetStatus(k, t, s))
  <1> DEFINE r == SetStatus(k, t, s)
  <1>1. k \in KState /\ r \in KState
    BY StatusType DEF KInv
  <1>2. r.queue = k.queue /\ r.waiting_on = k.waiting_on /\ r.flags = k.flags
    BY <1>1, StatusFields
  <1> HIDE DEF r
  <1> QED
    BY <1>1, <1>2 DEF KInv, QueuesConsistent, FlagsConsistent, r

\* The tasks on a queue are those that say they wait there.
LEMMA OnQueue ==
    ASSUME NEW k, KInv(k), NEW o \in Object, NEW t \in Task
    PROVE  t \in Elems(k.queue[o]) <=> k.waiting_on[t] = o
  <1>1. ASSUME t \in Elems(k.queue[o])
        PROVE  k.waiting_on[t] = o
    BY <1>1 DEF Elems, KInv, QueuesConsistent
  <1>2. ASSUME k.waiting_on[t] = o
        PROVE  t \in Elems(k.queue[o])
    <2>1. k.waiting_on[t] # NULL
      BY <1>2, RunQObject
    <2> QED
      BY <1>2, <2>1 DEF Elems, KInv, QueuesConsistent
  <1> QED
    BY <1>1, <1>2

-----------------------------------------------------------------------------
(* Ready: the first n sleepers of o move to the tail of the run queue.      *)

\* SubSeq cuts a queue in two.
LEMMA Cut ==
    ASSUME NEW q \in Seq(Task), NEW n \in 0..Len(q)
    PROVE  /\ SubSeq(q, 1, n) \in Seq(Task)
           /\ SubSeq(q, n + 1, Len(q)) \in Seq(Task)
           /\ Len(SubSeq(q, 1, n)) = n
           /\ Len(SubSeq(q, n + 1, Len(q))) = Len(q) - n
           /\ \A i \in 1..n : SubSeq(q, 1, n)[i] = q[i]
           /\ \A i \in 1..(Len(q) - n) : SubSeq(q, n + 1, Len(q))[i] = q[n + i]
  <1>1. SubSeq(q, 1, n) \in Seq(Task) /\ Len(SubSeq(q, 1, n)) = n
        /\ \A i \in 1..n : SubSeq(q, 1, n)[i] = q[i]
    OBVIOUS
  <1>2. SubSeq(q, n + 1, Len(q)) \in Seq(Task)
        /\ Len(SubSeq(q, n + 1, Len(q))) = Len(q) - n
        /\ \A i \in 1..(Len(q) - n) : SubSeq(q, n + 1, Len(q))[i] = q[n + i]
    OBVIOUS
  <1> QED
    BY <1>1, <1>2

\* What appending one queue to another gives: the sleepers that are woken go
\* behind the run queue (Ready).
LEMMA Joined ==
    ASSUME NEW p \in Seq(Task), NEW q \in Seq(Task)
    PROVE  /\ Len(p \o q) = Len(p) + Len(q)
           /\ \A i \in 1..(Len(p) + Len(q)) :
                (p \o q)[i] = IF i <= Len(p) THEN p[i] ELSE q[i - Len(p)]
  OBVIOUS

LEMMA ReadyType ==
    ASSUME NEW k \in KState, NEW o \in Object, NEW n \in 0..Len(k.queue[o])
    PROVE  Ready(k, o, n) \in KState
  <1> DEFINE up == {k.queue[o][i] : i \in 1..n}
             C == k.queue[RunQ] \o SubSeq(k.queue[o], 1, n)
             D == SubSeq(k.queue[o], n + 1, Len(k.queue[o]))
             q == [k.queue EXCEPT ![RunQ] = C, ![o] = D]
             w == [t \in Task |-> IF t \in up THEN RunQ ELSE k.waiting_on[t]]
             f == [t \in Task |-> IF t \in up THEN "WAITING" ELSE k.flags[t]]
             y == [t \in Task |-> IF t \in up THEN 0 ELSE k.wait_time[t]]
  <1>a. RunQ \in Object
    BY DEF Object
  <1>0. k.waiting_on \in [Task -> Object \cup {NULL}]
    BY DEF KState
  <1>b. k.queue \in [Object -> Seq(Task)]
    BY DEF KState
  <1>c. C \in Seq(Task) /\ D \in Seq(Task)
    BY <1>a, <1>b, Cut
  <1>6. Ready(k, o, n) = [k EXCEPT !.queue = q, !.waiting_on = w,
                                   !.flags = f, !.wait_time = y]
    BY DEF Ready
  <1> HIDE DEF up, C, D
  <1>1. q \in [Object -> Seq(Task)]
    BY <1>a, <1>b, <1>c
  <1>2. w \in [Task -> Object \cup {NULL}]
    BY <1>a, <1>0
  <1>3. f \in [Task -> Flag]
    BY DEF KState, Flag
  <1>5. y \in [Task -> Nat]
    BY DEF KState
  <1> HIDE DEF q, w, f, y
  <1> QED
    BY <1>1, <1>2, <1>3, <1>5, <1>6 DEF KState

LEMMA ReadyQueues ==
    ASSUME NEW k \in KState, NEW o \in Object, NEW n \in 0..Len(k.queue[o]),
           o # RunQ
    PROVE  LET r == Ready(k, o, n)
           IN  /\ r.queue[RunQ] = k.queue[RunQ] \o SubSeq(k.queue[o], 1, n)
               /\ r.queue[o] = SubSeq(k.queue[o], n + 1, Len(k.queue[o]))
               /\ \A p \in Object \ {o, RunQ} : r.queue[p] = k.queue[p]
  <1> DEFINE C == k.queue[RunQ] \o SubSeq(k.queue[o], 1, n)
             D == SubSeq(k.queue[o], n + 1, Len(k.queue[o]))
             q == [k.queue EXCEPT ![RunQ] = C, ![o] = D]
  <1>1. Ready(k, o, n).queue = q
    BY DEF KState, Ready
  <1>2. k.queue \in [Object -> Seq(Task)] /\ RunQ \in Object
    BY DEF KState, Object
  <1> HIDE DEF C, D
  <1>3. /\ q[RunQ] = C /\ q[o] = D
        /\ \A p \in Object \ {o, RunQ} : q[p] = k.queue[p]
    BY <1>2
  <1> HIDE DEF q
  <1> QED
    BY <1>1, <1>3 DEF C, D

LEMMA ReadyFields ==
    ASSUME NEW k \in KState, NEW o \in Object, NEW n \in 0..Len(k.queue[o])
    PROVE  LET r == Ready(k, o, n)
               up == {k.queue[o][i] : i \in 1..n}
           IN  /\ \A t \in Task : r.waiting_on[t] =
                     IF t \in up THEN RunQ ELSE k.waiting_on[t]
               /\ \A t \in Task : r.flags[t] =
                     IF t \in up THEN "WAITING" ELSE k.flags[t]
               /\ r.current = k.current
               /\ r.live_tasks = k.live_tasks /\ r.stop = k.stop
               /\ r.status = k.status
  <1> DEFINE up == {k.queue[o][i] : i \in 1..n}
             r == Ready(k, o, n)
  <1>1. /\ r.waiting_on = [t \in Task |-> IF t \in up THEN RunQ
                                         ELSE k.waiting_on[t]]
        /\ r.flags = [t \in Task |-> IF t \in up THEN "WAITING"
                                    ELSE k.flags[t]]
        /\ r.current = k.current
        /\ r.live_tasks = k.live_tasks /\ r.stop = k.stop
        /\ r.status = k.status
    BY DEF KState, Ready
  <1> HIDE DEF r, up
  <1>2. /\ \A t \in Task : r.waiting_on[t] =
              IF t \in up THEN RunQ ELSE k.waiting_on[t]
        /\ \A t \in Task : r.flags[t] =
              IF t \in up THEN "WAITING" ELSE k.flags[t]
    BY <1>1
  <1> QED
    BY <1>1, <1>2 DEF r, up

LEMMA ReadyInv ==
    ASSUME NEW k, KInv(k), NEW o \in Object, NEW n \in 0..Len(k.queue[o]),
           o # RunQ
    PROVE  KInv(Ready(k, o, n))
  <1> DEFINE r == Ready(k, o, n)
             A == k.queue[RunQ]
             B == SubSeq(k.queue[o], 1, n)
             D == SubSeq(k.queue[o], n + 1, Len(k.queue[o]))
             C == A \o B
             up == {k.queue[o][i] : i \in 1..n}
  <1>1. k \in KState /\ r \in KState
    BY ReadyType DEF KInv
  <1>2. /\ \A t \in Task : r.waiting_on[t] =
              IF t \in up THEN RunQ ELSE k.waiting_on[t]
        /\ \A t \in Task : r.flags[t] =
              IF t \in up THEN "WAITING" ELSE k.flags[t]
    BY <1>1, ReadyFields
  <1>3. /\ k.queue \in [Object -> Seq(Task)]
        /\ k.waiting_on \in [Task -> Object \cup {NULL}]
        /\ k.flags \in [Task -> Flag]
        /\ k.queue[o] \in Seq(Task)
    BY <1>1 DEF KState
  <1>4. r.queue[RunQ] = C /\ r.queue[o] = D
        /\ \A p \in Object \ {o, RunQ} : r.queue[p] = k.queue[p]
    BY <1>1, ReadyQueues
  <1>c. /\ B \in Seq(Task) /\ D \in Seq(Task)
        /\ Len(B) = n /\ Len(D) = Len(k.queue[o]) - n
        /\ \A i \in 1..n : B[i] = k.queue[o][i]
        /\ \A i \in 1..(Len(k.queue[o]) - n) : D[i] = k.queue[o][n + i]
    BY <1>3, Cut
  <1>5. A \in Seq(Task) /\ Len(A) \in Nat /\ n \in Nat /\ Len(k.queue[o]) \in Nat
    BY <1>3, RunQObject
  <1>u. \A t \in Task : t \in up <=> \E i \in 1..n : k.queue[o][i] = t
    OBVIOUS
  <1> HIDE DEF r, A, B, C, D, up
  <1>q. /\ \A i, j \in 1..Len(k.queue[o]) :
              k.queue[o][i] = k.queue[o][j] => i = j
        /\ \A i \in 1..Len(k.queue[o]) :
              k.queue[o][i] \in Task /\ k.waiting_on[k.queue[o][i]] = o
    BY <1>3, <1>5 DEF KInv, QueuesConsistent
  <1>6. /\ \A i \in 1..Len(A) : A[i] \in Task /\ k.waiting_on[A[i]] = RunQ
        /\ \A i, j \in 1..Len(A) : A[i] = A[j] => i = j
    BY <1>5, RunQObject DEF KInv, QueuesConsistent, A
  <1>w. \A t \in up : k.waiting_on[t] = o /\ t \in Task
    <2> SUFFICES ASSUME NEW t \in up
                 PROVE  k.waiting_on[t] = o /\ t \in Task
      OBVIOUS
    <2>1. PICK i \in 1..n : k.queue[o][i] = t
      BY DEF up
    <2> QED
      BY <2>1, <1>q, <1>5
  <1>7. /\ \A i \in 1..n : B[i] \in up
        /\ \A i, j \in 1..n : B[i] = B[j] => i = j
        /\ \A i \in 1..Len(A), j \in 1..n : A[i] # B[j]
    <2>1. \A i \in 1..n : i \in 1..Len(k.queue[o])
      BY <1>5
    <2>2. \A i \in 1..n : B[i] \in up
      BY <2>1, <1>c, <1>q, <1>u
    <2>3. \A i, j \in 1..n : B[i] = B[j] => i = j
      BY <2>1, <1>c, <1>q
    <2>4. \A i \in 1..Len(A), j \in 1..n : A[i] # B[j]
      BY <2>2, <1>6, <1>w
    <2> QED
      BY <2>2, <2>3, <2>4
  <1>j. /\ Len(C) = Len(A) + Len(B)
        /\ \A i \in 1..(Len(A) + Len(B)) :
             C[i] = IF i <= Len(A) THEN A[i] ELSE B[i - Len(A)]
    <2>1. A \in Seq(Task) /\ B \in Seq(Task)
      BY <1>5, <1>c
    <2> QED
      BY <2>1, Joined DEF C
  <1>a. Len(C) = Len(A) + n
    BY <1>j, <1>c
  <1>b. \A i \in 1..(Len(A) + n) :
           C[i] = IF i <= Len(A) THEN A[i] ELSE B[i - Len(A)]
    BY <1>j, <1>c
  <1>8. ASSUME NEW i \in 1..n
        PROVE  Len(A) + i \in 1..Len(C) /\ C[Len(A) + i] = B[i]
    <2>1. Len(A) + i \in 1..(Len(A) + n) /\ ~(Len(A) + i <= Len(A))
          /\ Len(A) + i - Len(A) = i
      BY <1>5
    <2> QED
      BY <2>1, <1>a, <1>b
  <1>9. ASSUME NEW i \in 1..Len(C), NEW j \in 1..Len(C), C[i] = C[j]
        PROVE  i = j
    <2>1. CASE i \in 1..Len(A) /\ j \in 1..Len(A)
      BY <2>1, <1>a, <1>b, <1>5, <1>6, <1>9
    <2>2. CASE i \notin 1..Len(A) /\ j \notin 1..Len(A)
      <3>1. /\ i - Len(A) \in 1..n /\ j - Len(A) \in 1..n
            /\ B[i - Len(A)] = B[j - Len(A)]
        BY <2>2, <1>5, <1>a, <1>b, <1>9
      <3>2. i - Len(A) = j - Len(A)
        BY <3>1, <1>7
      <3> QED
        BY <3>2, <1>5
    <2>3. CASE i \in 1..Len(A) /\ j \notin 1..Len(A)
      <3>1. j - Len(A) \in 1..n /\ A[i] = B[j - Len(A)]
        BY <2>3, <1>5, <1>a, <1>b, <1>9
      <3> QED
        BY <3>1, <2>3, <1>7
    <2>4. CASE i \notin 1..Len(A) /\ j \in 1..Len(A)
      <3>1. i - Len(A) \in 1..n /\ A[j] = B[i - Len(A)]
        BY <2>4, <1>5, <1>a, <1>b, <1>9
      <3> QED
        BY <3>1, <2>4, <1>7
    <2> QED
      BY <2>1, <2>2, <2>3, <2>4
  <1>10. \A i \in 1..Len(C) : r.waiting_on[C[i]] = RunQ
    <2> SUFFICES ASSUME NEW i \in 1..Len(C)
                 PROVE  r.waiting_on[C[i]] = RunQ
      OBVIOUS
    <2>1. CASE i \in 1..Len(A)
      BY <2>1, <1>2, <1>5, <1>6, <1>a, <1>b
    <2>2. CASE i \notin 1..Len(A)
      <3>1. i - Len(A) \in 1..n /\ C[i] = B[i - Len(A)]
        BY <2>2, <1>5, <1>a, <1>b
      <3> QED
        BY <3>1, <1>2, <1>7, <1>w
    <2> QED
      BY <2>1, <2>2
  <1>d. ASSUME NEW i \in 1..Len(D)
        PROVE  /\ n + i \in 1..Len(k.queue[o]) /\ D[i] = k.queue[o][n + i]
               /\ r.waiting_on[D[i]] = o
               /\ \A j \in 1..Len(D) : D[i] = D[j] => i = j
    <2>1. \A j \in 1..Len(D) : n + j \in 1..Len(k.queue[o])
                               /\ D[j] = k.queue[o][n + j]
      BY <1>5, <1>c
    <2>2. D[i] \in Task /\ k.waiting_on[D[i]] = o
      BY <2>1, <1>q, SMTT(60)
    <2>3. D[i] \notin up
      <3> SUFFICES ASSUME D[i] \in up
                   PROVE  FALSE
        OBVIOUS
      <3>1. PICK j \in 1..n : k.queue[o][j] = D[i]
        BY <2>2, <1>u
      <3>2. j \in 1..Len(k.queue[o]) /\ j # n + i
        BY <1>5, <1>c
      <3> QED
        BY <3>1, <3>2, <2>1, <1>q
    <2>4. \A j \in 1..Len(D) : D[i] = D[j] => n + i = n + j
      BY <2>1, <1>q
    <2>5. \A j \in 1..Len(D) : n + i = n + j => i = j
      BY <1>5, <1>c
    <2> QED
      BY <2>1, <2>2, <2>3, <2>4, <2>5, <1>2
  <1>11. ASSUME NEW p \in Object, NEW i \in 1..Len(r.queue[p])
         PROVE  /\ r.waiting_on[r.queue[p][i]] = p
                /\ \A j \in 1..Len(r.queue[p]) :
                      r.queue[p][i] = r.queue[p][j] => i = j
    <2>1. CASE p = RunQ
      BY <2>1, <1>4, <1>9, <1>10
    <2>2. CASE p = o
      BY <2>2, <1>4, <1>d
    <2>3. CASE p # RunQ /\ p # o
      <3>1. r.queue[p] = k.queue[p]
        BY <2>3, <1>4
      <3>2. k.queue[p][i] \in Task /\ k.waiting_on[k.queue[p][i]] = p
        BY <3>1, <1>3 DEF KInv, QueuesConsistent
      <3>3. r.waiting_on[k.queue[p][i]] = p
        BY <2>3, <3>2, <1>2, <1>w
      <3> QED
        BY <3>1, <3>3 DEF KInv, QueuesConsistent
    <2> QED
      BY <2>1, <2>2, <2>3
  <1>12. ASSUME NEW u \in Task, r.waiting_on[u] # NULL
         PROVE  \E i \in 1..Len(r.queue[r.waiting_on[u]]) :
                   r.queue[r.waiting_on[u]][i] = u
    <2>1. CASE u \in up
      <3>1. PICK i \in 1..n : k.queue[o][i] = u
        BY <2>1, <1>u
      <3>2. Len(A) + i \in 1..Len(C) /\ C[Len(A) + i] = u
        BY <3>1, <1>8, <1>c
      <3> QED
        BY <2>1, <3>2, <1>2, <1>4
    <2>2. CASE u \notin up
      <3>1. r.waiting_on[u] = k.waiting_on[u] /\ k.waiting_on[u] \in Object
            /\ k.waiting_on[u] # NULL
        BY <2>2, <1>2, <1>3, <1>12
      <3>2. PICK i \in 1..Len(k.queue[k.waiting_on[u]]) :
                    k.queue[k.waiting_on[u]][i] = u
        BY <3>1 DEF KInv, QueuesConsistent
      <3>3. CASE k.waiting_on[u] = o
        <4>1. i \notin 1..n
          BY <2>2, <3>2, <3>3, <1>u
        <4>2. i - n \in 1..Len(D) /\ D[i - n] = k.queue[o][n + (i - n)]
              /\ n + (i - n) = i
          BY <4>1, <3>2, <3>3, <1>5, <1>c
        <4> QED
          BY <4>2, <3>1, <3>2, <3>3, <1>4
      <3>4. CASE k.waiting_on[u] = RunQ
        <4>1. i \in 1..Len(C) /\ C[i] = u
          BY <3>2, <3>4, <1>5, <1>a, <1>b DEF A
        <4> QED
          BY <4>1, <3>1, <3>4, <1>4
      <3>5. CASE k.waiting_on[u] # o /\ k.waiting_on[u] # RunQ
        <4>1. r.queue[k.waiting_on[u]] = k.queue[k.waiting_on[u]]
          BY <3>1, <3>5, <1>4
        <4> QED
          BY <4>1, <3>1, <3>2
      <3> QED
        BY <3>3, <3>4, <3>5
    <2> QED
      BY <2>1, <2>2
  <1>13. QueuesConsistent(r)
    BY <1>11, <1>12 DEF QueuesConsistent
  <1>14. FlagsConsistent(r)
    <2> SUFFICES ASSUME NEW u \in Task
                 PROVE  /\ r.flags[u] = "WAITING" <=>
                              r.waiting_on[u] \notin {NULL, ReaperQ}
                        /\ r.flags[u] = "DEAD" <=> r.waiting_on[u] = ReaperQ
      BY DEF FlagsConsistent
    <2>1. CASE u \in up
      BY <2>1, <1>2, RunQObject
    <2>2. CASE u \notin up
      BY <2>2, <1>2 DEF KInv, FlagsConsistent
    <2> QED
      BY <2>1, <2>2
  <1>15. r.waiting_on[Idle] = NULL
    BY <1>2, <1>w, RunQObject DEF KInv, Task
  <1> QED
    BY <1>1, <1>13, <1>14, <1>15 DEF KInv, r

-----------------------------------------------------------------------------
(* What a whole handler preserves.  A move is fair to the queues when it    *)
(* disturbs none but the run queue and loses no thread on the way.          *)

\* The running task runs, or gave up its place for one on a queue.
Leaving(k) == k.waiting_on[k.current] = NULL => k.flags[k.current] = "RUNNING"

\* Same queues but for the run queue, same threads, same reasons to wake.
Keeps(k, r) ==
    /\ \A o \in Object \ {RunQ} : r.queue[o] = k.queue[o]
    /\ \A t \in Thread : (t = r.current \/ r.waiting_on[t] # NULL)
                         <=> (t = k.current \/ k.waiting_on[t] # NULL)
    /\ r.live_tasks = k.live_tasks

LEMMA RequeueInv ==
    ASSUME NEW k, KInv(k), Leaving(k)
    PROVE  /\ KInv(Requeue(k)) /\ Keeps(k, Requeue(k))
           /\ Requeue(k).current = k.current
           /\ k.current # Idle => Requeue(k).waiting_on[k.current] # NULL
           /\ Requeue(k).stop = k.stop
  <1>1. k \in KState /\ k.current \in Task
    BY DEF KInv, KState
  <1>2. CASE k.flags[k.current] = "RUNNING" /\ k.current # Idle
    <2> DEFINE r == RsrcEnqueue(k, RunQ, k.current)
    <2>1. Requeue(k) = r
      BY <1>2 DEF Requeue
    <2>2. k.waiting_on[k.current] = NULL
      BY <1>1, <1>2, RunQObject DEF KInv, FlagsConsistent
    <2>3. KInv(r)
      BY <1>1, <1>2, <2>2, EnqueueInv, RunQObject
    <2>4. /\ \A p \in Object \ {RunQ} : r.queue[p] = k.queue[p]
          /\ r.waiting_on[k.current] = RunQ
          /\ \A u \in Task \ {k.current} : r.waiting_on[u] = k.waiting_on[u]
          /\ r.current = k.current
          /\ r.live_tasks = k.live_tasks /\ r.stop = k.stop
      BY <1>1, RunQObject, EnqueueMoves
    <2> HIDE DEF r
    <2>6. Keeps(k, r) /\ r.waiting_on[k.current] # NULL
      BY <1>1, <2>2, <2>4, RunQObject DEF Keeps, Task
    <2> QED
      BY <2>1, <2>3, <2>4, <2>6
  <1>3. CASE ~(k.flags[k.current] = "RUNNING" /\ k.current # Idle)
    <2>1. Requeue(k) = k
      BY <1>3 DEF Requeue
    <2> QED
      BY <1>3, <2>1 DEF Keeps, Leaving
  <1> QED
    BY <1>2, <1>3

\* swtch: somebody runs afterwards, unless the system is over.
LEMMA SwtchInv ==
    ASSUME NEW k, KInv(k), Leaving(k)
    PROVE  /\ KInv(Swtch(k)) /\ Keeps(k, Swtch(k))
           /\ \/ CurrentRuns(Swtch(k)) /\ Swtch(k).stop = k.stop
              \/ Swtch(k).stop = "exit" /\ k.live_tasks = 0
  <1>1. k \in KState /\ k.current \in Task
    BY DEF KInv, KState
  <1>2. CASE k.queue[RunQ] = <<>> /\ k.flags[k.current] = "RUNNING"
    <2>1. Swtch(k) = k
      BY <1>2 DEF Swtch
    <2>2. CurrentRuns(k)
      BY <1>1, <1>2, RunQObject DEF KInv, FlagsConsistent, CurrentRuns
    <2> QED
      BY <2>1, <2>2 DEF Keeps
  <1>3. CASE ~(k.queue[RunQ] = <<>> /\ k.flags[k.current] = "RUNNING")
    <2> DEFINE r == Requeue(k)
    <2>1. /\ KInv(r) /\ Keeps(k, r)
          /\ r.current = k.current
          /\ k.current # Idle => r.waiting_on[k.current] # NULL
          /\ r.stop = k.stop
      BY RequeueInv
    <2>2. Swtch(k) = IF r.queue[RunQ] # <<>>
                     THEN Run(RsrcDequeue(r, RunQ), Head(r.queue[RunQ]))
                     ELSE IF r.live_tasks # 0
                          THEN Run(r, Idle)
                          ELSE [r EXCEPT !.stop = "exit"]
      BY <1>3 DEF Swtch
    <2>t. r \in KState /\ r.live_tasks = k.live_tasks
      BY <2>1 DEF KInv, Keeps
    <2>b. /\ r.queue \in [Object -> Seq(Task)]
          /\ r.waiting_on \in [Task -> Object \cup {NULL}]
      BY <2>t DEF KState
    <2> HIDE DEF r
    <2>3. CASE r.queue[RunQ] # <<>>
      <3> DEFINE h == Head(r.queue[RunQ])
                 d == RsrcDequeue(r, RunQ)
                 x == Run(d, h)
      <3>1. KInv(d) /\ h \in Task /\ d \in KState /\ r.waiting_on[h] = RunQ
        BY <2>1, <2>3, RunQObject, DequeueInv, HeadWaits DEF KInv
      <3>2. /\ d.queue = [r.queue EXCEPT ![RunQ] = Tail(r.queue[RunQ])]
            /\ d.waiting_on = [r.waiting_on EXCEPT ![h] = NULL]
            /\ d.live_tasks = r.live_tasks /\ d.stop = r.stop
        BY <2>t, <2>3, RunQObject, DequeueFields
      <3> HIDE DEF d, h
      <3>3. d.waiting_on[h] = NULL
        BY <2>b, <3>1, <3>2
      <3>4. KInv(x) /\ CurrentRuns(x)
        BY <3>1, <3>3, RunInv
      <3>5. /\ x.queue = d.queue /\ x.waiting_on = d.waiting_on
            /\ x.current = h
            /\ x.live_tasks = d.live_tasks /\ x.stop = d.stop
        BY <3>1, RunFields
      <3> HIDE DEF x
      <3>6. Keeps(r, x)
        <4>1. \A o \in Object \ {RunQ} : x.queue[o] = r.queue[o]
          BY <2>b, <3>2, <3>5
        <4>2. ASSUME NEW t \in Thread
              PROVE  (t = x.current \/ x.waiting_on[t] # NULL)
                     <=> (t = r.current \/ r.waiting_on[t] # NULL)
          <5>1. t \in Task /\ t # Idle
            BY SchedAssumption DEF Task
          <5>2. CASE t = h
            BY <5>2, <3>1, <3>5, RunQObject
          <5>3. CASE t # h
            BY <5>1, <5>3, <2>1, <2>b, <3>2, <3>5
          <5> QED
            BY <5>2, <5>3
        <4> QED
          BY <4>1, <4>2, <3>2, <3>5 DEF Keeps
      <3>7. Keeps(k, x)
        BY <2>1, <3>6 DEF Keeps
      <3>8. Swtch(k) = x
        BY <2>2, <2>3 DEF x, d, h
      <3> QED
        BY <2>1, <3>2, <3>4, <3>5, <3>7, <3>8
    <2>4. CASE r.queue[RunQ] = <<>> /\ r.live_tasks # 0
      <3> DEFINE x == Run(r, Idle)
      <3>1. r.waiting_on[Idle] = NULL /\ Idle \in Task
        BY <2>1 DEF KInv, Task
      <3>2. KInv(x) /\ CurrentRuns(x)
        BY <2>1, <3>1, RunInv
      <3>3. /\ x.queue = r.queue /\ x.waiting_on = r.waiting_on
            /\ x.current = Idle
            /\ x.live_tasks = r.live_tasks /\ x.stop = r.stop
        BY <2>t, <3>1, RunFields
      <3>4. Swtch(k) = x
        BY <2>2, <2>4
      <3> HIDE DEF x
      <3>5. Keeps(r, x)
        <4>1. \A t \in Thread : t # Idle
          BY SchedAssumption
        <4> QED
          BY <4>1, <2>1, <3>3 DEF Keeps
      <3>6. Keeps(k, x)
        BY <2>1, <3>5 DEF Keeps
      <3> QED
        BY <2>1, <3>2, <3>3, <3>4, <3>6
    <2>5. CASE r.queue[RunQ] = <<>> /\ r.live_tasks = 0
      <3> DEFINE x == [r EXCEPT !.stop = "exit"]
      <3>1. Swtch(k) = x
        BY <2>2, <2>5
      <3>2. /\ x.queue = r.queue /\ x.waiting_on = r.waiting_on
            /\ x.flags = r.flags /\ x.current = r.current
            /\ x.live_tasks = r.live_tasks /\ x.stop = "exit"
            /\ x \in KState
        BY <2>t DEF KState
      <3> HIDE DEF x
      <3>3. KInv(x) /\ Keeps(r, x)
        BY <2>1, <3>2 DEF KInv, QueuesConsistent, FlagsConsistent, Keeps
      <3>4. Keeps(k, x)
        BY <2>1, <3>3 DEF Keeps
      <3> QED
        BY <2>t, <2>5, <3>1, <3>2, <3>3, <3>4
    <2> QED
      BY <2>3, <2>4, <2>5
  <1> QED
    BY <1>2, <1>3

\* wait_on: the running task ends up at the tail of the queue of o.
LEMMA WaitOnInv ==
    ASSUME NEW k, KInv(k), CurrentRuns(k), k.current # Idle,
           NEW o \in Object \ {RunQ, ReaperQ}
    PROVE  LET r == WaitOn(k, o)
           IN  /\ KInv(r)
               /\ r.queue[o] = Append(k.queue[o], k.current)
               /\ \A p \in Object \ {o, RunQ} : r.queue[p] = k.queue[p]
               /\ \A t \in Thread : (t = r.current \/ r.waiting_on[t] # NULL)
                                    <=> (t = k.current \/ k.waiting_on[t] # NULL)
               /\ r.live_tasks = k.live_tasks
               /\ \/ CurrentRuns(r) /\ r.stop = k.stop
                  \/ r.stop = "exit" /\ k.live_tasks = 0
  <1> DEFINE c == k.current
             a == SetStatus(k, c, "NONE")
             e == RsrcEnqueue(a, o, c)
             r == Swtch(e)
  <1>1. c \in Task /\ k \in KState /\ "NONE" \in Status
        /\ k.waiting_on[c] = NULL
    BY DEF KInv, KState, Status, CurrentRuns
  <1>2. KInv(a) /\ a \in KState
    BY <1>1, StatusInv DEF KInv
  <1>3. /\ a.queue = k.queue /\ a.waiting_on = k.waiting_on
        /\ a.flags = k.flags /\ a.current = c
        /\ a.live_tasks = k.live_tasks /\ a.stop = k.stop
    BY <1>1, StatusFields
  <1> HIDE DEF a, c
  <1>4. KInv(e)
    BY <1>1, <1>2, <1>3, EnqueueInv DEF c
  <1>5. /\ e.queue[o] = Append(a.queue[o], c)
        /\ \A p \in Object \ {o} : e.queue[p] = a.queue[p]
        /\ e.waiting_on[c] = o
        /\ \A u \in Task \ {c} : e.waiting_on[u] = a.waiting_on[u]
        /\ e.current = a.current
        /\ e.live_tasks = a.live_tasks /\ e.stop = a.stop
    BY <1>1, <1>2, EnqueueMoves
  <1> HIDE DEF e
  <1>6. Leaving(e)
    BY <1>3, <1>5, RunQObject DEF Leaving
  <1>7. /\ KInv(r) /\ Keeps(e, r)
        /\ \/ CurrentRuns(r) /\ r.stop = e.stop
           \/ r.stop = "exit" /\ e.live_tasks = 0
    BY <1>4, <1>6, SwtchInv
  <1>8. r = WaitOn(k, o)
    BY DEF WaitOn, e, a, c
  <1> HIDE DEF r
  <1>9. /\ r.queue[o] = Append(k.queue[o], c)
        /\ \A p \in Object \ {o, RunQ} : r.queue[p] = k.queue[p]
        /\ r.live_tasks = k.live_tasks
    BY <1>3, <1>5, <1>7 DEF Keeps
  <1>10. ASSUME NEW t \in Thread
         PROVE  (t = r.current \/ r.waiting_on[t] # NULL)
                <=> (t = c \/ k.waiting_on[t] # NULL)
    <2>1. t \in Task
      BY DEF Task
    <2>2. (t = e.current \/ e.waiting_on[t] # NULL)
          <=> (t = c \/ k.waiting_on[t] # NULL)
      BY <2>1, <1>3, <1>5, RunQObject
    <2> QED
      BY <2>2, <1>7 DEF Keeps
  <1> QED
    BY <1>3, <1>5, <1>7, <1>8, <1>9, <1>10 DEF c

\* A release with somebody asleep: the first sleeper runs, at once.
LEMMA HandOverInv ==
    ASSUME NEW k, KInv(k), CurrentRuns(k), NEW s \in Status,
           NEW o \in Object \ {RunQ}, k.queue[o] # <<>>
    PROVE  LET r == Preempt(RsrcDequeue(k, o), Head(k.queue[o]), s)
           IN  /\ KInv(r)
               /\ r.queue[o] = Tail(k.queue[o])
               /\ \A p \in Object \ {o, RunQ} : r.queue[p] = k.queue[p]
               /\ \A t \in Thread : (t = r.current \/ r.waiting_on[t] # NULL)
                                    <=> (t = k.current \/ k.waiting_on[t] # NULL)
               /\ r.live_tasks = k.live_tasks
               /\ CurrentRuns(r) /\ r.stop = k.stop
  <1> DEFINE c == k.current
             h == Head(k.queue[o])
             d == RsrcDequeue(k, o)
             e == IF d.current # Idle THEN RsrcEnqueue(d, RunQ, d.current) ELSE d
             x == Run(e, h)
             r == SetStatus(x, h, s)
  <1>1. c \in Task /\ k \in KState /\ k.waiting_on[c] = NULL
    BY DEF KInv, KState, CurrentRuns
  <1>2. KInv(d) /\ d \in KState /\ h \in Task /\ k.waiting_on[h] = o /\ h # c
    BY <1>1, DequeueInv, HeadWaits, RunQObject DEF KInv
  <1>3. /\ d.queue[o] = Tail(k.queue[o])
        /\ \A p \in Object \ {o} : d.queue[p] = k.queue[p]
        /\ d.waiting_on[h] = NULL
        /\ \A u \in Task \ {h} : d.waiting_on[u] = k.waiting_on[u]
        /\ d.current = c
        /\ d.live_tasks = k.live_tasks /\ d.stop = k.stop
    BY <1>1, DequeueMoves
  <1>r. r = Preempt(RsrcDequeue(k, o), Head(k.queue[o]), s)
    BY DEF Preempt
  <1> HIDE DEF c, d, h
  <1>4. /\ KInv(e) /\ e \in KState
        /\ \A p \in Object \ {RunQ} : e.queue[p] = d.queue[p]
        /\ e.waiting_on[h] = NULL
        /\ c # Idle => e.waiting_on[c] = RunQ
        /\ \A u \in Task \ {c} : e.waiting_on[u] = d.waiting_on[u]
        /\ e.live_tasks = d.live_tasks /\ e.stop = d.stop
    <2>1. CASE c # Idle
      <3> DEFINE f == RsrcEnqueue(d, RunQ, c)
      <3>1. e = f
        BY <2>1, <1>3
      <3>2. KInv(f)
        BY <2>1, <1>1, <1>2, <1>3, EnqueueInv, RunQObject
      <3>3. /\ \A p \in Object \ {RunQ} : f.queue[p] = d.queue[p]
            /\ f.waiting_on[c] = RunQ
            /\ \A u \in Task \ {c} : f.waiting_on[u] = d.waiting_on[u]
            /\ f.live_tasks = d.live_tasks /\ f.stop = d.stop
        BY <1>1, <1>2, EnqueueMoves, RunQObject
      <3> HIDE DEF f, e
      <3> QED
        BY <3>1, <3>2, <3>3, <1>2, <1>3 DEF KInv
    <2>2. CASE c = Idle
      <3>1. e = d
        BY <2>2, <1>3
      <3> HIDE DEF e
      <3> QED
        BY <2>2, <3>1, <1>2, <1>3
    <2> QED
      BY <2>1, <2>2
  <1> HIDE DEF e
  <1>5. KInv(x) /\ CurrentRuns(x) /\ x \in KState
    BY <1>2, <1>4, RunInv DEF KInv
  <1>6. /\ x.queue = e.queue /\ x.waiting_on = e.waiting_on /\ x.current = h
        /\ x.live_tasks = e.live_tasks /\ x.stop = e.stop
    BY <1>2, <1>4, RunFields
  <1> HIDE DEF x
  <1>7. KInv(r)
    BY <1>2, <1>5, StatusInv
  <1>8. /\ r.queue = x.queue /\ r.waiting_on = x.waiting_on
        /\ r.flags = x.flags /\ r.current = x.current
        /\ r.live_tasks = x.live_tasks /\ r.stop = x.stop
    BY <1>2, <1>5, StatusFields
  <1> HIDE DEF r
  <1>9. /\ r.queue[o] = Tail(k.queue[o])
        /\ \A p \in Object \ {o, RunQ} : r.queue[p] = k.queue[p]
        /\ r.live_tasks = k.live_tasks /\ r.stop = k.stop
    BY <1>3, <1>4, <1>6, <1>8
  <1>10. CurrentRuns(r)
    BY <1>5, <1>8 DEF CurrentRuns
  <1>11. ASSUME NEW t \in Thread
         PROVE  (t = r.current \/ r.waiting_on[t] # NULL)
                <=> (t = c \/ k.waiting_on[t] # NULL)
    <2>1. t \in Task /\ t # Idle
      BY SchedAssumption DEF Task
    <2>2. CASE t = h
      BY <2>2, <1>2, <1>6, <1>8, RunQObject
    <2>3. CASE t = c
      BY <2>1, <2>3, <1>4, <1>6, <1>8, RunQObject
    <2>4. CASE t # h /\ t # c
      BY <2>1, <2>4, <1>3, <1>4, <1>6, <1>8
    <2> QED
      BY <2>2, <2>3, <2>4
  <1> QED
    BY <1>r, <1>7, <1>9, <1>10, <1>11 DEF c

\* task_wake in a loop disturbs nobody who does not sleep on o.
LEMMA ReadyKeeps ==
    ASSUME NEW k, KInv(k), NEW o \in Object \ {RunQ},
           NEW n \in 0..Len(k.queue[o])
    PROVE  LET r == Ready(k, o, n)
           IN  /\ KInv(r)
               /\ \A t \in Task : r.waiting_on[t] = NULL <=> k.waiting_on[t] = NULL
               /\ r.current = k.current
               /\ Leaving(k) => Leaving(r)
               /\ CurrentRuns(k) => CurrentRuns(r)
  <1> DEFINE up == {k.queue[o][i] : i \in 1..n}
             r == Ready(k, o, n)
  <1>1. k \in KState /\ k.current \in Task /\ k.queue[o] \in Seq(Task)
    BY DEF KInv, KState
  <1>2. KInv(r)
    BY ReadyInv
  <1>3. /\ \A t \in Task : r.waiting_on[t] =
              IF t \in up THEN RunQ ELSE k.waiting_on[t]
        /\ \A t \in Task : r.flags[t] =
              IF t \in up THEN "WAITING" ELSE k.flags[t]
        /\ r.current = k.current
    BY <1>1, ReadyFields
  <1>4. \A t \in up : k.waiting_on[t] = o /\ o # NULL
    <2> SUFFICES ASSUME NEW t \in up
                 PROVE  k.waiting_on[t] = o /\ o # NULL
      OBVIOUS
    <2>1. PICK i \in 1..n : k.queue[o][i] = t
      OBVIOUS
    <2>2. i \in 1..Len(k.queue[o])
      BY <1>1
    <2> QED
      BY <2>1, <2>2, RunQObject DEF KInv, QueuesConsistent
  <1> HIDE DEF r, up
  <1>5. \A t \in Task : r.waiting_on[t] = NULL <=> k.waiting_on[t] = NULL
    BY <1>3, <1>4, RunQObject
  <1>6. Leaving(k) => Leaving(r)
    BY <1>1, <1>3, <1>4, <1>5 DEF Leaving
  <1>7. CurrentRuns(k) => CurrentRuns(r)
    BY <1>1, <1>3, <1>4, <1>5 DEF CurrentRuns
  <1> QED
    BY <1>2, <1>3, <1>5, <1>6, <1>7 DEF r

LEMMA WakeInv ==
    ASSUME NEW k, KInv(k), NEW o \in Object \ {RunQ},
           NEW n \in 0..Len(k.queue[o]), NEW s \in Status
    PROVE  LET r == Wake(k, o, n, s)
           IN  /\ KInv(r)
               /\ r.queue[o] = SubSeq(k.queue[o], n + 1, Len(k.queue[o]))
               /\ \A p \in Object \ {o, RunQ} : r.queue[p] = k.queue[p]
               /\ \A t \in Task : r.waiting_on[t] = NULL <=> k.waiting_on[t] = NULL
               /\ r.current = k.current
               /\ r.live_tasks = k.live_tasks /\ r.stop = k.stop
               /\ Leaving(k) => Leaving(r)
               /\ CurrentRuns(k) => CurrentRuns(r)
  <1> DEFINE up == {k.queue[o][i] : i \in 1..n}
             a == Ready(k, o, n)
             x == [t \in Task |-> IF t \in up THEN s ELSE k.status[t]]
             r == [a EXCEPT !.status = x]
  <1>1. k \in KState
    BY DEF KInv
  <1>2. r = Wake(k, o, n, s)
    BY DEF Wake
  <1>3. x \in [Task -> Status]
    BY <1>1 DEF KState
  <1>4. /\ KInv(a) /\ a \in KState
        /\ \A t \in Task : a.waiting_on[t] = NULL <=> k.waiting_on[t] = NULL
        /\ a.current = k.current
        /\ Leaving(k) => Leaving(a)
        /\ CurrentRuns(k) => CurrentRuns(a)
    BY ReadyKeeps DEF KInv
  <1>5. /\ a.queue[o] = SubSeq(k.queue[o], n + 1, Len(k.queue[o]))
        /\ \A p \in Object \ {o, RunQ} : a.queue[p] = k.queue[p]
    BY <1>1, ReadyQueues
  <1>6. a.live_tasks = k.live_tasks /\ a.stop = k.stop
    BY <1>1, ReadyFields
  <1> HIDE DEF a, x
  <1>7. /\ r.queue = a.queue /\ r.waiting_on = a.waiting_on
        /\ r.flags = a.flags /\ r.current = a.current
        /\ r.live_tasks = a.live_tasks /\ r.stop = a.stop
        /\ r \in KState
    BY <1>3, <1>4 DEF KState
  <1> HIDE DEF r
  <1>8. KInv(r)
    BY <1>4, <1>7, SMTT(60) DEF KInv, QueuesConsistent, FlagsConsistent
  <1>9. /\ Leaving(k) => Leaving(r)
        /\ CurrentRuns(k) => CurrentRuns(r)
    BY <1>4, <1>7 DEF Leaving, CurrentRuns
  <1> QED
    BY <1>2, <1>4, <1>5, <1>6, <1>7, <1>8, <1>9

\* while(...) task_wake(...) leaves nobody behind.
LEMMA WakeAllInv ==
    ASSUME NEW k, KInv(k), NEW o \in Object \ {RunQ}, NEW s \in Status
    PROVE  LET r == WakeAll(k, o, s)
           IN  /\ KInv(r)
               /\ r.queue[o] = <<>>
               /\ \A p \in Object \ {o, RunQ} : r.queue[p] = k.queue[p]
               /\ \A t \in Task : r.waiting_on[t] = NULL <=> k.waiting_on[t] = NULL
               /\ r.current = k.current
               /\ r.live_tasks = k.live_tasks /\ r.stop = k.stop
               /\ Leaving(k) => Leaving(r)
               /\ CurrentRuns(k) => CurrentRuns(r)
  <1>1. k.queue[o] \in Seq(Task)
    BY DEF KInv, KState
  <1> DEFINE n == Len(k.queue[o])
  <1>2. n \in 0..Len(k.queue[o])
    BY <1>1
  <1>3. SubSeq(k.queue[o], n + 1, Len(k.queue[o])) = <<>>
    BY <1>1
  <1>4. WakeAll(k, o, s) = Wake(k, o, n, s)
    BY DEF WakeAll
  <1> DEFINE r == Wake(k, o, n, s)
  <1> HIDE DEF n
  <1>5. /\ KInv(r)
        /\ r.queue[o] = SubSeq(k.queue[o], n + 1, Len(k.queue[o]))
        /\ \A p \in Object \ {o, RunQ} : r.queue[p] = k.queue[p]
        /\ \A t \in Task : r.waiting_on[t] = NULL <=> k.waiting_on[t] = NULL
        /\ r.current = k.current
        /\ r.live_tasks = k.live_tasks /\ r.stop = k.stop
        /\ Leaving(k) => Leaving(r)
        /\ CurrentRuns(k) => CurrentRuns(r)
    BY <1>2, WakeInv
  <1> HIDE DEF r
  <1> QED
    BY <1>3, <1>4, <1>5 DEF r

\* sem_release by hand, as wake_the_reaper does it.
LEMMA WakeOneInv ==
    ASSUME NEW k, KInv(k), NEW o \in Object \ {RunQ}, NEW s \in Status
    PROVE  LET r == WakeOne(k, o, s)
           IN  /\ KInv(r)
               /\ Len(k.queue[o]) \in {0, 1} => r.queue[o] = <<>>
               /\ \A p \in Object \ {o, RunQ} : r.queue[p] = k.queue[p]
               /\ \A t \in Task : r.waiting_on[t] = NULL <=> k.waiting_on[t] = NULL
               /\ r.current = k.current
               /\ r.live_tasks = k.live_tasks /\ r.stop = k.stop
               /\ Leaving(k) => Leaving(r)
  <1> DEFINE n == IF k.queue[o] = <<>> THEN 0 ELSE 1
             r == Wake(k, o, n, s)
             q == k.queue[o]
  <1>1. q \in Seq(Task)
    BY DEF KInv, KState
  <1>2. n \in 0..Len(q) /\ (Len(q) \in {0, 1} => n = Len(q))
    <2>1. CASE q = <<>>
      BY <2>1
    <2>2. CASE q # <<>>
      <3>1. Len(q) \in Nat /\ Len(q) >= 1 /\ n = 1
        BY <1>1, <2>2
      <3> QED
        BY <3>1
    <2> QED
      BY <2>1, <2>2
  <1>3. WakeOne(k, o, s) = r
    BY DEF WakeOne
  <1> HIDE DEF n
  <1>4. /\ KInv(r)
        /\ r.queue[o] = SubSeq(q, n + 1, Len(q))
        /\ \A p \in Object \ {o, RunQ} : r.queue[p] = k.queue[p]
        /\ \A t \in Task : r.waiting_on[t] = NULL <=> k.waiting_on[t] = NULL
        /\ r.current = k.current
        /\ r.live_tasks = k.live_tasks /\ r.stop = k.stop
        /\ Leaving(k) => Leaving(r)
    BY <1>2, WakeInv
  <1> HIDE DEF r, q
  <1>5. ASSUME Len(q) \in {0, 1}
        PROVE  SubSeq(q, n + 1, Len(q)) = <<>>
    <2>1. n = Len(q) /\ Len(q) \in Nat
      BY <1>2, <1>5
    <2> QED
      BY <1>1, <2>1
  <1> QED
    BY <1>3, <1>4, <1>5 DEF q, r

LEMMA BuryInv ==
    ASSUME NEW k, KInv(k), CurrentRuns(k), k.current # Idle
    PROVE  LET r == Bury(k)
           IN  /\ KInv(r) /\ Leaving(r)
               /\ r.queue[ReaperQ] = Append(k.queue[ReaperQ], k.current)
               /\ \A p \in Object \ {ReaperQ} : r.queue[p] = k.queue[p]
               /\ r.waiting_on[k.current] = ReaperQ
               /\ \A t \in Task \ {k.current} : r.waiting_on[t] = k.waiting_on[t]
               /\ r.current = k.current
               /\ r.live_tasks = k.live_tasks - 1 /\ r.stop = k.stop
  <1> DEFINE c == k.current
             e == RsrcEnqueue(k, ReaperQ, c)
             f == [e.flags EXCEPT ![c] = "DEAD"]
             l == e.live_tasks - 1
             r == [e EXCEPT !.live_tasks = l, !.flags = f]
  <1>1. c \in Task /\ k \in KState /\ k.waiting_on[c] = NULL
    BY DEF KInv, KState, CurrentRuns
  <1>2. r = Bury(k)
    BY DEF Bury
  <1> HIDE DEF c
  <1>3. e \in KState /\ QueuesConsistent(e)
    BY <1>1, EnqueueType, EnqueueQueues, RunQObject
  <1>4. /\ e.queue[ReaperQ] = Append(k.queue[ReaperQ], c)
        /\ \A p \in Object \ {ReaperQ} : e.queue[p] = k.queue[p]
        /\ e.waiting_on[c] = ReaperQ
        /\ \A u \in Task \ {c} : e.waiting_on[u] = k.waiting_on[u]
                               /\ e.flags[u] = k.flags[u]
        /\ e.current = k.current
        /\ e.live_tasks = k.live_tasks /\ e.stop = k.stop
    BY <1>1, EnqueueMoves, RunQObject
  <1> HIDE DEF e
  <1>5. f \in [Task -> Flag] /\ f[c] = "DEAD"
        /\ \A u \in Task \ {c} : f[u] = k.flags[u]
    BY <1>1, <1>3, <1>4 DEF KState, Flag
  <1>l. l \in Int
    BY <1>3 DEF KState
  <1> HIDE DEF f, l
  <1>6. /\ r.queue = e.queue /\ r.waiting_on = e.waiting_on
        /\ r.flags = f /\ r.current = e.current
        /\ r.live_tasks = l /\ r.stop = e.stop
        /\ r \in KState
    BY <1>3, <1>5, <1>l DEF KState
  <1> HIDE DEF r
  <1>7. QueuesConsistent(r)
    BY <1>3, <1>6 DEF QueuesConsistent
  <1>8. FlagsConsistent(r)
    BY <1>4, <1>5, <1>6, RunQObject DEF KInv, FlagsConsistent
  <1>9. r.waiting_on[Idle] = NULL
    BY <1>4, <1>6 DEF KInv, Task, c
  <1>10. Leaving(r)
    BY <1>4, <1>6, RunQObject DEF Leaving, c
  <1> QED
    BY <1>2, <1>4, <1>6, <1>7, <1>8, <1>9, <1>10 DEF KInv, c, l

\* os_sleep: the running task leaves with the tick it wants to be woken at.
LEMMA EnqueueOrderedInv ==
    ASSUME NEW k, KInv(k), NEW o \in Object \ {ReaperQ}, NEW t \in Task,
           NEW when \in Nat, k.waiting_on[t] = NULL, t # Idle
    PROVE  LET r == RsrcEnqueueOrdered(k, o, t, when)
           IN  /\ KInv(r)
               /\ r.queue[o] = Append(k.queue[o], t)
               /\ \A p \in Object \ {o} : r.queue[p] = k.queue[p]
               /\ r.waiting_on[t] = o
               /\ \A u \in Task \ {t} : r.waiting_on[u] = k.waiting_on[u]
               /\ r.current = k.current
               /\ r.live_tasks = k.live_tasks /\ r.stop = k.stop
  <1> DEFINE e == RsrcEnqueue(k, o, t)
             x == [e.wait_time EXCEPT ![t] = when]
             r == [e EXCEPT !.wait_time = x]
  <1>1. k \in KState
    BY DEF KInv
  <1>2. r = RsrcEnqueueOrdered(k, o, t, when)
    BY DEF RsrcEnqueueOrdered
  <1>3. KInv(e) /\ e \in KState
    BY EnqueueInv DEF KInv
  <1>4. /\ e.queue[o] = Append(k.queue[o], t)
        /\ \A p \in Object \ {o} : e.queue[p] = k.queue[p]
        /\ e.waiting_on[t] = o
        /\ \A u \in Task \ {t} : e.waiting_on[u] = k.waiting_on[u]
        /\ e.current = k.current
        /\ e.live_tasks = k.live_tasks /\ e.stop = k.stop
    BY <1>1, EnqueueMoves
  <1> HIDE DEF e
  <1>5. x \in [Task -> Nat]
    BY <1>3 DEF KState
  <1> HIDE DEF x
  <1>6. /\ r.queue = e.queue /\ r.waiting_on = e.waiting_on
        /\ r.flags = e.flags /\ r.current = e.current
        /\ r.live_tasks = e.live_tasks /\ r.stop = e.stop
        /\ r \in KState
    BY <1>3, <1>5 DEF KState
  <1> HIDE DEF r
  <1>7. KInv(r)
    BY <1>3, <1>6 DEF KInv, QueuesConsistent, FlagsConsistent
  <1> QED
    BY <1>2, <1>4, <1>6, <1>7

\* new_thread and thr_spawn: a task that was nowhere waits for its turn.
LEMMA BirthInv ==
    ASSUME NEW k, KInv(k), CurrentRuns(k), NEW t \in Task, t # Idle,
           k.waiting_on[t] = NULL, t # k.current
    PROVE  LET r == [RsrcEnqueue(k, RunQ, t) EXCEPT !.live_tasks = @ + 1]
           IN  /\ KInv(r) /\ CurrentRuns(r)
               /\ \A p \in Object \ {RunQ} : r.queue[p] = k.queue[p]
               /\ r.waiting_on[t] = RunQ
               /\ \A u \in Task \ {t} : r.waiting_on[u] = k.waiting_on[u]
               /\ r.current = k.current /\ r.stop = k.stop
               /\ r.live_tasks = k.live_tasks + 1
  <1> DEFINE e == RsrcEnqueue(k, RunQ, t)
             l == e.live_tasks + 1
             r == [e EXCEPT !.live_tasks = l]
  <1>1. k \in KState /\ k.current \in Task
    BY DEF KInv, KState
  <1>2. r = [RsrcEnqueue(k, RunQ, t) EXCEPT !.live_tasks = @ + 1]
    OBVIOUS
  <1>3. KInv(e) /\ e \in KState
    BY EnqueueInv, RunQObject DEF KInv
  <1>4. /\ \A p \in Object \ {RunQ} : e.queue[p] = k.queue[p]
        /\ e.waiting_on[t] = RunQ
        /\ \A u \in Task \ {t} : e.waiting_on[u] = k.waiting_on[u]
                               /\ e.flags[u] = k.flags[u]
        /\ e.current = k.current
        /\ e.live_tasks = k.live_tasks /\ e.stop = k.stop
    BY <1>1, EnqueueMoves, RunQObject
  <1> HIDE DEF e
  <1>5. l \in Int
    BY <1>3 DEF KState
  <1> HIDE DEF l
  <1>6. /\ r.queue = e.queue /\ r.waiting_on = e.waiting_on
        /\ r.flags = e.flags /\ r.current = e.current
        /\ r.live_tasks = l /\ r.stop = e.stop
        /\ r \in KState
    BY <1>3, <1>5 DEF KState
  <1> HIDE DEF r
  <1>7. KInv(r)
    BY <1>3, <1>6 DEF KInv, QueuesConsistent, FlagsConsistent
  <1>8. CurrentRuns(r)
    BY <1>1, <1>4, <1>6 DEF CurrentRuns
  <1> QED
    BY <1>2, <1>4, <1>6, <1>7, <1>8 DEF l

-----------------------------------------------------------------------------
(* What a task that sleeps is told: task->status.                            *)

LEMMA HeadOff ==
    ASSUME NEW q \in Seq(Task), q # <<>>
    PROVE  /\ Len(q) \in Nat \ {0} /\ Head(q) = q[1] /\ Head(q) \in Elems(q)
           /\ SubSeq(q, 2, Len(q)) = Tail(q)
           /\ Elems(Tail(q)) \subseteq Elems(q)
  <1>1. /\ Len(q) \in Nat \ {0} /\ Head(q) = q[1]
        /\ SubSeq(q, 2, Len(q)) = Tail(q)
    OBVIOUS
  <1>2. Head(q) \in Elems(q)
    BY <1>1 DEF Elems
  <1>3. ASSUME NEW x \in Elems(Tail(q))
        PROVE  x \in Elems(q)
    <2>1. PICK i \in 1..Len(Tail(q)) : x = Tail(q)[i]
      BY DEF Elems
    <2>2. i + 1 \in 1..Len(q) /\ x = q[i + 1]
      BY <1>1, <2>1
    <2> QED
      BY <2>2 DEF Elems
  <1> QED
    BY <1>1, <1>2, <1>3

LEMMA WakeStatus ==
    ASSUME NEW s, KInv(s), NEW o \in Object \ {RunQ},
           NEW n \in 0..Len(s.queue[o]), NEW why \in Status
    PROVE  \A t \in Task : Wake(s, o, n, why).status[t] =
              IF \E i \in 1..n : t = s.queue[o][i] THEN why ELSE s.status[t]
  <1> DEFINE r == Ready(s, o, n)
             x == [t \in Task |-> IF t \in {s.queue[o][i] : i \in 1..n} THEN why
                                  ELSE s.status[t]]
  <1>1. r \in KState
    BY ReadyType DEF KInv
  <1>2. r.status = s.status
    BY DEF Ready, KInv, KState
  <1>3. Wake(s, o, n, why) = [r EXCEPT !.status = [t \in Task |->
            IF t \in {s.queue[o][i] : i \in 1..n} THEN why ELSE r.status[t]]]
    BY DEF Wake, Ready, KInv, KState
  <1> HIDE DEF r
  <1>4. Wake(s, o, n, why).status = x
    BY <1>1, <1>2, <1>3 DEF KState
  <1> QED
    BY <1>4

\* The first sleeper leaves, and is told; the others stay.
LEMMA WakeFirst ==
    ASSUME NEW s, KInv(s), NEW o \in Object \ {RunQ}, NEW why \in Status
    PROVE  LET r == WakeOne(s, o, why)
           IN  /\ KInv(r)
               /\ Leaving(s) => Leaving(r)
               /\ CurrentRuns(s) => CurrentRuns(r)
               /\ r.queue[o] = IF s.queue[o] = <<>> THEN <<>> ELSE Tail(s.queue[o])
               /\ \A p \in Object \ {o, RunQ} : r.queue[p] = s.queue[p]
               /\ \A t \in Task : r.status[t] =
                     IF s.queue[o] # <<>> /\ t = Head(s.queue[o]) THEN why
                     ELSE s.status[t]
               /\ \A t \in Task : r.waiting_on[t] = NULL <=> s.waiting_on[t] = NULL
               /\ r.current = s.current
               /\ r.live_tasks = s.live_tasks /\ r.stop = s.stop
  <1> DEFINE q == s.queue[o]
             n == IF q = <<>> THEN 0 ELSE 1
             r == Wake(s, o, n, why)
  <1>1. q \in Seq(Task)
    BY DEF KInv, KState
  <1>2. n \in 0..Len(q)
    BY <1>1, HeadOff
  <1>3. WakeOne(s, o, why) = r
    BY DEF WakeOne
  <1>4. /\ KInv(r)
        /\ Leaving(s) => Leaving(r)
        /\ CurrentRuns(s) => CurrentRuns(r)
        /\ r.queue[o] = SubSeq(q, n + 1, Len(q))
        /\ \A p \in Object \ {o, RunQ} : r.queue[p] = s.queue[p]
        /\ \A t \in Task : r.waiting_on[t] = NULL <=> s.waiting_on[t] = NULL
        /\ r.current = s.current
        /\ r.live_tasks = s.live_tasks /\ r.stop = s.stop
    BY <1>2, WakeInv, ZenonT(60)
  <1>5. \A t \in Task : r.status[t] =
            IF \E i \in 1..n : t = q[i] THEN why ELSE s.status[t]
    BY <1>2, WakeStatus
  <1> HIDE DEF r
  <1>6. r.queue[o] = IF q = <<>> THEN <<>> ELSE Tail(q)
    <2>1. CASE q = <<>>
      BY <1>1, <1>4, <2>1
    <2>2. CASE q # <<>>
      BY <1>1, <1>4, <2>2, HeadOff
    <2> QED
      BY <2>1, <2>2
  <1>7. \A t \in Task : (\E i \in 1..n : t = q[i]) <=> (q # <<>> /\ t = Head(q))
    <2>1. CASE q = <<>>
      BY <2>1
    <2>2. CASE q # <<>>
      BY <1>1, <2>2, HeadOff
    <2> QED
      BY <2>1, <2>2
  <1> HIDE DEF q, n
  <1>8. \A t \in Task : r.status[t] =
            IF q # <<>> /\ t = Head(q) THEN why ELSE s.status[t]
    BY <1>5, <1>7
  <1> QED
    BY <1>3, <1>4, <1>6, <1>8 DEF q

\* rsrc_release: all leave, and are told.
LEMMA WakeEach ==
    ASSUME NEW s, KInv(s), NEW o \in Object \ {RunQ}
    PROVE  LET r == RsrcRelease(s, o)
           IN  /\ KInv(r)
               /\ Leaving(s) => Leaving(r)
               /\ CurrentRuns(s) => CurrentRuns(r)
               /\ r.queue[o] = <<>>
               /\ \A p \in Object \ {o, RunQ} : r.queue[p] = s.queue[p]
               /\ \A t \in Task : r.status[t] =
                     IF t \in Elems(s.queue[o]) THEN "RESOURCE" ELSE s.status[t]
               /\ \A t \in Task : r.waiting_on[t] = NULL <=> s.waiting_on[t] = NULL
               /\ r.current = s.current
               /\ r.live_tasks = s.live_tasks /\ r.stop = s.stop
  <1> DEFINE n == Len(s.queue[o])
             r == WakeAll(s, o, "RESOURCE")
  <1>1. s.queue[o] \in Seq(Task) /\ n \in 0..n /\ "RESOURCE" \in Status
    BY DEF KInv, KState, Status
  <1>2. RsrcRelease(s, o) = r
    BY DEF RsrcRelease
  <1>3. /\ KInv(r) /\ r.queue[o] = <<>>
        /\ Leaving(s) => Leaving(r)
        /\ CurrentRuns(s) => CurrentRuns(r)
        /\ \A p \in Object \ {o, RunQ} : r.queue[p] = s.queue[p]
        /\ \A t \in Task : r.waiting_on[t] = NULL <=> s.waiting_on[t] = NULL
        /\ r.current = s.current
        /\ r.live_tasks = s.live_tasks /\ r.stop = s.stop
    BY <1>1, WakeAllInv
  <1>4. \A t \in Task : r.status[t] =
            IF \E i \in 1..n : t = s.queue[o][i] THEN "RESOURCE" ELSE s.status[t]
    BY <1>1, WakeStatus DEF WakeAll
  <1> HIDE DEF r
  <1>5. \A t \in Task : r.status[t] =
            IF t \in Elems(s.queue[o]) THEN "RESOURCE" ELSE s.status[t]
    BY <1>4 DEF Elems
  <1> QED
    BY <1>2, <1>3, <1>5

LEMMA SwtchStatus ==
    ASSUME NEW s \in KState
    PROVE  Swtch(s).status = s.status
  <1>1. s.current \in Task
    BY DEF KState
  <1>2. Requeue(s) \in KState /\ Requeue(s).status = s.status
    <2>1. RunQ \in Object
      BY RunQObject
    <2> QED
      BY <1>1, <2>1, EnqueueType, EnqueueFields, ZenonT(60) DEF Requeue
  <1> DEFINE r == Requeue(s)
  <1> HIDE DEF r
  <1>3. r \in KState /\ r.status = s.status /\ RunQ \in Object /\ Idle \in Task
    BY <1>2, RunQObject DEF r, Task
  <1>4. CASE r.queue[RunQ] # <<>>
    <2> DEFINE d == RsrcDequeue(r, RunQ)
               h == Head(r.queue[RunQ])
    <2>1. d \in KState /\ h \in Task /\ d.status = r.status
      BY <1>3, <1>4, DequeueType, DequeueFields
    <2> HIDE DEF d, h
    <2>2. Run(d, h).status = r.status
      BY <2>1, RunFields
    <2> QED
      BY <1>3, <1>4, <2>2 DEF Swtch, d, h, r
  <1>5. CASE r.queue[RunQ] = <<>>
    <2>1. Run(r, Idle).status = r.status
      BY <1>3, RunFields
    <2>2. [r EXCEPT !.stop = "exit"].status = r.status
      BY <1>3 DEF KState
    <2> QED
      BY <1>3, <1>5, <2>1, <2>2 DEF Swtch, r
  <1> QED
    BY <1>4, <1>5

LEMMA WaitStatus ==
    ASSUME NEW s \in KState, NEW o \in Object
    PROVE  \A t \in Task : WaitOn(s, o).status[t] =
              IF t = s.current THEN "NONE" ELSE s.status[t]
  <1> DEFINE c == s.current
             a == SetStatus(s, c, "NONE")
             e == RsrcEnqueue(a, o, c)
             x == s.status
  <1>1. c \in Task /\ "NONE" \in Status /\ x \in [Task -> Status]
    BY DEF KState, Status
  <1>2. a \in KState /\ a.status = [x EXCEPT ![c] = "NONE"]
    BY <1>1, StatusType DEF SetStatus, KState
  <1> HIDE DEF a
  <1>3. e \in KState
    BY <1>1, <1>2, EnqueueType
  <1>4. e.status = a.status
    BY <1>1, <1>2 DEF RsrcEnqueue, KState
  <1> HIDE DEF e
  <1>5. WaitOn(s, o) = Swtch(e)
    BY DEF WaitOn, e, a
  <1>6. WaitOn(s, o).status = [x EXCEPT ![c] = "NONE"]
    BY <1>2, <1>3, <1>4, <1>5, SwtchStatus
  <1> HIDE DEF x
  <1>7. \A t \in Task : WaitOn(s, o).status[t] = IF t = c THEN "NONE" ELSE x[t]
    BY <1>1, <1>6
  <1> QED
    BY <1>7 DEF x
=============================================================================
