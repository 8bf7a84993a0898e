---------------------------- MODULE OwnersProofs ----------------------------
(***************************************************************************)
(* Teams, what they own, and death, for any number of threads, semaphores   *)
(* and teams: live_tasks, the references of a team and its list count the   *)
(* same threads, and a thread that died does not come back.                 *)
(*                                                                         *)
(* The lists are seen as sets: what is on them, each thing once and on one  *)
(* list.  Death needs no invariant of its own beside IInv: only terminate   *)
(* and the reaper touch the queue of the dead, or the sleepers of a thread. *)
(***************************************************************************)
EXTENDS ThreadsProofs, FiniteSetTheorems

\* What live_tasks counts, beside the two kernel threads.
Living == {t \in Thread : t \in bound /\ k.flags[t] # "DEAD"}

Members(m) == {t \in Thread : team[t] = m}

\* A list holds nothing twice.
Once(l) == \A i, j \in 1..Len(l) : l[i] = l[j] => i = j

\* Everything that exists is on one list, once, and a thread on its team's.
ListsKnown ==
    /\ \A m \in Team : Once(resources[m])
    /\ \A m, n \in Team : \A x \in Elems(resources[m]) \cap Elems(resources[n]) :
          m = n
    /\ \A m \in Team : \A x \in Elems(resources[m]) : x \in bound /\ m \in bound
    /\ \A x \in Owned \cap bound : \E m \in Team : x \in Elems(resources[m])
    /\ \A t \in Thread, m \in Team : team[t] = m <=> t \in Elems(resources[m])

Referenced == \A m \in Team : refcount[m] = Cardinality(Members(m))

OInv ==
    /\ IInv
    /\ LiveTasks
    /\ ListsKnown
    /\ Referenced

-----------------------------------------------------------------------------
(* Lists as sets.                                                           *)

LEMMA AppendSet ==
    ASSUME NEW l \in Seq(Owned), NEW x \in Owned, Once(l), x \notin Elems(l)
    PROVE  /\ Append(l, x) \in Seq(Owned)
           /\ Elems(Append(l, x)) = Elems(l) \cup {x}
           /\ Once(Append(l, x))
  <1> DEFINE a == Append(l, x)
  <1>1. /\ a \in Seq(Owned) /\ Len(a) = Len(l) + 1 /\ Len(l) \in Nat
        /\ a[Len(l) + 1] = x
        /\ \A i \in 1..Len(l) : a[i] = l[i]
    OBVIOUS
  <1> HIDE DEF a
  <1>2. \A i \in 1..Len(l) : l[i] # x
    BY DEF Elems
  <1>3. Once(a)
    BY <1>1, <1>2 DEF Once
  <1>4. Elems(a) = Elems(l) \cup {x}
    <2>1. ASSUME NEW y \in Elems(a)
          PROVE  y \in Elems(l) \cup {x}
      BY <1>1 DEF Elems
    <2>2. ASSUME NEW y \in Elems(l)
          PROVE  y \in Elems(a)
      BY <1>1 DEF Elems
    <2>3. x \in Elems(a)
      BY <1>1 DEF Elems
    <2> QED
      BY <2>1, <2>2, <2>3
  <1> QED
    BY <1>1, <1>3, <1>4 DEF a

LEMMA TailSet ==
    ASSUME NEW l \in Seq(Owned), l # <<>>, Once(l)
    PROVE  /\ Tail(l) \in Seq(Owned) /\ Head(l) \in Elems(l)
           /\ Elems(Tail(l)) = Elems(l) \ {Head(l)}
           /\ Once(Tail(l))
  <1> DEFINE r == Tail(l)
             h == Head(l)
  <1>1. /\ r \in Seq(Owned) /\ Len(r) = Len(l) - 1 /\ Len(l) \in Nat \ {0}
        /\ h = l[1]
        /\ \A i \in 1..Len(r) : r[i] = l[i + 1]
    OBVIOUS
  <1> HIDE DEF r, h
  <1>2. Once(r)
    <2> SUFFICES ASSUME NEW i \in 1..Len(r), NEW j \in 1..Len(r), r[i] = r[j]
                 PROVE  i = j
      BY DEF Once
    <2>1. i + 1 \in 1..Len(l) /\ j + 1 \in 1..Len(l) /\ l[i + 1] = l[j + 1]
      BY <1>1
    <2>2. i + 1 = j + 1
      BY <2>1 DEF Once
    <2> QED
      BY <2>2
  <1>3. ASSUME NEW y \in Elems(r)
        PROVE  y \in Elems(l) /\ y # h
    <2>1. PICK i \in 1..Len(r) : y = r[i]
      BY DEF Elems
    <2>2. i + 1 \in 1..Len(l) /\ y = l[i + 1] /\ 1 \in 1..Len(l) /\ i + 1 # 1
      BY <1>1, <2>1
    <2> QED
      BY <1>1, <2>2 DEF Elems, Once
  <1>4. ASSUME NEW y \in Elems(l), y # h
        PROVE  y \in Elems(r)
    <2>1. PICK i \in 1..Len(l) : y = l[i]
      BY DEF Elems
    <2>2. i - 1 \in 1..Len(r) /\ r[i - 1] = y
      BY <1>1, <1>4, <2>1
    <2> QED
      BY <2>2 DEF Elems
  <1>5. h \in Elems(l)
    BY <1>1 DEF Elems
  <1> QED
    BY <1>1, <1>2, <1>3, <1>4, <1>5 DEF r, h

LEMMA Chained ==
    ASSUME NEW p \in Seq(Owned), NEW q \in Seq(Owned)
    PROVE  /\ p \o q \in Seq(Owned) /\ Len(p \o q) = Len(p) + Len(q)
           /\ \A i \in 1..(Len(p) + Len(q)) :
                (p \o q)[i] = IF i <= Len(p) THEN p[i] ELSE q[i - Len(p)]
  OBVIOUS

LEMMA RemoveSet ==
    ASSUME NEW l \in Seq(Owned), NEW x, Once(l)
    PROVE  /\ ListRemove(l, x) \in Seq(Owned)
           /\ Elems(ListRemove(l, x)) = Elems(l) \ {x}
           /\ Once(ListRemove(l, x))
  <1>1. CASE x \notin Elems(l)
    BY <1>1 DEF ListRemove
  <1>2. CASE x \in Elems(l)
    <2> DEFINE i == CHOOSE i \in DOMAIN l : l[i] = x
               p == SubSeq(l, 1, i - 1)
               q == SubSeq(l, i + 1, Len(l))
               r == p \o q
    <2>1. \E j \in DOMAIN l : l[j] = x
      BY <1>2 DEF Elems
    <2>2. i \in 1..Len(l) /\ Len(l) \in Nat /\ l[i] = x
      BY <2>1
    <2>3. ListRemove(l, x) = r
      BY <1>2 DEF ListRemove
    <2> HIDE DEF i
    <2>4. /\ p \in Seq(Owned) /\ Len(p) = i - 1
          /\ \A j \in 1..(i - 1) : p[j] = l[j]
      BY <2>2
    <2>5. /\ q \in Seq(Owned) /\ Len(q) = Len(l) - i
          /\ \A j \in 1..(Len(l) - i) : q[j] = l[j + i]
      BY <2>2
    <2> HIDE DEF p, q
    <2>6. /\ r \in Seq(Owned) /\ Len(r) = Len(l) - 1
          /\ \A j \in 1..Len(r) :
                r[j] = IF j < i THEN p[j] ELSE q[j - (i - 1)]
      <3>1. r \in Seq(Owned) /\ Len(r) = Len(p) + Len(q)
        BY <2>4, <2>5, Chained
      <3>2. \A j \in 1..(Len(p) + Len(q)) :
               r[j] = IF j <= Len(p) THEN p[j] ELSE q[j - Len(p)]
        BY <2>4, <2>5, Chained
      <3> HIDE DEF r
      <3>3. Len(r) = Len(l) - 1
        BY <2>2, <2>4, <2>5, <3>1
      <3>4. ASSUME NEW j \in 1..Len(r)
            PROVE  r[j] = IF j < i THEN p[j] ELSE q[j - (i - 1)]
        <4>1. j \in 1..(Len(p) + Len(q)) /\ (j <= Len(p) <=> j < i)
          BY <2>2, <2>4, <2>5, <3>1, <3>3
        <4> QED
          BY <2>4, <3>2, <4>1
      <3> QED
        BY <3>1, <3>3, <3>4
    <2> HIDE DEF r
    <2>7. \A j \in 1..Len(r) : r[j] = IF j < i THEN l[j] ELSE l[j + 1]
      <3> TAKE j \in 1..Len(r)
      <3>1. CASE j < i
        BY <2>2, <2>4, <2>6, <3>1
      <3>2. CASE ~(j < i)
        <4>1. j - (i - 1) \in 1..(Len(l) - i)
          BY <2>2, <2>6, <3>2
        <4>2. q[j - (i - 1)] = l[(j - (i - 1)) + i]
          BY <2>5, <4>1
        <4>3. (j - (i - 1)) + i = j + 1
          BY <2>2, <2>6
        <4> QED
          BY <2>6, <3>2, <4>2, <4>3
      <3> QED
        BY <3>1, <3>2
    <2>8. Once(r)
      <3> SUFFICES ASSUME NEW a \in 1..Len(r), NEW b \in 1..Len(r), r[a] = r[b]
                   PROVE  a = b
        BY DEF Once
      <3> DEFINE f(j) == IF j < i THEN j ELSE j + 1
      <3>0. \A j \in 1..Len(r) : f(j) \in 1..Len(l) /\ r[j] = l[f(j)]
        <4> TAKE j \in 1..Len(r)
        <4>1. CASE j < i
          BY <2>2, <2>6, <2>7, <4>1
        <4>2. CASE ~(j < i)
          <5>1. f(j) = j + 1 /\ j + 1 \in 1..Len(l)
            BY <2>2, <2>6, <4>2
          <5> QED
            BY <2>7, <4>2, <5>1
        <4> QED
          BY <4>1, <4>2
      <3>1. f(a) \in 1..Len(l) /\ f(b) \in 1..Len(l) /\ l[f(a)] = l[f(b)]
        BY <3>0
      <3>2. f(a) = f(b)
        BY <3>1 DEF Once
      <3> QED
        BY <2>2, <2>6, <3>2
    <2>9. ASSUME NEW y \in Elems(r)
          PROVE  y \in Elems(l) /\ y # x
      <3>1. PICK a \in 1..Len(r) : y = r[a]
        BY DEF Elems
      <3> DEFINE j == IF a < i THEN a ELSE a + 1
      <3>2. j \in 1..Len(l) /\ y = l[j] /\ j # i
        BY <2>2, <2>6, <2>7, <3>1
      <3> QED
        BY <2>2, <3>2 DEF Elems, Once
    <2>10. ASSUME NEW y \in Elems(l), y # x
           PROVE  y \in Elems(r)
      <3>1. PICK a \in 1..Len(l) : y = l[a]
        BY DEF Elems
      <3> DEFINE j == IF a < i THEN a ELSE a - 1
      <3>2. a # i
        BY <2>2, <2>10, <3>1
      <3>3. j \in 1..Len(r) /\ y = r[j]
        BY <2>2, <2>6, <2>7, <3>1, <3>2
      <3> QED
        BY <3>3 DEF Elems
    <2> QED
      BY <2>3, <2>6, <2>8, <2>9, <2>10
  <1> QED
    BY <1>1, <1>2

-----------------------------------------------------------------------------
(* The lists when something is made, and when something goes.               *)

LEMMA ListTypes ==
    ASSUME TypeOK
    PROVE  /\ resources \in [Team -> Seq(Owned)] /\ refcount \in [Team -> Int]
           /\ team \in [Thread -> Team \cup {NULL}]
           /\ NULL \notin Team /\ Thread \subseteq Owned /\ Sem \subseteq Owned
           /\ Thread \cap Sem = {} /\ Team \cap Owned = {}
  BY Names, ThreadsAssumption DEF TypeOK, Owned

\* A thread exists if and only if it has a team.
LEMMA TeamKnown ==
    ASSUME TypeOK, ListsKnown
    PROVE  \A t \in Thread : /\ t \in bound <=> team[t] \in Team
                             /\ team[t] \in Team => team[t] \in bound
                             /\ t \notin bound => team[t] = NULL
  <1> TAKE t \in Thread
  <1>1. t \in Owned /\ team[t] \in Team \cup {NULL} /\ NULL \notin Team
    BY ListTypes
  <1>2. ASSUME t \in bound
        PROVE  team[t] \in Team
    <2>1. PICK m \in Team : t \in Elems(resources[m])
      BY <1>1, <1>2 DEF ListsKnown
    <2> QED
      BY <2>1 DEF ListsKnown
  <1>3. ASSUME team[t] \in Team
        PROVE  t \in bound /\ team[t] \in bound
    <2>1. t \in Elems(resources[team[t]])
      BY <1>3 DEF ListsKnown
    <2> QED
      BY <1>3, <2>1 DEF ListsKnown
  <1> QED
    BY <1>1, <1>2, <1>3

LEMMA MembersFinite ==
    ASSUME NEW m
    PROVE  IsFiniteSet(Members(m)) /\ Cardinality(Members(m)) \in Nat
  BY ThreadsAssumption, FS_Subset, FS_CardinalityType DEF Members

\* sem_create, thr_create, thr_spawn: x is new and goes to the list of m.
LEMMA ListsGrow ==
    ASSUME TypeOK, ListsKnown, NEW x \in Owned, NEW m \in Team,
           x \notin bound, bound \cup {x, m} \subseteq bound',
           bound' \subseteq bound \cup {x} \cup Team,
           resources' = [resources EXCEPT ![m] = Append(@, x)],
           x \in Thread => team' = [team EXCEPT ![x] = m],
           x \notin Thread => team' = team
    PROVE  ListsKnown'
  <1>1. /\ \A n \in Team : resources[n] \in Seq(Owned) /\ Once(resources[n])
        /\ \A n \in Team : x \notin Elems(resources[n])
    BY ListTypes DEF ListsKnown
  <1>2. \A n \in Team : resources'[n] = IF n = m THEN Append(resources[m], x)
                                         ELSE resources[n]
    BY ListTypes
  <1>3. \A n \in Team :
          /\ Elems(resources'[n]) = IF n = m THEN Elems(resources[m]) \cup {x}
                                    ELSE Elems(resources[n])
          /\ Once(resources'[n])
    <2> TAKE n \in Team
    <2>1. CASE n = m
      <3>1. /\ Elems(Append(resources[m], x)) = Elems(resources[m]) \cup {x}
            /\ Once(Append(resources[m], x))
        BY <1>1, AppendSet
      <3> QED
        BY <1>2, <2>1, <3>1
    <2>2. CASE n # m
      BY <1>1, <1>2, <2>2
    <2> QED
      BY <2>1, <2>2
  <1>4. \A n, o \in Team : \A y \in Elems(resources'[n]) \cap Elems(resources'[o]) :
           n = o
    BY <1>1, <1>3, SMTT(60) DEF ListsKnown
  <1>5. \A n \in Team : \A y \in Elems(resources'[n]) : y \in bound' /\ n \in bound'
    BY <1>3 DEF ListsKnown
  <1>6. \A y \in Owned \cap bound' : \E n \in Team : y \in Elems(resources'[n])
    <2> TAKE y \in Owned \cap bound'
    <2>1. CASE y = x
      BY <1>3, <2>1
    <2>2. CASE y # x
      <3>1. y \in Owned \cap bound
        BY <2>2, ListTypes
      <3> QED
        BY <1>3, <3>1 DEF ListsKnown
    <2> QED
      BY <2>1, <2>2
  <1>7. \A t \in Thread, n \in Team : team'[t] = n <=> t \in Elems(resources'[n])
    <2> TAKE t \in Thread, n \in Team
    <2>1. CASE t = x
      <3>1. team'[t] = m
        BY <2>1, ListTypes
      <3> QED
        BY <1>1, <1>3, <2>1, <3>1
    <2>2. CASE t # x
      <3>1. team'[t] = team[t]
        BY <2>2, ListTypes
      <3>2. t \in Elems(resources'[n]) <=> t \in Elems(resources[n])
        BY <1>3, <2>2
      <3> QED
        BY <3>1, <3>2 DEF ListsKnown
    <2> QED
      BY <2>1, <2>2
  <1> QED
    BY <1>3, <1>4, <1>5, <1>6, <1>7 DEF ListsKnown

\* sem_destroy, task_destroy, team_destroy: x goes from every list it is on.
LEMMA ListsShrink ==
    ASSUME TypeOK, ListsKnown, NEW x \in Owned,
           bound' = bound \ {x},
           \A n \in Team : /\ Elems(resources'[n]) = Elems(resources[n]) \ {x}
                           /\ Once(resources'[n]),
           x \in Thread => team' = [team EXCEPT ![x] = NULL],
           x \notin Thread => team' = team
    PROVE  ListsKnown'
  <1>1. \A n, o \in Team : \A y \in Elems(resources'[n]) \cap Elems(resources'[o]) :
           n = o
    BY DEF ListsKnown
  <1>2. \A n \in Team : \A y \in Elems(resources'[n]) : y \in bound' /\ n \in bound'
    BY ListTypes DEF ListsKnown
  <1>3. \A y \in Owned \cap bound' : \E n \in Team : y \in Elems(resources'[n])
    BY DEF ListsKnown
  <1>4. \A t \in Thread, n \in Team : team'[t] = n <=> t \in Elems(resources'[n])
    <2> TAKE t \in Thread, n \in Team
    <2>1. CASE t = x
      <3>1. team'[t] = NULL
        BY <2>1, ListTypes
      <3> QED
        BY <2>1, <3>1, ListTypes
    <2>2. CASE t # x
      <3>1. team'[t] = team[t]
        BY <2>2, ListTypes
      <3> QED
        BY <2>2, <3>1 DEF ListsKnown
    <2> QED
      BY <2>1, <2>2
  <1> QED
    BY <1>1, <1>2, <1>3, <1>4 DEF ListsKnown

\* rsrc_release takes x off its owner's list.
LEMMA DisownedLists ==
    ASSUME TypeOK, ListsKnown, NEW x, resources' = Disowned(x)
    PROVE  \A n \in Team : /\ Elems(resources'[n]) = Elems(resources[n]) \ {x}
                           /\ Once(resources'[n])
  <1>1. \A n \in Team : resources[n] \in Seq(Owned) /\ Once(resources[n])
    BY ListTypes DEF ListsKnown
  <1>2. \A n \in Team : resources'[n] = ListRemove(resources[n], x)
    BY DEF Disowned
  <1> QED
    BY <1>1, <1>2, RemoveSet

\* A thread that joins a team, and one that leaves it, is counted.
LEMMA CountedUp ==
    ASSUME TypeOK, Referenced, NEW t \in Thread, NEW m \in Team,
           team[t] = NULL, team' = [team EXCEPT ![t] = m],
           refcount' = [refcount EXCEPT ![m] = @ + 1]
    PROVE  Referenced'
  <1>1. \A n \in Team : Members(n)' = IF n = m THEN Members(m) \cup {t}
                                       ELSE Members(n)
    BY ListTypes DEF Members
  <1>2. \A n \in Team : refcount'[n] = IF n = m THEN refcount[m] + 1
                                        ELSE refcount[n]
    BY ListTypes
  <1>3. t \notin Members(m)
    BY ListTypes DEF Members
  <1>4. Cardinality(Members(m) \cup {t}) = Cardinality(Members(m)) + 1
    BY <1>3, MembersFinite, FS_AddElement
  <1> QED
    BY <1>1, <1>2, <1>4 DEF Referenced

LEMMA CountedDown ==
    ASSUME TypeOK, Referenced, NEW t \in Thread, NEW m \in Team,
           team[t] = m, team' = [team EXCEPT ![t] = NULL],
           refcount' = [refcount EXCEPT ![m] = @ - 1]
    PROVE  Referenced'
  <1>1. \A n \in Team : Members(n)' = IF n = m THEN Members(m) \ {t}
                                       ELSE Members(n)
    BY ListTypes DEF Members
  <1>2. \A n \in Team : refcount'[n] = IF n = m THEN refcount[m] - 1
                                        ELSE refcount[n]
    BY ListTypes
  <1>3. t \in Members(m)
    BY DEF Members
  <1>4. Cardinality(Members(m) \ {t}) = Cardinality(Members(m)) - 1
    BY <1>3, MembersFinite, FS_RemoveElement
  <1> QED
    BY <1>1, <1>2, <1>4, SMTT(60) DEF Referenced

\* A team that nobody references has no thread on its list.
LEMMA NobodyLeft ==
    ASSUME TypeOK, ListsKnown, Referenced, NEW m \in Team, refcount[m] = 0
    PROVE  Elems(resources[m]) \subseteq Sem
  <1>1. Members(m) = {}
    BY MembersFinite, FS_EmptySet DEF Referenced
  <1>2. Elems(resources[m]) \subseteq Owned
    BY ListTypes DEF Elems
  <1> QED
    BY <1>1, <1>2 DEF ListsKnown, Members, Owned

-----------------------------------------------------------------------------
(* What each handler does to the dead, and to those that wait for a thread. *)

\* The dead and the sleepers of threads stay, nobody dies, the kernel goes on.
Gentle ==
    /\ k'.queue[ReaperQ] = k.queue[ReaperQ]
    /\ \A u \in Thread : Elems(k.queue[u]) \subseteq Elems(k'.queue[u])
    /\ k'.live_tasks = k.live_tasks
    /\ k'.stop # "exit"

LEMMA WakingGentle ==
    ASSUME IInv, k.stop = "no", NEW s \in Sem, k' = WakeAll(k, s, "RESOURCE")
    PROVE  Gentle
  <1>1. KInv(k) /\ s \in Object \ {RunQ} /\ "RESOURCE" \in Status
    BY Ground, Names DEF Status
  <1>2. /\ \A p \in Object \ {s, RunQ} : k'.queue[p] = k.queue[p]
        /\ k'.live_tasks = k.live_tasks /\ k'.stop = k.stop
    BY <1>1, WakeAllInv
  <1> QED
    BY <1>2, Names DEF Gentle

LEMMA WaitingGentle ==
    ASSUME IInv, k.stop = "no", me # Idle, k.live_tasks # 0,
           NEW o \in Waitable, k' = WaitOn(k, o)
    PROVE  Gentle
  <1>1. /\ KInv(k) /\ CurrentRuns(k) /\ k.current # Idle /\ me \in Task
        /\ o \in Object \ {RunQ, ReaperQ} /\ k.queue[o] \in Seq(Task)
    BY Ground, Names DEF me, KState
  <1>2. /\ k'.queue[o] = Append(k.queue[o], me)
        /\ \A p \in Object \ {o, RunQ} : k'.queue[p] = k.queue[p]
        /\ k'.live_tasks = k.live_tasks /\ k'.stop = k.stop
    BY <1>1, WaitOnInv DEF me
  <1>3. Elems(k.queue[o]) \subseteq Elems(k'.queue[o])
    <2> SUFFICES ASSUME NEW i \in 1..Len(k.queue[o])
                 PROVE  k.queue[o][i] \in Elems(k'.queue[o])
      BY DEF Elems
    <2>1. i \in 1..Len(k'.queue[o]) /\ k'.queue[o][i] = k.queue[o][i]
      BY <1>1, <1>2
    <2> QED
      BY <2>1 DEF Elems
  <1> QED
    BY <1>1, <1>2, <1>3, Names DEF Gentle

LEMMA HandingGentle ==
    ASSUME IInv, k.stop = "no", NEW s \in Sem, k.queue[s] # <<>>,
           k' = Preempt(RsrcDequeue(k, s), Head(k.queue[s]), "NONE")
    PROVE  Gentle
  <1>1. /\ KInv(k) /\ CurrentRuns(k) /\ s \in Object \ {RunQ}
        /\ "NONE" \in Status
    BY Ground, Names DEF Status
  <1>2. /\ \A p \in Object \ {s, RunQ} : k'.queue[p] = k.queue[p]
        /\ k'.live_tasks = k.live_tasks /\ k'.stop = k.stop
    BY <1>1, HandOverInv
  <1> QED
    BY <1>2, Names DEF Gentle

LEMMA SwitchGentle ==
    ASSUME IInv, k.live_tasks # 0, NEW e, KInv(e), Leaving(e), e.stop = "no",
           e.live_tasks = k.live_tasks,
           \A p \in Object \ {RunQ, TimerQ} : e.queue[p] = k.queue[p],
           k' = Swtch(e)
    PROVE  Gentle
  <1>1. Keeps(e, k') /\ k'.stop = "no"
    BY SwtchInv
  <1> QED
    BY <1>1, Names DEF Gentle, Keeps

LEMMA SleepGentle ==
    ASSUME IInv, k.live_tasks # 0, NEW us \in Naps, Sleep(us)
    PROVE  Gentle
  <1>1. InUser /\ k.stop = "no"
    BY DEF Sleep, InUser, Interruptible
  <1>2. /\ KInv(k) /\ CurrentRuns(k) /\ me = k.current
        /\ me \in Task /\ me # Idle /\ k.waiting_on[me] = NULL
    BY <1>1, Ground DEF me
  <1>3. CASE Ticks(us) = 0
    <2>1. k' = Swtch(k)
      BY <1>3 DEF Sleep
    <2> QED
      BY <1>1, <1>2, <2>1, SwitchGentle DEF Leaving, CurrentRuns
  <1>4. CASE Ticks(us) # 0
    <2> DEFINE when == (timer + Ticks(us)) % TimerMod
               e == RsrcEnqueueOrdered(k, TimerQ, me, when)
    <2>1. k' = Swtch(e)
      BY <1>4 DEF Sleep
    <2>2. when \in Nat
      <3>1. timer \in Int /\ TimerMod \in Nat \ {0} /\ us \in Nat
        BY ThreadsAssumption DEF IInv, TypeOK
      <3>2. Ticks(us) \in Int
        BY <3>1 DEF Ticks
      <3> QED
        BY <3>1, <3>2
    <2> HIDE DEF when
    <2>3. /\ KInv(e)
          /\ \A p \in Object \ {TimerQ} : e.queue[p] = k.queue[p]
          /\ e.waiting_on[me] = TimerQ
          /\ e.current = k.current
          /\ e.live_tasks = k.live_tasks /\ e.stop = k.stop
      BY <1>2, <2>2, EnqueueOrderedInv, Names
    <2> HIDE DEF e
    <2>4. Leaving(e)
      BY <1>2, <2>3, Names DEF Leaving
    <2> QED
      BY <1>1, <2>1, <2>3, <2>4, SwitchGentle
  <1> QED
    BY <1>3, <1>4

LEMMA TickGentle ==
    ASSUME IInv, k.live_tasks # 0, NEW stray, NEW n \in 0..Len(k.queue[TimerQ]),
           TimerIrq(n, stray)
    PROVE  Gentle
  <1>1. k.stop = "no"
    BY DEF TimerIrq, Interruptible
  <1>2. KInv(k) /\ CurrentRuns(k) /\ k \in KState /\ TimerQ \in Object \ {RunQ}
    BY <1>1, Ground, Names
  <1> DEFINE e == Ready(k, TimerQ, n)
  <1>3. KInv(e) /\ CurrentRuns(e)
    BY <1>2, ReadyKeeps
  <1>4. /\ \A p \in Object \ {TimerQ, RunQ} : e.queue[p] = k.queue[p]
        /\ e.live_tasks = k.live_tasks /\ e.stop = k.stop
    BY <1>2, ReadyQueues, ReadyFields
  <1>5. k' = [e EXCEPT !.stop = "wild"] \/ k' = Swtch(e)
    BY DEF TimerIrq
  <1> HIDE DEF e
  <1>6. CASE k' = Swtch(e)
    BY <1>1, <1>3, <1>4, <1>6, SwitchGentle DEF Leaving, CurrentRuns
  <1>7. CASE k' = [e EXCEPT !.stop = "wild"]
    <2>1. /\ k'.queue = e.queue /\ k'.live_tasks = e.live_tasks
          /\ k'.stop = "wild"
      BY <1>3, <1>7 DEF KInv, KState
    <2> QED
      BY <1>4, <2>1, Names DEF Gentle
  <1> QED
    BY <1>5, <1>6, <1>7

\* terminate: the running thread joins the dead, and nobody waits for it.
LEMMA TerminateBuries ==
    ASSUME IInv, k.live_tasks > 1, Terminate
    PROVE  /\ me \in Thread /\ k.waiting_on[me] = NULL
           /\ k'.queue[ReaperQ] = Append(k.queue[ReaperQ], me)
           /\ \A u \in Thread \ {me} : k'.queue[u] = k.queue[u]
           /\ k'.live_tasks = k.live_tasks - 1 /\ k'.stop # "exit"
  <1>1. /\ InUser /\ k.stop = "no"
        /\ k' = Swtch(WakeOne(WakeAll(Bury(k), me, "RESOURCE"),
                              ReaperSem, "NONE"))
    BY DEF Terminate, InUser, Interruptible
  <1>2. /\ KInv(k) /\ CurrentRuns(k) /\ me = k.current /\ me \in Thread
        /\ me \in Task /\ me # Idle /\ k.waiting_on[me] = NULL
        /\ me \in Object \ {RunQ, ReaperQ, TimerQ, ReaperSem}
        /\ "RESOURCE" \in Status /\ "NONE" \in Status
        /\ k.live_tasks \in Int /\ ReaperSem \in Object \ {RunQ}
    BY <1>1, Ground, Names DEF me, Status, KState
  <1> DEFINE b == Bury(k)
             a == WakeAll(b, me, "RESOURCE")
             w == WakeOne(a, ReaperSem, "NONE")
  <1>3. /\ KInv(b) /\ Leaving(b)
        /\ b.queue[ReaperQ] = Append(k.queue[ReaperQ], me)
        /\ \A p \in Object \ {ReaperQ} : b.queue[p] = k.queue[p]
        /\ b.live_tasks = k.live_tasks - 1 /\ b.stop = k.stop
    BY <1>2, BuryInv DEF me
  <1> HIDE DEF b
  <1>4. /\ KInv(a) /\ Leaving(a)
        /\ \A p \in Object \ {me, RunQ} : a.queue[p] = b.queue[p]
        /\ a.live_tasks = b.live_tasks /\ a.stop = b.stop
    BY <1>2, <1>3, WakeAllInv
  <1> HIDE DEF a
  <1>5. /\ KInv(w) /\ Leaving(w)
        /\ \A p \in Object \ {ReaperSem, RunQ} : w.queue[p] = a.queue[p]
        /\ w.live_tasks = a.live_tasks /\ w.stop = a.stop
    BY <1>2, <1>4, WakeOneInv
  <1> HIDE DEF w
  <1>6. k' = Swtch(w)
    BY <1>1 DEF w, a, b
  <1>7. Keeps(w, k') /\ (k'.stop = "exit" => w.live_tasks = 0 \/ w.stop = "exit")
    BY <1>5, <1>6, SwtchInv
  <1>8. /\ k'.queue[ReaperQ] = Append(k.queue[ReaperQ], me)
        /\ \A u \in Thread \ {me} : k'.queue[u] = k.queue[u]
        /\ k'.live_tasks = k.live_tasks - 1
    BY <1>2, <1>3, <1>4, <1>5, <1>7, Names DEF Keeps
  <1>9. k'.stop # "exit"
    <2>1. w.stop = "no" /\ w.live_tasks = k.live_tasks - 1
      BY <1>1, <1>3, <1>4, <1>5
    <2> QED
      BY <1>2, <1>7, <2>1
  <1> QED
    BY <1>2, <1>8, <1>9

\* The reaper: the first of the dead goes, with its id and those who came late.
LEMMA ReapFrees ==
    ASSUME IInv, Reap
    PROVE  \E t \in Thread :
             /\ t \in bound /\ k.waiting_on[t] = ReaperQ
             /\ k.queue[ReaperQ] # <<>> /\ t = Head(k.queue[ReaperQ])
             /\ k'.queue[ReaperQ] = Tail(k.queue[ReaperQ])
             /\ \A u \in Thread \ {t} : k'.queue[u] = k.queue[u]
             /\ k'.live_tasks = k.live_tasks /\ k'.stop = k.stop
             /\ bound' = bound \ {t}
             /\ team' = [team EXCEPT ![t] = NULL]
             /\ resources' = Disowned(t)
             /\ refcount' = [refcount EXCEPT ![team[t]] = @ - 1]
  <1>1. /\ k.stop = "no" /\ pc[me] = "reap"
        /\ k'.stop # "wild"
    BY ReapInv DEF Reap, Resumes
  <1>2. KInv(k) /\ CurrentRuns(k) /\ me = Reaper /\ k.waiting_on[Reaper] = NULL
    BY <1>1, Ground DEF IInv, ReaperHome, me
  <1>3. k.queue[ReaperQ] # <<>>
    <2> SUFFICES ASSUME k.queue[ReaperQ] = <<>>
                 PROVE  FALSE
      OBVIOUS
    <2>1. k' = [k EXCEPT !.stop = "wild"]
      BY DEF Reap
    <2> QED
      BY <1>1, <1>2, <2>1 DEF KInv, KState
  <1> DEFINE t == Head(k.queue[ReaperQ])
             d == RsrcDequeue(k, ReaperQ)
  <1>4. t \in Thread /\ t \in Task /\ k.waiting_on[t] = ReaperQ
    <2>1. t \in Task /\ k.waiting_on[t] = ReaperQ
      BY <1>2, <1>3, HeadWaits, Names
    <2>2. t # Reaper /\ t # Idle
      BY <1>2, <2>1, Names DEF KInv
    <2> QED
      BY <2>1, <2>2 DEF Task
  <1>5. /\ k' = WakeAll(d, t, "RESOURCE")
        /\ bound' = bound \ {t}
        /\ team' = [team EXCEPT ![t] = NULL]
        /\ resources' = Disowned(t)
        /\ refcount' = [refcount EXCEPT ![team[t]] = @ - 1]
    BY <1>3 DEF Reap, RsrcRelease
  <1>6. /\ KInv(d)
        /\ d.queue[ReaperQ] = Tail(k.queue[ReaperQ])
        /\ \A p \in Object \ {ReaperQ} : d.queue[p] = k.queue[p]
        /\ d.live_tasks = k.live_tasks /\ d.stop = k.stop
    BY <1>2, <1>3, DequeueInv, DequeueMoves, Names DEF KInv
  <1> DEFINE x == t
  <1> HIDE DEF d
  <1>7. /\ \A p \in Object \ {t, RunQ} : k'.queue[p] = d.queue[p]
        /\ k'.live_tasks = d.live_tasks /\ k'.stop = d.stop
    <2>1. t \in Object \ {RunQ} /\ "RESOURCE" \in Status
      BY <1>4, Names DEF Status
    <2> HIDE DEF t
    <2> QED
      BY <1>5, <1>6, <2>1, WakeAllInv
  <1>8. t \in bound
    BY <1>4, Names DEF IInv, NoThreadLost, Placed
  <1> HIDE DEF t
  <1>9. /\ k'.queue[ReaperQ] = Tail(k.queue[ReaperQ])
        /\ \A u \in Thread \ {t} : k'.queue[u] = k.queue[u]
    BY <1>4, <1>6, <1>7, Names
  <1> QED
    BY <1>3, <1>4, <1>5, <1>6, <1>7, <1>8, <1>9 DEF t

-----------------------------------------------------------------------------
(* The invariant and the two things a step may not do.                      *)

DeathStep ==
    /\ \A t \in Thread : k.waiting_on[t] = ReaperQ =>
          k'.waiting_on[t] = ReaperQ \/ t \notin bound'
    /\ \A t, u \in Thread :
          k.waiting_on[t] = u /\ k'.waiting_on[t] # u =>
             k'.waiting_on[u] = ReaperQ \/ u \notin bound'

LEMMA Inside ==
    ASSUME IInv
    PROVE  KInv(k) /\ (k.waiting_on[Idle] = NULL)
  BY DEF IInv, TypeOK, SchedulerConsistent, KInv

\* The dead are those on the reaper queue.
LEMMA DeadQueue ==
    ASSUME NEW s, KInv(s), NEW t \in Thread
    PROVE  /\ s.flags[t] = "DEAD" <=> t \in Elems(s.queue[ReaperQ])
           /\ s.waiting_on[t] = ReaperQ <=> t \in Elems(s.queue[ReaperQ])
  BY OnQueue, Names DEF KInv, FlagsConsistent

LEMMA LivingCount ==
    /\ IsFiniteSet(Living) /\ Cardinality(Living) \in Nat
    /\ LiveTasks => k.live_tasks = 2 + Cardinality(Living) /\ k.live_tasks > 1
  <1>1. IsFiniteSet(Living) /\ Cardinality(Living) \in Nat
    BY ThreadsAssumption, FS_Subset, FS_CardinalityType DEF Living
  <1>2. LiveTasks => k.live_tasks = 2 + Cardinality(Living)
    BY DEF LiveTasks, Living
  <1> QED
    BY <1>1, <1>2

LEMMA GentleSteps ==
    ASSUME IInv, IInv', Gentle
    PROVE  /\ DeathStep
           /\ LiveTasks /\ bound' \cap Thread = bound \cap Thread => LiveTasks'
  <1>1. KInv(k) /\ KInv(k')
    BY DEF IInv, TypeOK, SchedulerConsistent, KInv
  <1>2. \A t \in Thread : k'.flags[t] = "DEAD" <=> k.flags[t] = "DEAD"
    BY <1>1, DeadQueue DEF Gentle
  <1>3. ASSUME LiveTasks, bound' \cap Thread = bound \cap Thread
        PROVE  LiveTasks'
    <2>1. {t \in Thread : t \in bound /\ k.flags[t] # "DEAD"}'
             = {t \in Thread : t \in bound /\ k.flags[t] # "DEAD"}
      BY <1>2, <1>3
    <2> QED
      BY <1>3, <2>1 DEF LiveTasks, Gentle
  <1>4. \A t \in Thread : k.waiting_on[t] = ReaperQ => k'.waiting_on[t] = ReaperQ
    BY <1>1, DeadQueue DEF Gentle
  <1>5. \A t, u \in Thread : k.waiting_on[t] = u => k'.waiting_on[t] = u
    <2> TAKE t \in Thread, u \in Thread
    <2>1. t \in Task /\ u \in Object
      BY Names
    <2> QED
      BY <1>1, <2>1, OnQueue DEF Gentle
  <1> QED
    BY <1>3, <1>4, <1>5 DEF DeathStep

\* A step that is gentle and leaves what teams own alone.
LEMMA NobodysOwn ==
    ASSUME OInv, IInv', Gentle, UNCHANGED <<bound, team, refcount, resources>>
    PROVE  OInv' /\ DeathStep
  <1>1. ListsKnown' /\ Referenced'
    BY DEF OInv, ListsKnown, Referenced, Members
  <1> QED
    BY <1>1, GentleSteps DEF OInv

\* A step that leaves the scheduler alone is gentle.
LEMMA StillGentle ==
    ASSUME OInv, k' = k
    PROVE  Gentle
  BY DEF OInv, LiveTasks, Gentle

\* A thread that runs in user mode has a team.
LEMMA HasTeam ==
    ASSUME OInv, InUser
    PROVE  me \in Thread /\ me \in bound /\ team[me] \in Team \cap bound
  <1>1. me \in Thread /\ me \in bound
    BY DEF InUser, OInv, IInv, NoThreadLost, Placed, me
  <1> QED
    BY <1>1, TeamKnown DEF OInv, IInv

LEMMA SemCreateOwns ==
    ASSUME OInv, IInv', NEW s \in Sem, NEW n \in InitCounts, SemCreate(s, n)
    PROVE  OInv' /\ DeathStep
  <1>1. /\ InUser /\ s \notin bound /\ bound' = bound \cup {s}
        /\ resources' = [resources EXCEPT ![team[me]] = Append(@, s)]
        /\ UNCHANGED <<k, team, refcount>>
    BY DEF SemCreate
  <1>2. TypeOK /\ ListsKnown /\ team[me] \in Team \cap bound
        /\ s \in Owned /\ s \notin Thread
    BY <1>1, HasTeam, ListTypes DEF OInv, IInv
  <1> DEFINE m == team[me]
  <1> HIDE DEF m
  <1>3. /\ m \in Team \cap bound
        /\ resources' = [resources EXCEPT ![m] = Append(@, s)]
    BY <1>1, <1>2 DEF m
  <1>4. ListsKnown'
    <2>1. /\ bound \cup {s, m} \subseteq bound'
          /\ bound' \subseteq bound \cup {s} \cup Team
          /\ team' = team
      BY <1>1, <1>3
    <2> QED
      BY <1>1, <1>2, <1>3, <2>1, ListsGrow
  <1>5. Referenced'
    BY <1>1 DEF OInv, Referenced, Members
  <1>6. Gentle /\ bound' \cap Thread = bound \cap Thread
    BY <1>1, <1>2, StillGentle
  <1> QED
    BY <1>4, <1>5, <1>6, GentleSteps DEF OInv

\* A semaphore goes: by sem_destroy, or with its team.
LEMMA SemGoes ==
    ASSUME OInv, IInv', NEW s \in Sem, k.stop = "no",
           k' = WakeAll(k, s, "RESOURCE"), bound' = bound \ {s},
           \A n \in Team : /\ Elems(resources'[n]) = Elems(resources[n]) \ {s}
                           /\ Once(resources'[n]),
           UNCHANGED <<team, refcount>>
    PROVE  OInv' /\ DeathStep
  <1>1. TypeOK /\ ListsKnown /\ s \in Owned /\ s \notin Thread
    BY ListTypes DEF OInv, IInv
  <1>2. ListsKnown'
    BY <1>1, ListsShrink
  <1>3. Referenced'
    BY DEF OInv, Referenced, Members
  <1>4. Gentle /\ bound' \cap Thread = bound \cap Thread
    BY <1>1, WakingGentle DEF OInv
  <1> QED
    BY <1>2, <1>3, <1>4, GentleSteps DEF OInv

LEMMA SemDestroyOwns ==
    ASSUME OInv, IInv', NEW s \in Sem, SemDestroy(s)
    PROVE  OInv' /\ DeathStep
  <1>1. /\ k.stop = "no" /\ k' = WakeAll(k, s, "RESOURCE")
        /\ bound' = bound \ {s} /\ resources' = Disowned(s)
        /\ UNCHANGED <<team, refcount>>
    BY DEF SemDestroy, RsrcRelease, InUser, Interruptible
  <1> QED
    BY <1>1, DisownedLists, SemGoes DEF OInv, IInv

LEMMA TeamDestroyNextOwns ==
    ASSUME OInv, IInv', TeamDestroyNext
    PROVE  OInv' /\ DeathStep
  <1>1. PICK m \in Team \cap bound :
           /\ refcount[m] = 0 /\ resources[m] # <<>>
           /\ LET x == Head(resources[m])
              IN  IF x \in Sem
                  THEN k' = RsrcRelease(k, x) /\ bound' = bound \ {x}
                  ELSE UNCHANGED <<k, bound>>
           /\ resources' = [resources EXCEPT ![m] = Tail(@)]
    BY DEF TeamDestroyNext
  <1>2. k.stop = "no" /\ UNCHANGED <<team, refcount>>
    BY DEF TeamDestroyNext, Resumes
  <1> DEFINE l == resources[m]
             x == Head(l)
  <1>3. /\ l \in Seq(Owned) /\ l # <<>> /\ Once(l)
        /\ Elems(l) \subseteq Sem
    BY <1>1, ListTypes, NobodyLeft DEF OInv, IInv, ListsKnown
  <1>4. /\ x \in Elems(l) /\ x \in Sem
        /\ Elems(Tail(l)) = Elems(l) \ {x} /\ Once(Tail(l))
    BY <1>3, TailSet
  <1>5. k' = WakeAll(k, x, "RESOURCE") /\ bound' = bound \ {x}
    BY <1>1, <1>4 DEF RsrcRelease
  <1> HIDE DEF x
  <1>6. \A n \in Team : /\ Elems(resources'[n]) = Elems(resources[n]) \ {x}
                         /\ Once(resources'[n])
    <2> TAKE n \in Team
    <2>1. resources'[n] = IF n = m THEN Tail(l) ELSE resources[n]
      BY <1>1, ListTypes DEF OInv, IInv
    <2>2. CASE n = m
      BY <1>4, <2>1, <2>2
    <2>3. CASE n # m
      BY <1>4, <2>1, <2>3 DEF OInv, ListsKnown
    <2> QED
      BY <2>2, <2>3
  <1> QED
    BY <1>2, <1>4, <1>5, <1>6, SemGoes

LEMMA TeamDestroyEndOwns ==
    ASSUME OInv, IInv', TeamDestroyEnd
    PROVE  OInv' /\ DeathStep
  <1>1. PICK m \in Team \cap bound : resources[m] = <<>> /\ bound' = bound \ {m}
    BY DEF TeamDestroyEnd
  <1>2. UNCHANGED <<k, team, refcount, resources>>
    BY DEF TeamDestroyEnd
  <1>3. Elems(resources[m]) = {}
    BY <1>1 DEF Elems
  <1>4. m \notin Owned /\ Thread \subseteq Owned
    BY ListTypes DEF OInv, IInv
  <1>5. ListsKnown'
    <2>1. \A n \in Team : \A x \in Elems(resources[n]) : x \in bound' /\ n \in bound'
      <3> TAKE n \in Team
      <3> TAKE x \in Elems(resources[n])
      <3>1. x \in bound /\ n \in bound /\ n # m
        BY <1>3 DEF OInv, ListsKnown
      <3>2. x \in Owned
        <4>1. resources[n] \in Seq(Owned)
          BY ListTypes DEF OInv, IInv
        <4> QED
          BY <4>1 DEF Elems
      <3> QED
        BY <1>1, <1>4, <3>1, <3>2
    <2>2. Owned \cap bound' = Owned \cap bound
      BY <1>1, <1>4
    <2> QED
      BY <1>2, <2>1, <2>2 DEF OInv, ListsKnown
  <1>6. Referenced'
    BY <1>2 DEF OInv, Referenced, Members
  <1>7. Gentle /\ bound' \cap Thread = bound \cap Thread
    BY <1>1, <1>2, <1>4, StillGentle
  <1> QED
    BY <1>5, <1>6, <1>7, GentleSteps DEF OInv

\* thr_create and thr_spawn: a thread is born into a team, and counted three times.
LEMMA BirthOwns ==
    ASSUME OInv, IInv', InUser, NEW t \in Thread, NEW m \in Team, StartThread(t, m),
           bound' = bound \cup {t, m}
    PROVE  OInv' /\ DeathStep
  <1>1. /\ k.stop = "no" /\ t \notin bound
        /\ k' = [RsrcEnqueue(k, RunQ, t) EXCEPT !.live_tasks = @ + 1]
        /\ team' = [team EXCEPT ![t] = m]
        /\ refcount' = [refcount EXCEPT ![m] = @ + 1]
        /\ resources' = [resources EXCEPT ![m] = Append(@, t)]
    BY DEF StartThread, InUser, Interruptible
  <1>2. /\ KInv(k) /\ CurrentRuns(k) /\ t \in Task /\ t # Idle
        /\ t # k.current /\ k.waiting_on[t] = NULL
    BY <1>1, Ground, Names DEF OInv, IInv, NoThreadLost, Placed
  <1>3. /\ \A p \in Object \ {RunQ} : k'.queue[p] = k.queue[p]
        /\ k'.live_tasks = k.live_tasks + 1 /\ k'.stop = k.stop
    BY <1>1, <1>2, BirthInv
  <1>4. team[t] = NULL
    BY <1>1, TeamKnown DEF OInv, IInv
  <1>5. Referenced'
    BY <1>1, <1>4, CountedUp DEF OInv, IInv
  <1>6. ListsKnown'
    <2>1. t \in Owned /\ TypeOK /\ ListsKnown
      BY ListTypes DEF OInv, IInv
    <2>2. /\ bound \cup {t, m} \subseteq bound'
          /\ bound' \subseteq bound \cup {t} \cup Team
      OBVIOUS
    <2> QED
      BY <1>1, <2>1, <2>2, ListsGrow
  <1>7. KInv(k')
    BY DEF IInv, TypeOK, SchedulerConsistent, KInv
  <1>8. /\ k'.queue[ReaperQ] = k.queue[ReaperQ]
        /\ \A u \in Thread : k'.queue[u] = k.queue[u]
    BY <1>3, Names
  <1>9. \A u \in Thread : k'.flags[u] = "DEAD" <=> k.flags[u] = "DEAD"
    BY <1>2, <1>7, <1>8, DeadQueue
  <1>10. k.flags[t] # "DEAD"
    BY <1>2, DeadQueue, OnQueue, Names
  <1>11. Living' = Living \cup {t} /\ t \notin Living
    BY <1>1, <1>9, <1>10, ListTypes DEF Living, OInv, IInv, Owned
  <1>12. Cardinality(Living') = Cardinality(Living) + 1
    BY <1>11, LivingCount, FS_AddElement
  <1>13. LiveTasks'
    BY <1>1, <1>3, <1>12, LivingCount DEF OInv, LiveTasks, Living
  <1>14. DeathStep
    <2>1. \A u \in Thread : k.waiting_on[u] = ReaperQ => k'.waiting_on[u] = ReaperQ
      BY <1>2, <1>7, <1>8, DeadQueue
    <2>2. \A u, v \in Thread : k.waiting_on[u] = v => k'.waiting_on[u] = v
      <3> TAKE u \in Thread, v \in Thread
      <3>1. u \in Task /\ v \in Object
        BY Names
      <3> QED
        BY <1>2, <1>7, <1>8, <3>1, OnQueue
    <2> QED
      BY <2>1, <2>2 DEF DeathStep
  <1> QED
    BY <1>5, <1>6, <1>13, <1>14 DEF OInv

\* terminate: one lives less, and those who waited for it are told.
LEMMA TerminateOwns ==
    ASSUME OInv, IInv', Terminate
    PROVE  OInv' /\ DeathStep
  <1>1. UNCHANGED <<bound, team, refcount, resources>> /\ InUser
    BY DEF Terminate
  <1>2. k.live_tasks = 2 + Cardinality(Living) /\ k.live_tasks > 1
    BY LivingCount DEF OInv
  <1>3. /\ me \in Thread /\ k.waiting_on[me] = NULL
        /\ k'.queue[ReaperQ] = Append(k.queue[ReaperQ], me)
        /\ \A u \in Thread \ {me} : k'.queue[u] = k.queue[u]
        /\ k'.live_tasks = k.live_tasks - 1 /\ k'.stop # "exit"
    BY <1>2, TerminateBuries DEF OInv
  <1>4. /\ KInv(k) /\ KInv(k') /\ ReaperQ \in Object
        /\ k.queue[ReaperQ] \in Seq(Task)
    BY Names DEF OInv, IInv, TypeOK, SchedulerConsistent, KInv, KState
  <1>5. Elems(k'.queue[ReaperQ]) = Elems(k.queue[ReaperQ]) \cup {me}
    <2> DEFINE q == k.queue[ReaperQ]
               a == k'.queue[ReaperQ]
    <2>1. /\ Len(a) = Len(q) + 1 /\ Len(q) \in Nat /\ a[Len(q) + 1] = me
          /\ \A i \in 1..Len(q) : a[i] = q[i]
      BY <1>3, <1>4
    <2> HIDE DEF q, a
    <2>2. Elems(a) = Elems(q) \cup {me}
      <3>1. ASSUME NEW y \in Elems(a)
            PROVE  y \in Elems(q) \cup {me}
        BY <2>1 DEF Elems
      <3>2. ASSUME NEW y \in Elems(q)
            PROVE  y \in Elems(a)
        BY <2>1 DEF Elems
      <3>3. me \in Elems(a)
        BY <2>1 DEF Elems
      <3> QED
        BY <3>1, <3>2, <3>3
    <2> QED
      BY <2>2 DEF q, a
  <1>6. \A t \in Thread : k'.flags[t] = "DEAD" <=> k.flags[t] = "DEAD" \/ t = me
    BY <1>4, <1>5, DeadQueue
  <1>7. k.flags[me] # "DEAD" /\ me \in bound
    BY <1>3, <1>4, DeadQueue, OnQueue, Names, <1>1, HasTeam
  <1>8. Living' = Living \ {me} /\ me \in Living
    BY <1>1, <1>3, <1>6, <1>7 DEF Living
  <1>9. Cardinality(Living') = Cardinality(Living) - 1
    BY <1>8, LivingCount, FS_RemoveElement
  <1>10. LiveTasks'
    <2>1. k'.live_tasks = 2 + Cardinality(Living')
      BY <1>2, <1>3, <1>9, LivingCount
    <2> QED
      BY <1>3, <2>1 DEF LiveTasks, Living
  <1>11. ListsKnown' /\ Referenced'
    BY <1>1 DEF OInv, ListsKnown, Referenced, Members
  <1>12. DeathStep
    <2>1. \A t \in Thread : k.waiting_on[t] = ReaperQ => k'.waiting_on[t] = ReaperQ
      BY <1>4, <1>5, DeadQueue
    <2>2. \A t \in Thread, u \in Thread \ {me} :
             k.waiting_on[t] = u => k'.waiting_on[t] = u
      <3> TAKE t \in Thread, u \in Thread \ {me}
      <3>1. t \in Task /\ u \in Object
        BY Names
      <3> QED
        BY <1>3, <1>4, <3>1, OnQueue
    <2>3. k'.waiting_on[me] = ReaperQ
      BY <1>3, <1>4, <1>5, DeadQueue
    <2> QED
      BY <2>1, <2>2, <2>3 DEF DeathStep
  <1> QED
    BY <1>10, <1>11, <1>12 DEF OInv, IInv

\* The reaper: what it takes from the dead no longer exists.
LEMMA ReapOwns ==
    ASSUME OInv, IInv', Reap
    PROVE  OInv' /\ DeathStep
  <1>1. PICK t \in Thread :
             /\ t \in bound /\ k.waiting_on[t] = ReaperQ
             /\ k.queue[ReaperQ] # <<>> /\ t = Head(k.queue[ReaperQ])
             /\ k'.queue[ReaperQ] = Tail(k.queue[ReaperQ])
             /\ \A u \in Thread \ {t} : k'.queue[u] = k.queue[u]
             /\ k'.live_tasks = k.live_tasks /\ k'.stop = k.stop
             /\ bound' = bound \ {t}
             /\ team' = [team EXCEPT ![t] = NULL]
             /\ resources' = Disowned(t)
             /\ refcount' = [refcount EXCEPT ![team[t]] = @ - 1]
    BY ReapFrees DEF OInv
  <1>2. /\ KInv(k) /\ KInv(k') /\ ReaperQ \in Object
        /\ k.queue[ReaperQ] \in Seq(Task)
    BY Names DEF OInv, IInv, TypeOK, SchedulerConsistent, KInv, KState
  <1>3. TypeOK /\ ListsKnown /\ Referenced /\ t \in Owned
    BY ListTypes DEF OInv, IInv
  <1>4. team[t] \in Team
    BY <1>1, <1>3, TeamKnown
  <1>5. Referenced'
    BY <1>1, <1>3, <1>4, CountedDown
  <1>6. ListsKnown'
    <2>1. \A n \in Team : /\ Elems(resources'[n]) = Elems(resources[n]) \ {t}
                           /\ Once(resources'[n])
      BY <1>1, <1>3, DisownedLists
    <2> QED
      BY <1>1, <1>3, <2>1, ListsShrink
  <1>7. \A u \in Thread \ {t} :
           u \in Elems(k'.queue[ReaperQ]) <=> u \in Elems(k.queue[ReaperQ])
    <2> DEFINE q == k.queue[ReaperQ]
               r == k'.queue[ReaperQ]
    <2>1. /\ Len(r) = Len(q) - 1 /\ Len(q) \in Nat \ {0} /\ q[1] = t
          /\ \A i \in 1..Len(r) : r[i] = q[i + 1]
      BY <1>1, <1>2
    <2> HIDE DEF q, r
    <2>2. ASSUME NEW u, u \in Elems(r)
          PROVE  u \in Elems(q)
      <3>1. PICK i \in 1..Len(r) : u = r[i]
        BY <2>2 DEF Elems
      <3>2. i + 1 \in 1..Len(q) /\ u = q[i + 1]
        BY <2>1, <3>1
      <3> QED
        BY <3>2 DEF Elems
    <2>3. ASSUME NEW u, u # t, u \in Elems(q)
          PROVE  u \in Elems(r)
      <3>1. PICK i \in 1..Len(q) : u = q[i]
        BY <2>3 DEF Elems
      <3>2. i - 1 \in 1..Len(r) /\ u = r[i - 1]
        BY <2>1, <2>3, <3>1
      <3> QED
        BY <3>2 DEF Elems
    <2> QED
      BY <2>2, <2>3 DEF q, r
  <1>8. \A u \in Thread \ {t} : k'.flags[u] = "DEAD" <=> k.flags[u] = "DEAD"
    BY <1>2, <1>7, DeadQueue
  <1>9. k.flags[t] = "DEAD"
    BY <1>1, <1>2, DeadQueue
  <1>10. Living' = Living
    BY <1>1, <1>8, <1>9 DEF Living
  <1>11. LiveTasks'
    <2>1. k.live_tasks = 2 + Cardinality(Living) /\ k.stop # "exit"
      BY DEF OInv, LiveTasks, Living
    <2> QED
      BY <1>1, <1>10, <2>1 DEF LiveTasks, Living
  <1>12. DeathStep
    <2>1. \A u \in Thread \ {t} :
             k.waiting_on[u] = ReaperQ => k'.waiting_on[u] = ReaperQ
      BY <1>2, <1>7, DeadQueue
    <2>2. \A v \in Thread, u \in Thread \ {t} :
             k.waiting_on[v] = u => k'.waiting_on[v] = u
      <3> TAKE v \in Thread, u \in Thread \ {t}
      <3>1. v \in Task /\ u \in Object
        BY Names
      <3> QED
        BY <1>1, <1>2, <3>1, OnQueue
    <2>3. t \notin bound'
      BY <1>1
    <2> QED
      BY <2>1, <2>2, <2>3 DEF DeathStep
  <1> QED
    BY <1>5, <1>6, <1>11, <1>12 DEF OInv

LEMMA InitOwns ==
    Init => OInv
  <1> SUFFICES ASSUME Init PROVE OInv
    OBVIOUS
  <1>1. IInv
    BY InitIInv
  <1>2. /\ bound = {Boot, BootTeam, ReaperSem}
        /\ team = [t \in Thread |-> IF t = Boot THEN BootTeam ELSE NULL]
        /\ refcount = [m \in Team |-> IF m = BootTeam THEN 1 ELSE 0]
        /\ resources = [m \in Team |-> IF m = BootTeam THEN <<Boot>> ELSE <<>>]
        /\ k.live_tasks = 3 /\ k.stop = "no" /\ k.flags[Boot] = "RUNNING"
    BY ThreadsAssumption DEF Init, Task
  <1>3. /\ Boot \in Thread /\ Boot \in Owned /\ BootTeam \in Team /\ NULL \notin Team
        /\ BootTeam \notin Owned /\ ReaperSem \notin Owned /\ BootTeam \notin Thread
        /\ Thread \subseteq Owned /\ BootTeam # Boot
    BY <1>1, ListTypes, ThreadsAssumption, Names DEF IInv, Owned
  <1>4. /\ Elems(<<Boot>>) = {Boot} /\ Elems(<<>>) = {}
        /\ Once(<<Boot>>) /\ Once(<<>>)
    BY DEF Elems, Once
  <1>5. ListsKnown
    <2>1. \A m \in Team : Elems(resources[m]) = (IF m = BootTeam THEN {Boot} ELSE {})
                           /\ Once(resources[m])
      BY <1>2, <1>4
    <2> QED
      BY <1>2, <1>3, <2>1 DEF ListsKnown
  <1>6. Referenced
    <2>1. \A m \in Team : Members(m) = IF m = BootTeam THEN {Boot} ELSE {}
      BY <1>2, <1>3 DEF Members
    <2> QED
      BY <1>2, <2>1, FS_EmptySet, FS_Singleton DEF Referenced
  <1>7. LiveTasks
    <2>1. Living = {Boot}
      BY <1>2, <1>3 DEF Living
    <2>2. Cardinality(Living) = 1
      BY <2>1, FS_Singleton
    <2> QED
      BY <1>2, <2>2 DEF LiveTasks, Living
  <1> QED
    BY <1>1, <1>5, <1>6, <1>7 DEF OInv

\* Every step of the kernel, one handler after the other.
LEMMA NextOwns ==
    ASSUME OInv, Next
    PROVE  OInv' /\ DeathStep
  <1>1. IInv /\ IInv' /\ k.live_tasks > 1 /\ k.live_tasks # 0
    BY NextInv, LivingCount DEF OInv
  <1>2. CASE SemCall
    <2> PICK s \in Sem : \/ \E n \in InitCounts : SemCreate(s, n)
                         \/ SemDestroy(s) \/ SemAcquire(s) \/ SemRelease(s)
      BY <1>2 DEF SemCall
    <2>1. ASSUME SemAcquire(s)
          PROVE  OInv' /\ DeathStep
      <3>1. /\ InUser /\ k.stop = "no" /\ me # Idle /\ s \in Waitable
            /\ UNCHANGED <<bound, team, refcount, resources>>
        BY <2>1, <1>1, Ground, Names DEF SemAcquire, InUser, Interruptible
      <3>2. Gentle
        BY <1>1, <2>1, <3>1, StillGentle, WaitingGentle DEF SemAcquire
      <3> QED
        BY <1>1, <3>1, <3>2, NobodysOwn
    <2>2. ASSUME SemRelease(s)
          PROVE  OInv' /\ DeathStep
      <3>1. /\ k.stop = "no"
            /\ UNCHANGED <<bound, team, refcount, resources>>
        BY <2>2 DEF SemRelease, InUser, Interruptible
      <3>2. Gentle
        BY <1>1, <2>2, <3>1, StillGentle, HandingGentle DEF SemRelease
      <3> QED
        BY <1>1, <3>1, <3>2, NobodysOwn
    <2> QED
      BY <1>1, <2>1, <2>2, SemCreateOwns, SemDestroyOwns
  <1>3. CASE ThreadCall
    <2>1. ASSUME NEW t \in Thread, ThrCreate(t)
          PROVE  OInv' /\ DeathStep
      <3>1. InUser /\ StartThread(t, team[me]) /\ bound' = bound \cup {t}
        BY <2>1 DEF ThrCreate
      <3> DEFINE m == team[me]
      <3>2. m \in Team /\ bound' = bound \cup {t, m}
        BY <3>1, HasTeam
      <3> HIDE DEF m
      <3>3. StartThread(t, m)
        BY <3>1 DEF m
      <3> QED
        BY <1>1, <3>1, <3>2, <3>3, BirthOwns
    <2>2. ASSUME NEW t \in Thread, NEW m \in Team, ThrSpawn(t, m)
          PROVE  OInv' /\ DeathStep
      BY <1>1, <2>2, BirthOwns DEF ThrSpawn
    <2>3. ASSUME NEW u \in Thread, ThrWait(u)
          PROVE  OInv' /\ DeathStep
      <3>1. /\ InUser /\ k.stop = "no" /\ me # Idle /\ u \in Waitable
            /\ k' = WaitOn(k, u)
            /\ UNCHANGED <<bound, team, refcount, resources>>
        BY <2>3, <1>1, Ground, Names DEF ThrWait, InUser, Interruptible
      <3> QED
        BY <1>1, <3>1, WaitingGentle, NobodysOwn
    <2>4. ASSUME NEW us \in Naps, Sleep(us)
          PROVE  OInv' /\ DeathStep
      <3>1. UNCHANGED <<bound, team, refcount, resources>>
        BY <2>4 DEF Sleep
      <3> QED
        BY <1>1, <2>4, <3>1, SleepGentle, NobodysOwn
    <2> QED
      BY <1>1, <1>3, <2>1, <2>2, <2>3, <2>4, TerminateOwns DEF ThreadCall
  <1>4. CASE Kernel
    <2>1. ASSUME SemAcquireResume \/ ThrWaitResume
          PROVE  OInv' /\ DeathStep
      <3>1. UNCHANGED <<k, bound, team, refcount, resources>>
        BY <2>1 DEF SemAcquireResume, ThrWaitResume
      <3> QED
        BY <1>1, <3>1, StillGentle, NobodysOwn
    <2>2. ASSUME ReaperAcquire
          PROVE  OInv' /\ DeathStep
      <3>1. /\ k.stop = "no" /\ pc[me] = "reaper"
            /\ k' = k \/ k' = WaitOn(k, ReaperSem)
            /\ UNCHANGED <<bound, team, refcount, resources>>
        BY <2>2 DEF ReaperAcquire, Resumes
      <3>2. me # Idle /\ ReaperSem \in Waitable
        BY <1>1, <3>1, Names DEF IInv, ReaperHome
      <3> QED
        BY <1>1, <3>1, <3>2, StillGentle, WaitingGentle, NobodysOwn
    <2> QED
      BY <1>1, <1>4, <2>1, <2>2, ReapOwns, TeamDestroyNextOwns, TeamDestroyEndOwns
         DEF Kernel
  <1>5. CASE Tick
    <2> PICK stray \in StrayPeeks, n \in 0..Len(k.queue[TimerQ]) : TimerIrq(n, stray)
      BY <1>5 DEF Tick
    <2>1. UNCHANGED <<bound, team, refcount, resources>>
      BY DEF TimerIrq
    <2> QED
      BY <1>1, <2>1, TickGentle, NobodysOwn
  <1>6. CASE Stopped
    <2>1. UNCHANGED <<k, bound, team, refcount, resources>>
      BY <1>6 DEF Stopped, vars
    <2> QED
      BY <1>1, <2>1, StillGentle, NobodysOwn
  <1> QED
    BY <1>2, <1>3, <1>4, <1>5, <1>6 DEF Next

LEMMA StutterOwns ==
    ASSUME OInv, UNCHANGED vars
    PROVE  OInv'
  <1>1. IInv'
    BY NextInv DEF OInv
  <1>2. UNCHANGED <<k, bound, team, refcount, resources>>
    BY DEF vars
  <1> QED
    BY <1>1, <1>2, StillGentle, NobodysOwn

-----------------------------------------------------------------------------
(* The theorems.                                                            *)

THEOREM OwnersInvariance == Spec => []OInv
  <1>1. Init => OInv
    BY InitOwns
  <1>2. OInv /\ [Next]_vars => OInv'
    BY NextOwns, StutterOwns
  <1> QED
    BY <1>1, <1>2, PTL DEF Spec

\* live_tasks, the references of a team and the list of what it owns count the same
\* threads (thr_create, thr_spawn, terminate, task_destroy): swtch never finds a
\* machine without tasks, and team_destroy never meets a thread.
THEOREM OwnersAgree == Spec => []OwnersMatch
  <1>1. OInv => OwnersMatch
    <2> SUFFICES ASSUME OInv PROVE OwnersMatch
      OBVIOUS
    <2>1. \A m \in Team : refcount[m] = 0 => Elems(resources[m]) \subseteq Sem
      BY NobodyLeft DEF OInv, IInv
    <2> QED
      BY <2>1 DEF OInv, OwnersMatch, TeamsOwn, ListsKnown, Referenced, Members
  <1> QED
    BY <1>1, OwnersInvariance, PTL

\* A thread that died stays on the reaper queue until the reaper frees its id, and
\* thr_wait does not come back before (terminate, reaper, task_destroy).
THEOREM TheDeadStayDead == Spec => DeathIsFinal
  <1>1. OInv /\ [Next]_vars => [DeathStep]_vars
    BY NextOwns
  <1>2. [DeathStep]_vars =>
           [\A t \in Thread : k.waiting_on[t] = ReaperQ =>
               k'.waiting_on[t] = ReaperQ \/ t \notin bound']_vars
    BY DEF DeathStep
  <1>3. [DeathStep]_vars =>
           [\A t, u \in Thread :
               k.waiting_on[t] = u /\ k'.waiting_on[t] # u =>
                  k'.waiting_on[u] = ReaperQ \/ u \notin bound']_vars
    BY DEF DeathStep
  <1> QED
    BY <1>1, <1>2, <1>3, OwnersInvariance, PTL
       DEF Spec, DeathIsFinal, DeadStayDead, JoinMeansDead
=============================================================================
