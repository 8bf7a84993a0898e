--------------------------- MODULE ServersProofs ---------------------------
(***************************************************************************)
(* The consoles of the console server and the descriptors of a program      *)
(* under their user semaphore, for any number of consoles, threads and      *)
(* descriptors; the image that netboot loads over an unreliable network,    *)
(* for any number of blocks; a terminal of any size, whatever is printed    *)
(* on it; and the calls of any number of programs to the namer.             *)
(***************************************************************************)
EXTENDS Fdl, Console, Netboot, Vt, Namer, FiniteSetTheorems, SequenceTheorems, TLAPS

-----------------------------------------------------------------------------
(* Consoles.  While the keyboard's thread switches, nobody is on the screen. *)

Kbd == {"irq", "key", "echo", "save", "saved", "function", "load", "copy"}

ConsoleTypes ==
    /\ active \in Console
    /\ vscr \in [Console -> [lock : {Nobody, "out", "kbd"}, data : {"screen", "back"}]]
    /\ screen \in [of : Console \cup {Nobody}, n : Nat]
    /\ back \in [Console -> Nat] /\ written \in [Console -> Nat]
    /\ kbd \in [pc : Kbd, at : Console]
    /\ out \in [pc : {"recv", "lock", "puts"}, at : Console]

\* A lock is held by the thread that says so, and by no other.
LocksHeld ==
    /\ out.pc = "puts" => vscr[out.at].lock = "out"
    /\ kbd.pc \in {"echo", "saved"} => vscr[active].lock = "kbd"
    /\ kbd.pc = "copy" => vscr[kbd.at].lock = "kbd"

\* Whose data is where, at each place of the keyboard's thread.
DataPlaced ==
    /\ kbd.pc \in {"irq", "key", "echo", "save", "saved"} =>
          vscr[active].data = "screen" /\ screen.of = active
    /\ kbd.pc \in {"function", "load", "copy"} => \A i \in Console : vscr[i].data = "back"
    /\ kbd.pc = "saved" => back[active] = screen.n
    /\ kbd.pc \in {"load", "copy"} => active = kbd.at

CInv == ConsolesKept /\ ConsoleTypes /\ LocksHeld /\ DataPlaced

LEMMA ConsoleStarts ==
    ASSUME ConsoleInit
    PROVE  CInv
  BY ConsoleAssumption
     DEF ConsoleInit, CInv, ConsolesKept, OneOnScreen, TextKept, ConsoleTypes, LocksHeld,
         DataPlaced, Kbd, Nobody

\* Printing is on a console that the thread holds, and so not on one being moved.
LEMMA PutCharKeeps ==
    ASSUME CInv, NEW i \in Console, PutChar(i),
           UNCHANGED <<active, vscr, kbd, out>>,
           kbd.pc = "saved" => i # active
    PROVE  CInv'
  BY DEF PutChar, CInv, ConsolesKept, OneOnScreen, TextKept, ConsoleTypes, LocksHeld,
         DataPlaced, Kbd, Nobody

LEMMA ConsoleStep ==
    ASSUME CInv, [ConsoleNext]_consoleVars
    PROVE  CInv'
  <1> USE DEF CInv, ConsolesKept, OneOnScreen, TextKept, ConsoleTypes, LocksHeld, DataPlaced, Kbd,
              Nobody, KbdGoes, SemAcquireC, SemReleaseC
  <1>1. CASE OutRecv
    BY <1>1 DEF OutRecv
  <1>2. CASE OutLock
    BY <1>2 DEF OutLock
  <1>3. CASE OutPut
    BY <1>3, PutCharKeeps DEF OutPut
  <1>4. CASE OutUnlock
    BY <1>4 DEF OutUnlock
  <1>5. CASE Key
    BY <1>5 DEF Key
  <1>6. CASE KeyPress
    BY <1>6 DEF KeyPress
  <1>7. CASE KeyEcho
    BY <1>7 DEF KeyEcho, PutChar
  <1>8. CASE SaveCopy
    BY <1>8 DEF SaveCopy
  <1>9. CASE SaveDone
    BY <1>9 DEF SaveDone
  <1>10. CASE Function
    BY <1>10 DEF Function
  <1>11. CASE Load
    BY <1>11 DEF Load
  <1>12. CASE LoadCopy
    BY <1>12 DEF LoadCopy
  <1>13. CASE UNCHANGED consoleVars
    BY <1>13 DEF consoleVars
  <1> QED
    BY <1>1, <1>2, <1>3, <1>4, <1>5, <1>6, <1>7, <1>8, <1>9, <1>10, <1>11, <1>12, <1>13
       DEF ConsoleNext

\* vcswitch of srv/console2/console.c while programs print: one console at most is
\* on the screen, and no character of any console is lost or shown on another.
THEOREM ConsolesStayKept == ConsoleSpec => []ConsolesKept
  <1>1. CInv => ConsolesKept
    BY DEF CInv
  <1> QED
    BY <1>1, ConsoleStarts, ConsoleStep, PTL DEF ConsoleSpec

-----------------------------------------------------------------------------
(* Descriptors.  How many threads are at some places of a user semaphore.   *)

In(f, P) == {t \in FThread : f[t].pc \in P}
Count(f, P) == Cardinality(In(f, P))

Pc == {"idle", "atomic_sub", "sem_acquire", "asleep", "scan", "take", "release", "sem_release"}
Past == {"scan", "take", "release"}
Sleeping == {"asleep"}
Releasing == {"sem_release"}
Counted == {"sem_acquire", "asleep", "scan", "take", "release"}

FdlTypes ==
    /\ build \in Builds
    /\ fd_table \in [Fd -> FThread \cup {Free}]
    /\ ft \in [FThread -> [pc : Pc, fd : 0..MAX_FDS]]
    /\ qcount \in Int
    /\ mutex \in [count : Int, queue : Seq(FThread)]
    /\ \A t \in FThread : At(t, "take") => ft[t].fd \in Fd

\* The kernel's semaphore: its queue has exactly the sleepers, each once, and its
\* count their number.
SleepersQueued ==
    /\ \A i \in 1..Len(mutex.queue) : ft[mutex.queue[i]].pc = "asleep"
    /\ \A i, j \in 1..Len(mutex.queue) : mutex.queue[i] = mutex.queue[j] => i = j
    /\ Len(mutex.queue) = Count(ft, Sleeping)
    /\ \/ mutex.count = 0 - Len(mutex.queue)
       \/ mutex.count > 0 /\ mutex.queue = <<>>

\* The unit is with one thread, or on its way to one, or free in one of two places.
Spare == IF qcount > 0 THEN qcount ELSE 0
OneUnit ==
    Count(ft, Past) + Count(ft, Releasing) + mutex.count + Len(mutex.queue) + Spare = 1

\* The counter in memory says how many use the semaphore, or is not used at all.
CountedRight ==
    /\ build = "I386" => /\ qcount = 0
                         /\ \A t \in FThread : ft[t].pc \notin {"atomic_sub", "sem_release"}
    /\ build # "I386" => qcount = 1 - Count(ft, Counted)

FInv == FdlTypes /\ SleepersQueued /\ OneUnit /\ CountedRight /\ TakesOnlyFree

LEMMA CountType ==
    ASSUME NEW f, NEW P
    PROVE  /\ IsFiniteSet(In(f, P)) /\ Count(f, P) \in Nat
           /\ Count(f, P) <= Cardinality(FThread) /\ Cardinality(FThread) \in Nat
           /\ Count(f, P) = 0 <=> In(f, P) = {}
  <1>1. In(f, P) \subseteq FThread
    BY DEF In
  <1>2. IsFiniteSet(FThread)
    BY FdlAssumption
  <1>3. IsFiniteSet(In(f, P)) /\ Cardinality(In(f, P)) <= Cardinality(FThread)
    BY <1>1, <1>2, FS_Subset
  <1>4. Cardinality(In(f, P)) \in Nat /\ Cardinality(FThread) \in Nat
    BY <1>2, <1>3, FS_CardinalityType
  <1>5. Cardinality(In(f, P)) = 0 <=> In(f, P) = {}
    BY <1>3, FS_EmptySet
  <1> QED
    BY <1>3, <1>4, <1>5 DEF Count

\* One thread goes from one place to another.
Shift(f, g, t, P) ==
    Count(g, P) = Count(f, P) + (IF g[t].pc \in P THEN 1 ELSE 0)
                              - (IF f[t].pc \in P THEN 1 ELSE 0)

LEMMA CountMoves ==
    ASSUME NEW f, NEW g, NEW t \in FThread, NEW P,
           \A u \in FThread : u # t => g[u] = f[u]
    PROVE  Shift(f, g, t, P)
  <1>1. IsFiniteSet(In(f, P)) /\ Count(f, P) \in Nat /\ Count(g, P) \in Nat
        /\ IsFiniteSet(In(g, P))
    BY CountType
  <1>2. CASE f[t].pc \in P /\ g[t].pc \in P
    <2>1. In(g, P) = In(f, P)
      BY <1>2 DEF In
    <2> QED
      BY <1>1, <1>2, <2>1 DEF Count, Shift
  <1>3. CASE f[t].pc \notin P /\ g[t].pc \notin P
    <2>1. In(g, P) = In(f, P)
      BY <1>3 DEF In
    <2> QED
      BY <1>1, <1>3, <2>1 DEF Count, Shift
  <1>4. CASE f[t].pc \in P /\ g[t].pc \notin P
    <2>1. In(g, P) = In(f, P) \ {t} /\ t \in In(f, P)
      BY <1>4 DEF In
    <2>2. Cardinality(In(f, P) \ {t}) = Cardinality(In(f, P)) - 1
      BY <1>1, <2>1, FS_RemoveElement
    <2> QED
      BY <1>1, <1>4, <2>1, <2>2 DEF Count, Shift
  <1>5. CASE f[t].pc \notin P /\ g[t].pc \in P
    <2>1. In(g, P) = In(f, P) \cup {t} /\ t \notin In(f, P)
      BY <1>5 DEF In
    <2>2. Cardinality(In(f, P) \cup {t}) = Cardinality(In(f, P)) + 1
      BY <1>1, <2>1, FS_AddElement
    <2> QED
      BY <1>1, <1>5, <2>1, <2>2 DEF Count, Shift
  <1> QED
    BY <1>2, <1>3, <1>4, <1>5

\* The counts when thread t alone moves from its place to place p.
Moved(t, p) ==
    /\ Count(ft', Past) = Count(ft, Past) + (IF p \in Past THEN 1 ELSE 0)
                                        - (IF ft[t].pc \in Past THEN 1 ELSE 0)
    /\ Count(ft, Past) \in Nat /\ Count(ft', Past) \in Nat
    /\ Count(ft', Sleeping) = Count(ft, Sleeping) + (IF p \in Sleeping THEN 1 ELSE 0)
                                        - (IF ft[t].pc \in Sleeping THEN 1 ELSE 0)
    /\ Count(ft, Sleeping) \in Nat /\ Count(ft', Sleeping) \in Nat
    /\ Count(ft', Releasing) = Count(ft, Releasing) + (IF p \in Releasing THEN 1 ELSE 0)
                                        - (IF ft[t].pc \in Releasing THEN 1 ELSE 0)
    /\ Count(ft, Releasing) \in Nat /\ Count(ft', Releasing) \in Nat
    /\ Count(ft', Counted) = Count(ft, Counted) + (IF p \in Counted THEN 1 ELSE 0)
                                        - (IF ft[t].pc \in Counted THEN 1 ELSE 0)
    /\ Count(ft, Counted) \in Nat /\ Count(ft', Counted) \in Nat

LEMMA OneMoves ==
    ASSUME FInv, NEW t \in FThread, NEW p \in Pc, NEW d \in 0..MAX_FDS,
           ft' = [ft EXCEPT ![t] = [pc |-> p, fd |-> d]]
    PROVE  /\ ft' \in [FThread -> [pc : Pc, fd : 0..MAX_FDS]]
           /\ ft'[t] = [pc |-> p, fd |-> d]
           /\ \A u \in FThread : u # t => ft'[u] = ft[u]
           /\ Moved(t, p)
  <1>1. ft \in [FThread -> [pc : Pc, fd : 0..MAX_FDS]]
    BY DEF FInv, FdlTypes
  <1>2. /\ ft' \in [FThread -> [pc : Pc, fd : 0..MAX_FDS]]
        /\ ft'[t] = [pc |-> p, fd |-> d]
        /\ \A u \in FThread : u # t => ft'[u] = ft[u]
    BY <1>1
  <1> DEFINE f == ft
             g == ft'
  <1>3. /\ \A u \in FThread : u # t => g[u] = f[u]
        /\ g[t].pc = p
    BY <1>2
  <1> HIDE DEF f, g
  <1>4. ASSUME NEW P \in {Past, Sleeping, Releasing, Counted}
        PROVE  /\ Count(g, P) = Count(f, P) + (IF p \in P THEN 1 ELSE 0)
                                            - (IF f[t].pc \in P THEN 1 ELSE 0)
               /\ Count(f, P) \in Nat /\ Count(g, P) \in Nat
    <2>1. Count(f, P) \in Nat /\ Count(g, P) \in Nat
      BY CountType
    <2>2. Shift(f, g, t, P)
      BY <1>3, CountMoves
    <2> QED
      BY <1>3, <2>1, <2>2 DEF Shift
  <1>5. ASSUME NEW P \in {Past, Sleeping, Releasing, Counted}
        PROVE  /\ Count(ft', P) = Count(ft, P) + (IF p \in P THEN 1 ELSE 0)
                                               - (IF ft[t].pc \in P THEN 1 ELSE 0)
               /\ Count(ft, P) \in Nat /\ Count(ft', P) \in Nat
    BY <1>4 DEF f, g
  <1>6. /\ Count(ft', Past) = Count(ft, Past) + (IF p \in Past THEN 1 ELSE 0)
                                              - (IF ft[t].pc \in Past THEN 1 ELSE 0)
        /\ Count(ft, Past) \in Nat /\ Count(ft', Past) \in Nat
    BY <1>5
  <1>7. /\ Count(ft', Sleeping) = Count(ft, Sleeping) + (IF p \in Sleeping THEN 1 ELSE 0)
                                          - (IF ft[t].pc \in Sleeping THEN 1 ELSE 0)
        /\ Count(ft, Sleeping) \in Nat /\ Count(ft', Sleeping) \in Nat
    BY <1>5
  <1>8. /\ Count(ft', Releasing) = Count(ft, Releasing) + (IF p \in Releasing THEN 1 ELSE 0)
                                          - (IF ft[t].pc \in Releasing THEN 1 ELSE 0)
        /\ Count(ft, Releasing) \in Nat /\ Count(ft', Releasing) \in Nat
    BY <1>5
  <1>9. /\ Count(ft', Counted) = Count(ft, Counted) + (IF p \in Counted THEN 1 ELSE 0)
                                          - (IF ft[t].pc \in Counted THEN 1 ELSE 0)
        /\ Count(ft, Counted) \in Nat /\ Count(ft', Counted) \in Nat
    BY <1>5
  <1>10. Moved(t, p)
    BY <1>6, <1>7, <1>8, <1>9 DEF Moved
  <1> QED
    BY <1>2, <1>10

LEMMA QueueType ==
    ASSUME FInv
    PROVE  /\ mutex.count \in Int /\ mutex.queue \in Seq(FThread) /\ Len(mutex.queue) \in Nat
           /\ \A i \in 1..Len(mutex.queue) : mutex.queue[i] \in FThread
           /\ mutex = [count |-> mutex.count, queue |-> mutex.queue]
  <1>1. mutex \in [count : Int, queue : Seq(FThread)]
    BY DEF FInv, FdlTypes
  <1>2. mutex.count \in Int /\ mutex.queue \in Seq(FThread)
    BY <1>1
  <1>3. mutex = [count |-> mutex.count, queue |-> mutex.queue]
    BY <1>1
  <1> QED
    BY <1>2, <1>3

LEMMA GoesIs ==
    ASSUME FInv, NEW t \in FThread, NEW p \in Pc, Goes(t, p)
    PROVE  ft' = [ft EXCEPT ![t] = [pc |-> p, fd |-> ft[t].fd]] /\ ft[t].fd \in 0..MAX_FDS
  <1>1. ft[t] \in [pc : Pc, fd : 0..MAX_FDS]
    BY DEF FInv, FdlTypes
  <1>2. [ft[t] EXCEPT !.pc = p] = [pc |-> p, fd |-> ft[t].fd]
    BY <1>1
  <1> QED
    BY <1>1, <1>2 DEF Goes

\* One thread at most is past qsem_acquire.
LEMMA OnePast ==
    ASSUME FInv, NEW t \in FThread, NEW u \in FThread, ft[t].pc \in Past, ft[u].pc \in Past
    PROVE  t = u
  <1>1. /\ Count(ft, Past) \in Nat /\ Count(ft, Releasing) \in Nat
        /\ IsFiniteSet(In(ft, Past))
    BY CountType
  <1>2. Count(ft, Past) <= 1
    BY <1>1 DEF FInv, FdlTypes, OneUnit, Spare, SleepersQueued
  <1>3. t \in In(ft, Past) /\ u \in In(ft, Past)
    BY DEF In
  <1>4. Cardinality(In(ft, Past) \ {t}) = Cardinality(In(ft, Past)) - 1
        /\ IsFiniteSet(In(ft, Past) \ {t})
    BY <1>1, <1>3, FS_RemoveElement
  <1>5. ASSUME t # u PROVE FALSE
    <2>1. u \in In(ft, Past) \ {t}
      BY <1>3, <1>5
    <2>2. Cardinality(In(ft, Past) \ {t}) # 0
      BY <1>4, <2>1, FS_EmptySet
    <2>3. Cardinality(In(ft, Past) \ {t}) \in Nat
      BY <1>4, FS_CardinalityType
    <2> QED
      BY <1>1, <1>2, <1>4, <2>2, <2>3 DEF Count
  <1> QED
    BY <1>5

\* A step that leaves the kernel's semaphore alone, and neither starts nor ends a
\* sleep: it is enough to count.
LEMMA AwakeStep ==
    ASSUME FInv, NEW t \in FThread, NEW p \in Pc, NEW d \in 0..MAX_FDS,
           ft' = [ft EXCEPT ![t] = [pc |-> p, fd |-> d]],
           ft[t].pc # "asleep", p # "asleep", UNCHANGED <<mutex, build>>,
           fd_table' \in [Fd -> FThread \cup {Free}], qcount' \in Int,
           p = "take" => d \in Fd
    PROVE  FdlTypes' /\ SleepersQueued'
  <1>1. FdlTypes'
    BY OneMoves DEF FInv, FdlTypes, At
  <1>2. Count(ft', Sleeping) = Count(ft, Sleeping)
    <2>1. Moved(t, p)
      BY OneMoves
    <2> QED
      BY <2>1 DEF Moved, Sleeping
  <1>3. \A i \in 1..Len(mutex.queue) : mutex.queue[i] \in FThread
    BY DEF FInv, FdlTypes
  <1>4. \A i \in 1..Len(mutex.queue) : ft'[mutex.queue[i]].pc = "asleep"
    BY <1>3, OneMoves DEF FInv, SleepersQueued
  <1> QED
    BY <1>1, <1>2, <1>4 DEF FInv, SleepersQueued

LEMMA OpenKeeps ==
    ASSUME FInv, NEW t \in FThread, FdlOpen(t)
    PROVE  FInv'
  <1>0. PICK p \in Pc : p = IF build = "I386" THEN "sem_acquire" ELSE "atomic_sub"
    BY DEF Pc
  <1>1. /\ ft' = [ft EXCEPT ![t] = [pc |-> p, fd |-> ft[t].fd]]
        /\ ft[t].fd \in 0..MAX_FDS /\ ft[t].pc = "idle"
        /\ UNCHANGED <<build, fd_table, qcount, mutex>>
    BY <1>0, GoesIs DEF FdlOpen, At, Pc
  <1>2. FdlTypes' /\ SleepersQueued'
    BY <1>0, <1>1, AwakeStep DEF FInv, FdlTypes
  <1>9. Moved(t, p)
    BY <1>0, <1>1, OneMoves
  <1>3. /\ Count(ft', Past) = Count(ft, Past)
        /\ Count(ft', Releasing) = Count(ft, Releasing)
        /\ build # "I386" => Count(ft', Counted) = Count(ft, Counted)
    BY <1>0, <1>1, <1>9 DEF Moved, Past, Sleeping, Releasing, Counted
  <1>4. OneUnit'
    BY <1>0, <1>1, <1>3 DEF FInv, OneUnit, Spare
  <1>5. CountedRight'
    BY <1>0, <1>1, <1>3, OneMoves DEF FInv, CountedRight
  <1>6. TakesOnlyFree'
    BY <1>0, <1>1, OneMoves DEF FInv, TakesOnlyFree, At
  <1> QED
    BY <1>2, <1>4, <1>5, <1>6 DEF FInv

LEMMA SubKeeps ==
    ASSUME FInv, NEW t \in FThread, AtomicSub(t)
    PROVE  FInv'
  <1>0. PICK p \in Pc : p = IF qcount <= 0 THEN "sem_acquire" ELSE "scan"
    BY DEF Pc
  <1>1. /\ ft' = [ft EXCEPT ![t] = [pc |-> p, fd |-> ft[t].fd]]
        /\ ft[t].fd \in 0..MAX_FDS /\ ft[t].pc = "atomic_sub"
        /\ qcount' = qcount - 1 /\ qcount \in Int
        /\ UNCHANGED <<build, fd_table, mutex>>
    BY <1>0, GoesIs DEF AtomicSub, At, Pc, FInv, FdlTypes
  <1>2. FdlTypes' /\ SleepersQueued'
    <2>1. /\ qcount' \in Int /\ p # "asleep" /\ p # "take"
          /\ fd_table' \in [Fd -> FThread \cup {Free}]
      BY <1>0, <1>1 DEF FInv, FdlTypes
    <2> QED
      BY <1>1, <2>1, AwakeStep
  <1>9. Moved(t, p)
    BY <1>0, <1>1, OneMoves
  <1>3. /\ Count(ft', Past) = Count(ft, Past) + (IF qcount <= 0 THEN 0 ELSE 1)
        /\ Count(ft', Releasing) = Count(ft, Releasing)
        /\ Count(ft', Counted) = Count(ft, Counted) + 1
        /\ Count(ft, Past) \in Nat /\ Count(ft, Releasing) \in Nat
        /\ Count(ft, Counted) \in Nat
    BY <1>0, <1>1, <1>9 DEF Moved, Past, Sleeping, Releasing, Counted
  <1>4. OneUnit'
    BY <1>0, <1>1, <1>3, SMTT(60) DEF FInv, FdlTypes, OneUnit, Spare
  <1>5. CountedRight'
    BY <1>0, <1>1, <1>3, OneMoves DEF FInv, CountedRight
  <1>6. TakesOnlyFree'
    BY <1>0, <1>1, OneMoves DEF FInv, TakesOnlyFree, At
  <1> QED
    BY <1>2, <1>4, <1>5, <1>6 DEF FInv

LEMMA ScanKeeps ==
    ASSUME FInv, NEW t \in FThread, Scan(t)
    PROVE  FInv'
  <1>1. /\ ft \in [FThread -> [pc : Pc, fd : 0..MAX_FDS]] /\ ft[t].pc = "scan"
        /\ MAX_FDS \in Nat /\ UNCHANGED <<build, fd_table, qcount, mutex>>
    BY FdlAssumption DEF FInv, FdlTypes, Scan, At
  <1>2. PICK p \in {"release", "take", "scan"}, d \in 0..MAX_FDS :
           /\ ft' = [ft EXCEPT ![t] = [pc |-> p, fd |-> d]]
           /\ p = "take" => d \in Fd /\ fd_table[d] = Free
    <2>1. /\ ft[t] \in [pc : Pc, fd : 0..MAX_FDS] /\ ft[t].fd \in 0..MAX_FDS
          /\ \A p \in Pc : [ft[t] EXCEPT !.pc = p] = [pc |-> p, fd |-> ft[t].fd]
          /\ [ft[t] EXCEPT !.fd = @ + 1] = [pc |-> "scan", fd |-> ft[t].fd + 1]
      BY <1>1
    <2>2. CASE ft[t].fd = MAX_FDS
      <3>1. ft' = [ft EXCEPT ![t] = [pc |-> "release", fd |-> ft[t].fd]]
        BY <2>1, <2>2 DEF Scan, Pc
      <3> QED
        BY <2>1, <3>1
    <2>3. CASE ft[t].fd # MAX_FDS /\ fd_table[ft[t].fd] = Free
      <3>1. ft' = [ft EXCEPT ![t] = [pc |-> "take", fd |-> ft[t].fd]]
        BY <2>1, <2>3 DEF Scan, Pc
      <3>2. ft[t].fd \in Fd
        BY <1>1, <2>1, <2>3 DEF Fd
      <3> QED
        BY <2>1, <2>3, <3>1, <3>2
    <2>4. CASE ft[t].fd # MAX_FDS /\ fd_table[ft[t].fd] # Free
      <3>1. ft' = [ft EXCEPT ![t] = [pc |-> "scan", fd |-> ft[t].fd + 1]]
        BY <2>1, <2>4 DEF Scan
      <3>2. ft[t].fd + 1 \in 0..MAX_FDS
        BY <1>1, <2>1, <2>4
      <3> QED
        BY <3>1, <3>2
    <2> QED
      BY <2>2, <2>3, <2>4
  <1>3. p \in Pc
    BY DEF Pc
  <1>4. FdlTypes' /\ SleepersQueued'
    BY <1>1, <1>2, <1>3, AwakeStep DEF FInv, FdlTypes
  <1>9. Moved(t, p)
    BY <1>1, <1>2, <1>3, OneMoves
  <1>5. /\ Count(ft', Past) = Count(ft, Past)
        /\ Count(ft', Releasing) = Count(ft, Releasing)
        /\ Count(ft', Counted) = Count(ft, Counted)
    BY <1>1, <1>2, <1>3, <1>9 DEF Moved, Past, Sleeping, Releasing, Counted
  <1>6. OneUnit' /\ CountedRight'
    BY <1>1, <1>2, <1>3, <1>5, OneMoves DEF FInv, OneUnit, Spare, CountedRight
  <1>7. TakesOnlyFree'
    BY <1>1, <1>2, <1>3, OneMoves DEF FInv, TakesOnlyFree, At
  <1> QED
    BY <1>4, <1>6, <1>7 DEF FInv

LEMMA TakeKeeps ==
    ASSUME FInv, NEW t \in FThread, Take(t)
    PROVE  FInv'
  <1>1. /\ ft' = [ft EXCEPT ![t] = [pc |-> "release", fd |-> ft[t].fd]]
        /\ ft[t].fd \in 0..MAX_FDS /\ ft[t].pc = "take" /\ "release" \in Pc
        /\ UNCHANGED <<build, qcount, mutex>>
        /\ fd_table' = [fd_table EXCEPT ![ft[t].fd] = t]
    BY GoesIs DEF Take, At, Pc
  <1>2. fd_table' \in [Fd -> FThread \cup {Free}]
    BY <1>1 DEF FInv, FdlTypes
  <1>3. FdlTypes' /\ SleepersQueued'
    BY <1>1, <1>2, AwakeStep DEF FInv, FdlTypes
  <1>9. Moved(t, "release")
    BY <1>1, OneMoves
  <1>4. /\ Count(ft', Past) = Count(ft, Past)
        /\ Count(ft', Releasing) = Count(ft, Releasing)
        /\ Count(ft', Counted) = Count(ft, Counted)
    BY <1>1, <1>9 DEF Moved, Past, Sleeping, Releasing, Counted
  <1>5. OneUnit' /\ CountedRight'
    BY <1>1, <1>4, OneMoves DEF FInv, OneUnit, Spare, CountedRight
  <1>6. \A u \in FThread : u # t => ft[u].pc # "take"
    BY <1>1, OnePast DEF Past
  <1>7. TakesOnlyFree'
    BY <1>1, <1>6, OneMoves DEF FInv, TakesOnlyFree, At
  <1> QED
    BY <1>3, <1>5, <1>7 DEF FInv

LEMMA AddKeeps ==
    ASSUME FInv, NEW t \in FThread, AtomicAdd(t)
    PROVE  FInv'
  <1>0. PICK p \in Pc : p = IF qcount < 0 THEN "sem_release" ELSE "idle"
    BY DEF Pc
  <1>1. /\ ft' = [ft EXCEPT ![t] = [pc |-> p, fd |-> 0]]
        /\ 0 \in 0..MAX_FDS /\ ft[t].pc = "release" /\ build # "I386"
        /\ qcount' = qcount + 1 /\ qcount \in Int
        /\ UNCHANGED <<build, fd_table, mutex>>
    BY <1>0, FdlAssumption DEF AtomicAdd, At, Pc, FInv, FdlTypes
  <1>2. FdlTypes' /\ SleepersQueued'
    <2>1. /\ qcount' \in Int /\ p # "asleep" /\ p # "take"
          /\ fd_table' \in [Fd -> FThread \cup {Free}]
      BY <1>0, <1>1 DEF FInv, FdlTypes
    <2> QED
      BY <1>1, <2>1, AwakeStep
  <1>9. Moved(t, p)
    BY <1>0, <1>1, OneMoves
  <1>3. /\ Count(ft', Past) = Count(ft, Past) - 1
        /\ Count(ft', Releasing)
             = Count(ft, Releasing) + (IF qcount < 0 THEN 1 ELSE 0)
        /\ Count(ft', Counted) = Count(ft, Counted) - 1
        /\ Count(ft, Past) \in Nat /\ Count(ft, Releasing) \in Nat
        /\ Count(ft, Counted) \in Nat
    <2>1. CASE qcount < 0
      BY <1>0, <1>1, <1>9, <2>1 DEF Moved, Past, Releasing, Counted
    <2>2. CASE ~(qcount < 0)
      BY <1>0, <1>1, <1>9, <2>2 DEF Moved, Past, Releasing, Counted
    <2> QED
      BY <2>1, <2>2
  <1>4. OneUnit'
    <2>1. OneUnit /\ mutex.count \in Int /\ Len(mutex.queue) \in Nat
      BY QueueType DEF FInv
    <2>2. CASE qcount < 0
      BY <1>1, <1>3, <2>1, <2>2 DEF OneUnit, Spare
    <2>3. CASE ~(qcount < 0)
      <3>1. Spare' = Spare + 1 /\ Spare \in Int
        BY <1>1, <2>3 DEF Spare
      <3>2. /\ Count(ft', Past) = Count(ft, Past) - 1
            /\ Count(ft', Releasing) = Count(ft, Releasing)
        BY <1>3, <2>3
      <3> QED
        <4>1. Count(ft, Past) \in Int /\ Count(ft, Releasing) \in Int
          BY <1>3
        <4> QED
          BY ONLY <1>1, <2>1, <3>1, <3>2, <4>1, SMTT(60) DEF OneUnit
    <2> QED
      BY <2>2, <2>3
  <1>5. CountedRight'
    BY <1>0, <1>1, <1>3 DEF FInv, CountedRight
  <1>6. TakesOnlyFree'
    BY <1>0, <1>1, OneMoves DEF FInv, TakesOnlyFree, At
  <1> QED
    BY <1>2, <1>4, <1>5, <1>6 DEF FInv

LEMMA AcquireKeepsFdl ==
    ASSUME FInv, NEW t \in FThread, SemAcquire(t)
    PROVE  FInv'
  <1> DEFINE q == mutex.queue
  <1>0. PICK p \in Pc : p = IF mutex.count <= 0 THEN "asleep" ELSE "scan"
    BY DEF Pc
  <1>1. /\ ft' = [ft EXCEPT ![t] = [pc |-> p, fd |-> ft[t].fd]]
        /\ ft[t].fd \in 0..MAX_FDS /\ ft[t].pc = "sem_acquire"
        /\ UNCHANGED <<build, fd_table, qcount>>
        /\ mutex' = [count |-> mutex.count - 1,
                     queue |-> IF mutex.count <= 0 THEN Append(q, t) ELSE q]
    BY <1>0, GoesIs DEF SemAcquire, At
  <1>2. /\ ft' \in [FThread -> [pc : Pc, fd : 0..MAX_FDS]]
        /\ ft'[t] = [pc |-> p, fd |-> ft[t].fd]
        /\ \A u \in FThread : u # t => ft'[u] = ft[u]
        /\ Moved(t, p)
    BY <1>0, <1>1, OneMoves
  <1>3. /\ mutex.count \in Int /\ q \in Seq(FThread) /\ Len(q) \in Nat
        /\ \A i \in 1..Len(q) : q[i] \in FThread
    BY QueueType
  <1>4. /\ SleepersQueued /\ OneUnit /\ CountedRight /\ TakesOnlyFree /\ FdlTypes
    BY DEF FInv
  <1>5. CASE mutex.count <= 0
    <2> DEFINE r == Append(q, t)
    <2>1. /\ r \in Seq(FThread) /\ Len(r) = Len(q) + 1 /\ r[Len(q) + 1] = t
          /\ \A i \in 1..Len(q) : r[i] = q[i]
      BY <1>3, AppendProperties
    <2>2. mutex'.queue = r /\ mutex'.count = mutex.count - 1 /\ p = "asleep"
          /\ mutex' = [count |-> mutex.count - 1, queue |-> r]
      BY <1>0, <1>1, <1>5
    <2> HIDE DEF q, r
    <2>3. FdlTypes'
      <3>1. mutex' \in [count : Int, queue : Seq(FThread)]
        BY <1>3, <2>1, <2>2
      <3> QED
        BY <1>1, <1>2, <1>4, <2>2, <3>1 DEF FdlTypes, At
    <2>4. /\ Count(ft', Past) = Count(ft, Past) /\ Count(ft', Releasing) = Count(ft, Releasing)
          /\ Count(ft', Sleeping) = Count(ft, Sleeping) + 1
          /\ Count(ft', Counted) = Count(ft, Counted)
          /\ Count(ft, Past) \in Nat /\ Count(ft, Releasing) \in Nat
          /\ Count(ft, Sleeping) \in Nat
      BY <1>1, <1>2, <2>2 DEF Moved, Past, Sleeping, Releasing, Counted
    <2>5. /\ \A i \in 1..Len(q) : ft[q[i]].pc = "asleep"
          /\ \A i, j \in 1..Len(q) : q[i] = q[j] => i = j
          /\ Len(q) = Count(ft, Sleeping) /\ mutex.count = 0 - Len(q)
      BY <1>3, <1>4, <1>5 DEF SleepersQueued, q
    <2>6. \A i \in 1..Len(q) : q[i] # t /\ ft'[q[i]].pc = "asleep"
      BY <1>1, <1>2, <1>3, <2>5
    <2>7. \A i \in 1..Len(r) : ft'[r[i]].pc = "asleep"
      <3>1. \A i \in 1..Len(r) : i \in 1..Len(q) \/ i = Len(q) + 1
        BY <1>3, <2>1
      <3> QED
        BY <1>2, <2>1, <2>2, <2>6, <3>1, SMTT(60)
    <2>8. \A i, j \in 1..Len(r) : r[i] = r[j] => i = j
      <3>1. \A i \in 1..Len(r) : i \in 1..Len(q) \/ i = Len(q) + 1
        BY <1>3, <2>1
      <3> QED
        BY <2>1, <2>5, <2>6, <3>1
    <2>9. Len(r) = Count(ft', Sleeping) /\ mutex'.count = 0 - Len(r)
      BY <1>3, <2>1, <2>2, <2>4, <2>5
    <2>10. SleepersQueued'
      <3>1. mutex'.count = 0 - Len(mutex'.queue)
        BY <2>2, <2>9
      <3>2. Len(mutex'.queue) = Count(ft', Sleeping)
        BY <2>2, <2>9
      <3> QED
        BY <2>2, <2>7, <2>8, <3>1, <3>2 DEF SleepersQueued
    <2>11. OneUnit'
      <3>1. Count(ft, Past) + Count(ft, Releasing) + mutex.count + Len(q) + Spare = 1
        BY <1>4 DEF OneUnit, q
      <3>2. Spare \in Int /\ Spare' = Spare
        BY <1>1, <1>4 DEF FdlTypes, Spare
      <3>3. Count(ft, Past) + Count(ft, Releasing) + (mutex.count - 1) + (Len(q) + 1) + Spare = 1
        <4>1. /\ Count(ft, Past) \in Int /\ Count(ft, Releasing) \in Int
              /\ mutex.count \in Int /\ Len(q) \in Int
          BY <1>3, <2>4
        <4> QED
          BY ONLY <4>1, <3>1, <3>2
      <3> QED
        BY ONLY <1>1, <2>1, <2>2, <2>4, <3>2, <3>3 DEF OneUnit
    <2>12. CountedRight' /\ TakesOnlyFree'
      BY <1>1, <1>2, <1>4, <2>2, <2>4 DEF CountedRight, TakesOnlyFree, At
    <2> QED
      BY <2>3, <2>10, <2>11, <2>12 DEF FInv
  <1>6. CASE ~(mutex.count <= 0)
    <2>1. mutex.count > 0 /\ q = <<>> /\ Len(q) = 0
      BY <1>3, <1>4, <1>6 DEF SleepersQueued
    <2>2. mutex'.queue = q /\ mutex'.count = mutex.count - 1 /\ p = "scan"
          /\ mutex' = [count |-> mutex.count - 1, queue |-> q]
      BY <1>0, <1>1, <1>6
    <2> HIDE DEF q
    <2>3. FdlTypes'
      <3>1. mutex' \in [count : Int, queue : Seq(FThread)]
        BY <1>3, <2>1, <2>2
      <3> QED
        BY <1>1, <1>2, <1>4, <2>2, <3>1 DEF FdlTypes, At
    <2>4. /\ Count(ft', Past) = Count(ft, Past) + 1
          /\ Count(ft', Releasing) = Count(ft, Releasing)
          /\ Count(ft', Sleeping) = Count(ft, Sleeping)
          /\ Count(ft', Counted) = Count(ft, Counted)
          /\ Count(ft, Past) \in Nat /\ Count(ft, Releasing) \in Nat
          /\ Count(ft, Sleeping) \in Nat
      BY <1>1, <1>2, <2>2 DEF Moved, Past, Sleeping, Releasing, Counted
    <2>5. SleepersQueued'
      <3>1. Count(ft, Sleeping) = 0
        BY <1>4, <2>1 DEF SleepersQueued, q
      <3>2. mutex'.count = 0 \/ mutex'.count > 0
        BY <1>3, <2>1, <2>2
      <3>3. Len(mutex'.queue) = 0 /\ mutex'.queue = <<>>
        BY <2>1, <2>2
      <3> QED
        BY <2>4, <3>1, <3>2, <3>3 DEF SleepersQueued
    <2>6. OneUnit'
      <3>1. Count(ft, Past) + Count(ft, Releasing) + mutex.count + Len(q) + Spare = 1
        BY <1>4 DEF OneUnit, q
      <3>2. Spare \in Int /\ Spare' = Spare
        BY <1>1, <1>4 DEF FdlTypes, Spare
      <3>3. (Count(ft, Past) + 1) + Count(ft, Releasing) + (mutex.count - 1) + Len(q) + Spare = 1
        BY <1>3, <2>4, <3>1, <3>2
      <3> QED
        BY ONLY <1>1, <2>2, <2>4, <3>2, <3>3 DEF OneUnit
    <2>7. CountedRight' /\ TakesOnlyFree'
      BY <1>1, <1>2, <1>4, <2>2, <2>4 DEF CountedRight, TakesOnlyFree, At
    <2> QED
      BY <2>3, <2>5, <2>6, <2>7 DEF FInv
  <1> QED
    BY <1>5, <1>6

\* Head and tail of a queue of threads, element by element.
LEMMA QueueTail ==
    ASSUME NEW q \in Seq(FThread), q # <<>>
    PROVE  /\ Head(q) = q[1] /\ q[1] \in FThread /\ 1 \in 1..Len(q)
           /\ Tail(q) \in Seq(FThread) /\ Len(Tail(q)) = Len(q) - 1 /\ Len(q) \in Nat
           /\ \A i \in 1..Len(Tail(q)) : i + 1 \in 1..Len(q) /\ Tail(q)[i] = q[i + 1]
  <1>1. Len(q) \in Nat /\ Len(q) # 0
    BY EmptySeq
  <1>2. 1 \in 1..Len(q)
    BY <1>1
  <1>3. q[1] \in FThread
    BY <1>2, ElementOfSeq
  <1>4. /\ Head(q) = q[1] /\ Tail(q) \in Seq(FThread) /\ Len(Tail(q)) = Len(q) - 1
        /\ \A i \in 1..Len(Tail(q)) : Tail(q)[i] = q[i + 1]
    BY HeadTailProperties
  <1>5. \A i \in 1..Len(Tail(q)) : i + 1 \in 1..Len(q)
    BY <1>1, <1>4
  <1> QED
    BY <1>1, <1>2, <1>3, <1>4, <1>5

\* The count when thread t goes from its place to "idle" and a sleeper to "scan".
Gains(f, g, t, P) ==
    /\ Count(g, P) = Count(f, P) + (IF "idle" \in P THEN 1 ELSE 0)
                                 - (IF f[t].pc \in P THEN 1 ELSE 0)
                                 + (IF "scan" \in P THEN 1 ELSE 0)
                                 - (IF "asleep" \in P THEN 1 ELSE 0)
    /\ Count(f, P) \in Nat /\ Count(g, P) \in Nat

LEMMA TwoMove ==
    ASSUME NEW f, NEW e, NEW g, NEW t \in FThread, NEW h \in FThread, NEW P,
           \A u \in FThread : u # t => e[u] = f[u],
           \A u \in FThread : u # h => g[u] = e[u],
           e[t].pc = "idle", g[h].pc = "scan", e[h].pc = "asleep"
    PROVE  Gains(f, g, t, P)
  <1>1. /\ Count(f, P) \in Nat /\ Count(g, P) \in Nat /\ Count(e, P) \in Nat
    BY CountType
  <1>2. Shift(f, e, t, P) /\ Shift(e, g, h, P)
    BY CountMoves
  <1> QED
    BY <1>1, <1>2 DEF Gains, Shift

\* qsem_release wakes the first sleeper: thread t leaves, thread h is let in.
LEMMA WakeKeeps ==
    ASSUME FInv, NEW t \in FThread, SemRelease(t), mutex.queue # <<>>
    PROVE  FInv'
  <1> DEFINE q == mutex.queue
             h == Head(q)
             r == Tail(q)
             f == ft
             e == [ft EXCEPT ![t] = [pc |-> "idle", fd |-> 0]]
             g == ft'
  <1>1. /\ mutex.count \in Int /\ q \in Seq(FThread) /\ Len(q) \in Nat
        /\ \A i \in 1..Len(q) : q[i] \in FThread
    BY QueueType
  <1>2. /\ SleepersQueued /\ OneUnit /\ CountedRight /\ TakesOnlyFree /\ FdlTypes
    BY DEF FInv
  <1>3. /\ h = q[1] /\ h \in FThread /\ 1 \in 1..Len(q) /\ r \in Seq(FThread)
        /\ Len(r) = Len(q) - 1
        /\ \A i \in 1..Len(r) : i + 1 \in 1..Len(q) /\ r[i] = q[i + 1]
    BY <1>1, QueueTail
  <1>4. /\ \A i \in 1..Len(q) : ft[q[i]].pc = "asleep"
        /\ \A i, j \in 1..Len(q) : q[i] = q[j] => i = j
        /\ Len(q) = Count(ft, Sleeping) /\ mutex.count = 0 - Len(q)
    <2>1. q # <<>>
      OBVIOUS
    <2> QED
      BY <1>2, <2>1 DEF SleepersQueued
  <1>5. /\ ft[t].pc = IF build = "I386" THEN "release" ELSE "sem_release"
        /\ mutex' = [count |-> mutex.count + 1, queue |-> r]
        /\ mutex'.queue = r /\ mutex'.count = mutex.count + 1
        /\ ft' = [ft EXCEPT ![t] = [pc |-> "idle", fd |-> 0], ![h].pc = "scan"]
        /\ UNCHANGED <<build, fd_table, qcount>>
    BY DEF SemRelease, At
  <1>6. h # t /\ ft[h].pc = "asleep"
    BY <1>3, <1>4, <1>5
  <1>7. ft \in [FThread -> [pc : Pc, fd : 0..MAX_FDS]]
    BY <1>2 DEF FdlTypes
  <1>8. /\ e \in [FThread -> [pc : Pc, fd : 0..MAX_FDS]]
        /\ e[t].pc = "idle" /\ \A u \in FThread : u # t => e[u] = ft[u]
    <2>1. [pc |-> "idle", fd |-> 0] \in [pc : Pc, fd : 0..MAX_FDS]
      BY FdlAssumption DEF Pc
    <2> QED
      BY <1>7, <2>1
  <1>9. /\ g \in [FThread -> [pc : Pc, fd : 0..MAX_FDS]]
        /\ g[h].pc = "scan" /\ \A u \in FThread : u # h => g[u] = e[u]
    <2>1. ft' = [e EXCEPT ![h].pc = "scan"]
      BY <1>5
    <2>2. e[h] \in [pc : Pc, fd : 0..MAX_FDS]
      BY <1>3, <1>8
    <2>3. [e[h] EXCEPT !.pc = "scan"] \in [pc : Pc, fd : 0..MAX_FDS]
          /\ [e[h] EXCEPT !.pc = "scan"].pc = "scan"
      BY <2>2 DEF Pc
    <2> HIDE DEF e
    <2> QED
      BY <1>3, <1>8, <2>1, <2>3
  <1>10. e[h].pc = "asleep"
    BY <1>3, <1>6, <1>8
  <1> HIDE DEF q, h, r, f, e, g
  <1>11. ASSUME NEW P PROVE Gains(f, g, t, P)
    <2>1. /\ \A u \in FThread : u # t => e[u] = f[u]
          /\ \A u \in FThread : u # h => g[u] = e[u]
          /\ h \in FThread /\ e[t].pc = "idle" /\ g[h].pc = "scan" /\ e[h].pc = "asleep"
      BY <1>3, <1>8, <1>9, <1>10 DEF f
    <2> QED
      BY <2>1, TwoMove
  <1>12. /\ Count(ft', Past) = Count(ft, Past) + (IF build = "I386" THEN 0 ELSE 1)
         /\ Count(ft, Past) \in Nat /\ Count(ft', Past) \in Nat
    <2>1. Gains(f, g, t, Past)
      BY <1>11
    <2> QED
      BY <1>5, <2>1 DEF Gains, Past, f, g
  <1>13. /\ Count(ft', Releasing) = Count(ft, Releasing) - (IF build = "I386" THEN 0 ELSE 1)
         /\ Count(ft, Releasing) \in Nat /\ Count(ft', Releasing) \in Nat
    <2>1. Gains(f, g, t, Releasing)
      BY <1>11
    <2> QED
      BY <1>5, <2>1 DEF Gains, Releasing, f, g
  <1>14. /\ Count(ft', Sleeping) = Count(ft, Sleeping) - 1
         /\ Count(ft, Sleeping) \in Nat /\ Count(ft', Sleeping) \in Nat
    <2>1. Gains(f, g, t, Sleeping)
      BY <1>11
    <2> QED
      BY <1>5, <2>1 DEF Gains, Sleeping, f, g
  <1>15. build # "I386" => Count(ft', Counted) = Count(ft, Counted)
    <2>1. /\ build # "I386" => Count(ft', Counted) = Count(ft, Counted) + 0 - 0 + 1 - 1
          /\ Count(ft, Counted) \in Nat
      <3>1. Gains(f, g, t, Counted)
        BY <1>11
      <3> QED
        BY <1>5, <3>1 DEF Gains, Counted, f, g
    <2> QED
      BY <2>1
  <1>16. /\ ft'[t].pc = "idle" /\ ft'[h].pc = "scan"
         /\ \A u \in FThread : u # t /\ u # h => ft'[u] = ft[u]
    BY <1>3, <1>6, <1>8, <1>9 DEF g
  <1>17. FdlTypes'
    <2>1. mutex' \in [count : Int, queue : Seq(FThread)]
      BY <1>1, <1>3, <1>5
    <2> QED
      BY <1>2, <1>5, <1>9, <1>16, <2>1 DEF FdlTypes, At, g
  <1>18. SleepersQueued'
    <2>1. \A i \in 1..Len(r) : r[i] # t /\ r[i] # h /\ r[i] \in FThread /\ ft[r[i]].pc = "asleep"
      <3>1. ASSUME NEW i \in 1..Len(r) PROVE q[i + 1] # q[1]
        <4>1. i + 1 \in 1..Len(q) /\ 1 \in 1..Len(q) /\ i + 1 # 1
          BY <1>3
        <4> QED
          BY <1>4, <4>1
      <3> QED
        BY <1>1, <1>3, <1>4, <1>5, <3>1
    <2>2. \A i \in 1..Len(r) : ft'[r[i]].pc = "asleep"
      BY <1>16, <2>1
    <2>3. \A i, j \in 1..Len(r) : r[i] = r[j] => i = j
      <3>1. ASSUME NEW i \in 1..Len(r), NEW j \in 1..Len(r), r[i] = r[j] PROVE i = j
        <4>1. i + 1 \in 1..Len(q) /\ j + 1 \in 1..Len(q) /\ q[i + 1] = q[j + 1]
          BY <1>3, <3>1
        <4>2. i + 1 = j + 1
          BY <1>4, <4>1
        <4> QED
          BY <1>1, <1>3, <4>2
      <3> QED
        BY <3>1
    <2>4. Len(mutex'.queue) = Count(ft', Sleeping) /\ mutex'.count = 0 - Len(mutex'.queue)
      BY <1>1, <1>3, <1>4, <1>5, <1>14
    <2> QED
      BY <1>5, <2>2, <2>3, <2>4, ZenonT(60) DEF SleepersQueued
  <1>19. OneUnit'
    <2>1. Spare \in Int /\ Spare' = Spare
      BY <1>2, <1>5 DEF FdlTypes, Spare
    <2>2. Count(ft, Past) + Count(ft, Releasing) + mutex.count + Len(q) + Spare = 1
      BY <1>2 DEF OneUnit, q
    <2>3. Count(ft', Past) + Count(ft', Releasing) = Count(ft, Past) + Count(ft, Releasing)
      <3>1. CASE build = "I386"
        BY ONLY <1>12, <1>13, <3>1
      <3>2. CASE build # "I386"
        BY ONLY <1>12, <1>13, <3>2
      <3> QED
        BY <3>1, <3>2
    <2>4. mutex'.count + Len(mutex'.queue) = mutex.count + Len(q)
          /\ mutex'.count \in Int /\ Len(mutex'.queue) \in Int
      <3>1. mutex'.count = mutex.count + 1 /\ Len(mutex'.queue) = Len(q) - 1
        BY <1>3, <1>5
      <3>2. mutex.count \in Int /\ Len(q) \in Nat
        BY <1>1
      <3> QED
        BY ONLY <3>1, <3>2
    <2> QED
      BY ONLY <1>1, <1>12, <1>13, <2>1, <2>2, <2>3, <2>4, SMTT(60) DEF OneUnit
  <1>20. CountedRight'
    BY <1>2, <1>5, <1>15, <1>16 DEF CountedRight
  <1>21. TakesOnlyFree'
    BY <1>2, <1>5, <1>16 DEF TakesOnlyFree, At
  <1> QED
    BY <1>17, <1>18, <1>19, <1>20, <1>21 DEF FInv

LEMMA UnlockKeeps ==
    ASSUME FInv, NEW t \in FThread, SemRelease(t), mutex.queue = <<>>
    PROVE  FInv'
  <1>1. /\ ft' = [ft EXCEPT ![t] = [pc |-> "idle", fd |-> 0]]
        /\ 0 \in 0..MAX_FDS /\ "idle" \in Pc
        /\ ft[t].pc = IF build = "I386" THEN "release" ELSE "sem_release"
        /\ UNCHANGED <<build, fd_table, qcount>>
        /\ mutex' = [mutex EXCEPT !.count = mutex.count + 1]
    BY FdlAssumption DEF SemRelease, At, Pc
  <1>2. /\ ft' \in [FThread -> [pc : Pc, fd : 0..MAX_FDS]]
        /\ ft'[t] = [pc |-> "idle", fd |-> 0]
        /\ \A u \in FThread : u # t => ft'[u] = ft[u]
        /\ Moved(t, "idle")
    BY <1>1, OneMoves
  <1>3. /\ mutex.count \in Int /\ mutex.queue \in Seq(FThread)
        /\ mutex = [count |-> mutex.count, queue |-> mutex.queue]
    BY QueueType
  <1>4. /\ SleepersQueued /\ OneUnit /\ CountedRight /\ TakesOnlyFree /\ FdlTypes
    BY DEF FInv
  <1>5. /\ mutex' = [count |-> mutex.count + 1, queue |-> mutex.queue]
        /\ mutex'.queue = <<>> /\ mutex'.count = mutex.count + 1
        /\ Len(mutex.queue) = 0 /\ Len(mutex'.queue) = 0
    BY <1>1, <1>3
  <1>6. FdlTypes'
    <2>1. mutex' \in [count : Int, queue : Seq(FThread)]
      BY <1>3, <1>5
    <2> QED
      BY <1>1, <1>2, <1>4, <2>1 DEF FdlTypes, At
  <1>7. /\ Count(ft', Past) + Count(ft', Releasing) = Count(ft, Past) + Count(ft, Releasing) - 1
        /\ Count(ft', Sleeping) = Count(ft, Sleeping)
        /\ build # "I386" => Count(ft', Counted) = Count(ft, Counted)
        /\ Count(ft, Past) \in Nat /\ Count(ft, Releasing) \in Nat
        /\ Count(ft', Past) \in Nat /\ Count(ft', Releasing) \in Nat
    <2>1. CASE build = "I386"
      BY <1>1, <1>2, <2>1 DEF Moved, Past, Sleeping, Releasing, Counted
    <2>2. CASE build # "I386"
      BY <1>1, <1>2, <2>2 DEF Moved, Past, Sleeping, Releasing, Counted
    <2> QED
      BY <2>1, <2>2
  <1>8. mutex.count >= 0
    BY <1>3, <1>4, <1>5 DEF SleepersQueued
  <1>9. SleepersQueued'
    <2>1. Count(ft', Sleeping) = 0
      BY <1>4, <1>5, <1>7 DEF SleepersQueued
    <2>2. mutex'.count > 0
      BY <1>3, <1>5, <1>8
    <2> QED
      BY <1>5, <2>1, <2>2 DEF SleepersQueued
  <1>10. OneUnit'
    <2>1. Spare \in Int /\ Spare' = Spare
      BY <1>1, <1>4 DEF FdlTypes, Spare
    <2>2. Count(ft, Past) + Count(ft, Releasing) + mutex.count + 0 + Spare = 1
      BY <1>4, <1>5 DEF OneUnit
    <2> QED
      BY ONLY <1>3, <1>5, <1>7, <2>1, <2>2 DEF OneUnit
  <1>11. CountedRight' /\ TakesOnlyFree'
    BY <1>1, <1>2, <1>4, <1>7 DEF CountedRight, TakesOnlyFree, At
  <1> QED
    BY <1>6, <1>9, <1>10, <1>11 DEF FInv

\* _close takes no lock, but takes from nobody: it makes a place free.
LEMMA CloseKeeps ==
    ASSUME FInv, NEW t \in FThread, NEW d \in Fd, FdlClose(t, d)
    PROVE  FInv'
  <1>1. fd_table' = [fd_table EXCEPT ![d] = Free] /\ UNCHANGED <<build, qcount, mutex, ft>>
    BY DEF FdlClose
  <1>2. FdlTypes'
    BY <1>1 DEF FInv, FdlTypes, At
  <1>3. TakesOnlyFree'
    BY <1>1 DEF FInv, FdlTypes, TakesOnlyFree, At
  <1>4. SleepersQueued' /\ OneUnit' /\ CountedRight'
    BY <1>1 DEF FInv, SleepersQueued, OneUnit, Spare, CountedRight
  <1> QED
    BY <1>2, <1>3, <1>4 DEF FInv

LEMMA FdlStep ==
    ASSUME FInv, [FdlNext]_fdlVars
    PROVE  FInv'
  <1>1. CASE FdlNext
    <2>1. PICK t \in FThread :
            \/ FdlOpen(t) \/ AtomicSub(t) \/ SemAcquire(t) \/ Scan(t) \/ Take(t)
            \/ AtomicAdd(t) \/ SemRelease(t)
            \/ \E d \in Fd : FdlClose(t, d)
      BY <1>1 DEF FdlNext
    <2>2. CASE SemRelease(t)
      BY <2>2, WakeKeeps, UnlockKeeps
    <2> QED
      BY <2>1, <2>2, OpenKeeps, SubKeeps, AcquireKeepsFdl, ScanKeeps, TakeKeeps, AddKeeps,
         CloseKeeps
  <1>2. CASE UNCHANGED fdlVars
    BY <1>2 DEF fdlVars, FInv, FdlTypes, SleepersQueued, OneUnit, Spare, CountedRight,
                TakesOnlyFree, At
  <1> QED
    BY <1>1, <1>2

LEMMA FdlStarts ==
    ASSUME FdlInit
    PROVE  FInv
  <1>1. /\ ft = [t \in FThread |-> [pc |-> "idle", fd |-> 0]] /\ build \in Builds
        /\ fd_table = [d \in Fd |-> Free] /\ qcount = IF build = "I386" THEN 0 ELSE 1
        /\ mutex = [count |-> IF build = "I386" THEN 1 ELSE 0, queue |-> <<>>]
    BY DEF FdlInit
  <1>2. FdlTypes
    <2>1. "idle" \in Pc /\ 0 \in 0..MAX_FDS
      BY FdlAssumption DEF Pc
    <2>2. mutex \in [count : Int, queue : Seq(FThread)]
      BY <1>1
    <2> QED
      BY <1>1, <2>1, <2>2 DEF FdlTypes, At
  <1>3. ASSUME NEW P, "idle" \notin P PROVE Count(ft, P) = 0
    <2>1. In(ft, P) = {}
      BY <1>1, <1>3 DEF In
    <2> QED
      BY <2>1, FS_EmptySet DEF Count
  <1>4. /\ Count(ft, Past) = 0 /\ Count(ft, Sleeping) = 0 /\ Count(ft, Releasing) = 0
        /\ Count(ft, Counted) = 0
    BY <1>3 DEF Past, Sleeping, Releasing, Counted
  <1>5. /\ mutex.queue = <<>> /\ Len(mutex.queue) = 0
        /\ mutex.count = IF build = "I386" THEN 1 ELSE 0
    BY <1>1
  <1>6. SleepersQueued
    <2>1. mutex.count = 0 \/ mutex.count > 0
      BY <1>5
    <2>2. mutex.count = 0 => mutex.count = 0 - Len(mutex.queue)
      <3>1. ASSUME NEW n, n = 0 PROVE 0 - n = 0
        BY <3>1
      <3>2. Len(mutex.queue) = 0
        BY <1>5
      <3> QED
        BY ONLY <3>1, <3>2
    <2>3. 1..Len(mutex.queue) = {}
      BY <1>5
    <2>4. Len(mutex.queue) = Count(ft, Sleeping)
      BY <1>4, <1>5
    <2>5. /\ \A i \in 1..Len(mutex.queue) : ft[mutex.queue[i]].pc = "asleep"
          /\ \A i, j \in 1..Len(mutex.queue) : mutex.queue[i] = mutex.queue[j] => i = j
      BY ONLY <2>3
    <2>6. \/ mutex.count = 0 - Len(mutex.queue)
          \/ mutex.count > 0 /\ mutex.queue = <<>>
      BY <1>5, <2>1, <2>2
    <2> QED
      BY ONLY <2>4, <2>5, <2>6 DEF SleepersQueued
  <1>7. OneUnit
    BY <1>1, <1>4, <1>5 DEF OneUnit, Spare
  <1>8. CountedRight
    BY <1>1, <1>4 DEF CountedRight
  <1>9. TakesOnlyFree
    BY <1>1 DEF TakesOnlyFree, At
  <1> QED
    BY <1>2, <1>6, <1>7, <1>8, <1>9 DEF FInv

LEMMA LockIsKept ==
    ASSUME FInv
    PROVE  LockHolds
  <1> DEFINE N == Cardinality(FThread)
             A == Count(ft, Past)
             R == Count(ft, Releasing)
             L == Len(mutex.queue)
  <1>1. /\ SleepersQueued /\ OneUnit /\ CountedRight /\ TakesOnlyFree /\ FdlTypes
    BY DEF FInv
  <1>2. /\ A \in Nat /\ R \in Nat /\ Count(ft, Sleeping) \in Nat /\ Count(ft, Counted) \in Nat
        /\ Count(ft, Sleeping) <= N /\ Count(ft, Counted) <= N /\ N \in Nat
    BY CountType
  <1>3. mutex.count \in Int /\ L \in Nat /\ qcount \in Int /\ build \in {"I386", "other"}
    BY <1>1, QueueType, FdlAssumption DEF FdlTypes
  <1>4. L = Count(ft, Sleeping) /\ (mutex.count = 0 - L \/ (mutex.count > 0 /\ L = 0))
    <2>1. mutex.queue = <<>> => L = 0
      OBVIOUS
    <2> QED
      BY <1>1, <2>1 DEF SleepersQueued
  <1>5. A + R + mutex.count + L + Spare = 1 /\ Spare \in Nat /\ (qcount > 0 => Spare = qcount)
    BY <1>1, <1>3 DEF OneUnit, Spare
  <1>6. A = Cardinality(Inside) /\ R = Cardinality({t \in FThread : At(t, "sem_release")})
    <2>1. Inside = In(ft, Past) /\ {t \in FThread : At(t, "sem_release")} = In(ft, Releasing)
      BY DEF Inside, In, Past, Releasing, At
    <2> QED
      BY <2>1 DEF Count
  <1>7. Max({0, qcount}) = Spare
    BY <1>3 DEF Max, Spare
  <1>8. mutex.queue # <<>> => L > 0
    BY <1>3, QueueType, EmptySeq
  <1>9. L > 0 => qcount <= 0
    <2>1. Count(ft, Sleeping) # 0 => Count(ft, Counted) # 0
      <3>1. In(ft, Sleeping) \subseteq In(ft, Counted)
        BY DEF In, Sleeping, Counted
      <3> QED
        BY <3>1, CountType
    <2> QED
      BY <1>1, <1>2, <1>3, <1>4, <2>1 DEF CountedRight
  <1> HIDE DEF N, A, R, L
  <1>10. A <= 1 /\ mutex.count <= 1 /\ -N <= mutex.count
    BY <1>2, <1>3, <1>4, <1>5
  <1>11. L > 0 => A + R = 1
    BY <1>2, <1>3, <1>4, <1>5, <1>9 DEF Spare
  <1>12. UnitKept
    <2>1. mutex.queue # <<>> => A # 0 \/ R > 0
      BY <1>2, <1>8, <1>11
    <2>2. Inside = {} => A = 0
      BY <1>6, FS_EmptySet
    <2>3. mutex.queue # <<>> => Inside # {} \/ R > 0
      BY <2>1, <2>2
    <2> QED
      BY <1>5, <1>6, <1>7, <1>10, <2>3 DEF UnitKept, L
  <1>13. FdlTypeOK
    <2>1. qcount \in -N..1
      BY <1>1, <1>2, <1>3 DEF CountedRight
    <2>2. mutex.count \in -N..1
      BY <1>2, <1>3, <1>10
    <2> QED
      BY <1>1, <2>1, <2>2 DEF FdlTypes, FdlTypeOK, Pc, N
  <1> QED
    BY <1>1, <1>12, <1>13 DEF LockHolds

\* qsem_acquire and qsem_release around fd_table, in both builds of qsem.c, for any
\* number of threads and descriptors: one thread at a time takes a descriptor, only one
\* that is free, and nobody sleeps without somebody on the way who wakes him.
THEOREM LockStaysKept == FdlSpec => []LockHolds
  <1> QED
    BY FdlStarts, FdlStep, LockIsKept, PTL DEF FdlSpec

-----------------------------------------------------------------------------
(* Netboot.  What is acknowledged was stored, and EXEC comes after all of    *)
(* the acknowledgements.                                                     *)

Events == {"PRX", "PTX", "TXE", "OVW"}
CardType == [ring : Seq(InMsg), sends : OutMsg \cup {NoMsg}, isr : SUBSET Events,
             on : BOOLEAN, cut : {"no", "cut", "again"}]
SlotsType == [packet : [Slot -> OutMsg \cup {NoMsg}], send : Slot]
LoaderType ==
    [pc : {"rarp", "poll", "read", "rx", "ack", "tx", "image"}, left : 0..3,
     ip : {"default", "given"}, reset : BOOLEAN, got : SUBSET Events,
     load : 0..BOOT_LOAD + 1, rarped : BOOLEAN]

\* Each variable has its type; a round of nic_isr is left while it is in one.
NetbootTyped ==
    /\ NetbootTypeOK
    /\ tool \in [pc : {"send", "select", "exec", "done"}, blk : Blk]
    /\ card \in CardType
    /\ loader \in LoaderType
    /\ loader.pc \in {"read", "rx", "ack", "tx"} => loader.load >= 1
    /\ shed \in BOOLEAN

\* EXEC is on its way only when every block is in memory, where they stay.
ExecIsTrue ==
    ExecMsg \in lanIn \/ (\E i \in 1..Len(card.ring) : card.ring[i] = ExecMsg) => mem = Blk

\* The inductive invariant of Netboot.
NInv == NetbootTyped /\ AcksAreTrue /\ ExecIsTrue /\ WholeImage /\ SlotComesFree

-----------------------------------------------------------------------------
\* Messages are told apart by their command, and blocks by their number.
LEMMA Messages ==
    /\ \A b, c \in Blk : AckMsg(b) = AckMsg(c) => b = c
    /\ \A b \in Blk : /\ AckMsg(b) # NoMsg /\ AckMsg(b) # ArpMsg
                      /\ LoadMsg(b) # ExecMsg
                      /\ AckMsg(b).cmd = "ACK"
    /\ ArpMsg # NoMsg
    /\ ArpMsg # ExecMsg /\ RarpMsg # ExecMsg
    /\ NoMsg.cmd # "ACK" /\ ArpMsg.cmd # "ACK"
  <1>1. ASSUME NEW b \in Blk, NEW c \in Blk, AckMsg(b) = AckMsg(c)
        PROVE  b = c
    <2>1. AckMsg(b).blk = b /\ AckMsg(c).blk = c
      BY DEF AckMsg
    <2> QED
      BY <1>1, <2>1
  <1>2. ASSUME NEW b \in Blk
        PROVE  AckMsg(b).cmd = "ACK" /\ LoadMsg(b).cmd = "LOAD"
    BY DEF AckMsg, LoadMsg
  <1>3. NoMsg.cmd = "none" /\ ArpMsg.cmd = "arp" /\ RarpMsg.cmd = "rarp" /\ ExecMsg.cmd = "EXEC"
    BY DEF NoMsg, ArpMsg, RarpMsg, ExecMsg
  <1> QED
    BY <1>1, <1>2, <1>3

\* The least of some slots is one of them.
LEMMA LeastSlot ==
    ASSUME NEW S, S \subseteq Slot, S # {}
    PROVE  Min(S) \in S
  <1>1. \E x \in S : \A y \in S : x <= y
    <2>1. CASE 0 \in S
      BY <2>1 DEF Slot
    <2>2. CASE 0 \notin S
      <3>1. PICK x \in S : TRUE
        OBVIOUS
      <3>2. \A y \in S : y = 1
        BY <2>2 DEF Slot
      <3>3. x = 1
        BY <3>2
      <3> QED
        BY <3>1, <3>2, <3>3
    <2> QED
      BY <2>1, <2>2
  <1> QED
    BY <1>1 DEF Min

LEMMA NetbootStarts ==
    ASSUME NetbootInit
    PROVE  NInv
  <1>1. 0 \in Blk
    BY NetbootAssumption DEF Blk
  <1>2. NetbootTyped
    <2>1. /\ card \in CardType /\ Len(card.ring) = 0 /\ card.sends = NoMsg /\ card.isr = {}
          /\ slots \in SlotsType
      BY DEF NetbootInit, NoCard, NoSlots, CardType, SlotsType, Slot
    <2>2. loader \in LoaderType /\ loader.pc = "rarp"
      BY NetbootAssumption DEF NetbootInit, LoaderType
    <2>3. tool \in [pc : {"send", "select", "exec", "done"}, blk : Blk]
      BY <1>1 DEF NetbootInit
    <2>4. lanIn \subseteq InMsg /\ lanOut \subseteq {AckMsg(b) : b \in Blk} /\ mem \subseteq Blk
      BY DEF NetbootInit, InMsg
    <2>5. RingRoom >= 0 /\ loader.load \in 0..BOOT_LOAD + 1 /\ shed \in BOOLEAN
      <3>1. loader.load = 0 /\ shed = FALSE
        BY DEF NetbootInit
      <3>2. 0 \in 0..BOOT_LOAD + 1 /\ RingRoom >= 0
        BY NetbootAssumption
      <3>3. shed \in BOOLEAN
        BY <3>1
      <3> QED
        BY <3>1, <3>2, <3>3
    <2>6. NetbootTypeOK
      BY <2>1, <2>4, <2>5 DEF NetbootTypeOK, SlotsType
    <2> QED
      BY <2>1, <2>2, <2>3, <2>5, <2>6 DEF NetbootTyped
  <1>3. AcksAreTrue
    <2>1. \A b \in Blk : ~(b < 0)
      BY NetbootAssumption DEF Blk
    <2> QED
      BY <2>1, Messages DEF NetbootInit, AcksAreTrue, NoCard, NoSlots, Slot
  <1>4. ExecIsTrue
    BY Messages DEF NetbootInit, ExecIsTrue, NoCard
  <1>5. WholeImage /\ SlotComesFree
    BY DEF NetbootInit, WholeImage, SlotComesFree, NoSlots, Slot
  <1> QED
    BY <1>2, <1>3, <1>4, <1>5 DEF NInv


\* What says that a block was stored.
Told == lanOut \cup {card.sends, slots.packet[0], slots.packet[1]}

\* While the tool stays where it is, no new acknowledgement but of a stored block.
LEMMA AcksStay ==
    ASSUME AcksAreTrue, tool' = tool, mem \subseteq mem',
           \A b \in Blk : AckMsg(b) \in Told' => AckMsg(b) \in Told \/ b \in mem'
    PROVE  AcksAreTrue'
  BY DEF AcksAreTrue, Told

\* nic_send_packet: the card sends what it sent or the new packet, no slot gets
\* another packet, and if no slot is left free then the card is sending.
LEMMA SendPacket ==
    ASSUME NetbootTyped, SlotComesFree, NEW c, NEW m \in OutMsg,
           c \in CardType,
           c.sends = card.sends, c.isr = card.isr, shed' = shed,
           NicSendPacket(c, m)
    PROVE  /\ card' \in CardType
           /\ card'.ring = c.ring
           /\ slots' \in SlotsType
           /\ card'.sends \in {card.sends, m}
           /\ \A f \in Slot : slots'.packet[f] \in {slots.packet[f], m}
           /\ SlotComesFree'
  <1> DEFINE free == {f \in Slot : slots.packet[f] = NoMsg}
  <1>1. slots \in SlotsType
    BY DEF NetbootTyped, NetbootTypeOK, SlotsType
  <1>2. CASE free = {}
    <2>1. card' = c /\ slots' = slots
      BY <1>2 DEF NicSendPacket
    <2> QED
      BY <1>1, <2>1 DEF SlotComesFree
  <1>3. CASE free # {} /\ c.sends # NoMsg /\ c.cut # "cut"
    <2>1. card' = c /\ slots' = [slots EXCEPT !.send = Min(free)]
      BY <1>3 DEF NicSendPacket
    <2>2. Min(free) \in Slot
      BY <1>3, LeastSlot
    <2> HIDE DEF free
    <2>3. slots'.packet = slots.packet
          /\ slots' \in SlotsType
      BY <1>1, <2>1, <2>2 DEF SlotsType
    <2> QED
      BY <1>3, <2>1, <2>3 DEF SlotComesFree
  <1>4. CASE free # {} /\ ~(c.sends # NoMsg /\ c.cut # "cut")
    <2>1. /\ card' = [c EXCEPT !.sends = m, !.cut = IF @ = "no" THEN "no" ELSE "again"]
          /\ slots' = [packet |-> [slots.packet EXCEPT ![Min(free)] = m], send |-> Min(free)]
      BY <1>4 DEF NicSendPacket
    <2>2. Min(free) \in Slot
      BY <1>4, LeastSlot
    <2> HIDE DEF free
    <2>3. /\ card'.sends = m /\ card'.ring = c.ring /\ m # NoMsg
          /\ card' \in CardType
      BY <2>1, Messages DEF OutMsg, CardType
    <2>4. /\ slots' \in SlotsType
          /\ \A f \in Slot : slots'.packet[f] \in {slots.packet[f], m}
      BY <1>1, <2>1, <2>2 DEF SlotsType
    <2> QED
      BY <2>3, <2>4 DEF SlotComesFree
  <1> QED
    BY <1>2, <1>3, <1>4

-----------------------------------------------------------------------------
\* The tool goes past a block when it reads that block's acknowledgement only.
LEMMA ToolKeeps ==
    ASSUME NInv,
           \/ ToolSend \/ ToolTimeout \/ ToolExec \/ ToolAgain
           \/ \E m \in OutMsg : ToolRecv(m)
    PROVE  NInv'
  <1>1. /\ MaxBlk \in Nat /\ tool.blk \in Blk /\ tool.pc \in {"send", "select", "exec", "done"}
        /\ tool = [pc |-> tool.pc, blk |-> tool.blk] /\ Blk = 0..MaxBlk
    BY NetbootAssumption DEF NInv, NetbootTyped, Blk
  <1>2. UNCHANGED <<lanOut, card, slots, loader, mem, shed>>
    BY DEF ToolSend, ToolTimeout, ToolExec, ToolAgain, ToolRecv
  <1>3. /\ tool' \in [pc : {"send", "select", "exec", "done"}, blk : Blk]
        /\ lanIn' \subseteq lanIn \cup {LoadMsg(b) : b \in Blk} \cup {ExecMsg}
        /\ ExecMsg \in lanIn' => ExecMsg \in lanIn \/ tool.pc = "exec"
        /\ \A b \in Blk : b < tool'.blk \/ tool'.pc \in {"exec", "done"} =>
               b < tool.blk \/ tool.pc \in {"exec", "done"} \/ AckMsg(b) \in lanOut
    <2>1. CASE ToolSend
      <3>1. ExecMsg # LoadMsg(tool.blk)
        BY <1>1, Messages
      <3> QED
        BY <1>1, <2>1, <3>1 DEF ToolSend
    <2>2. CASE ToolTimeout
      BY <1>1, <2>2 DEF ToolTimeout
    <2>3. CASE ToolExec
      BY <1>1, <2>3 DEF ToolExec
    <2>4. CASE ToolAgain
      <3>1. tool' = [pc |-> "send", blk |-> 0] /\ lanIn' = lanIn
        BY <2>4 DEF ToolAgain
      <3>2. 0 \in Blk /\ \A b \in Blk : ~(b < 0)
        BY <1>1
      <3> QED
        BY <3>1, <3>2
    <2>5. ASSUME NEW m \in OutMsg, ToolRecv(m)
          PROVE  <1>3!:
      <3>1. tool.pc = "select" /\ m \in lanOut /\ lanIn' = lanIn
        BY <2>5 DEF ToolRecv
      <3>2. CASE m # AckMsg(tool.blk)
        <4>1. tool' = [tool EXCEPT !.pc = "send"]
          BY <2>5, <3>2 DEF ToolRecv
        <4> QED
          BY <1>1, <3>1, <4>1
      <3>3. CASE m = AckMsg(tool.blk) /\ tool.blk < MaxBlk
        <4>1. tool' = [tool EXCEPT !.pc = "send", !.blk = @ + 1]
          BY <2>5, <3>3 DEF ToolRecv
        <4>2. tool.blk + 1 \in Blk /\ tool' = [pc |-> "send", blk |-> tool.blk + 1]
          <5>1. tool.blk + 1 \in Blk
            BY <1>1, <3>3
          <5>2. tool' = [pc |-> "send", blk |-> tool.blk + 1]
            BY <1>1, <4>1
          <5> QED
            BY <5>1, <5>2
        <4>3. \A b \in Blk : b < tool.blk + 1 => b < tool.blk \/ b = tool.blk
          BY <1>1
        <4> QED
          BY <3>1, <3>3, <4>2, <4>3
      <3>4. CASE m = AckMsg(tool.blk) /\ ~(tool.blk < MaxBlk)
        <4>1. tool' = [tool EXCEPT !.pc = "exec"]
          BY <2>5, <3>4 DEF ToolRecv
        <4>2. \A b \in Blk : b < tool.blk \/ b = tool.blk
          BY <1>1, <3>4
        <4> QED
          BY <1>1, <3>1, <3>4, <4>1, <4>2
      <3> QED
        BY <3>2, <3>3, <3>4
    <2> QED
      BY <2>1, <2>2, <2>3, <2>4, <2>5
  <1>4. NetbootTyped'
    BY <1>2, <1>3 DEF NInv, NetbootTyped, NetbootTypeOK, InMsg
  <1>5. AcksAreTrue'
    BY <1>2, <1>3 DEF NInv, AcksAreTrue
  <1>6. ExecIsTrue'
    <2>1. mem \subseteq Blk
      BY DEF NInv, NetbootTyped, NetbootTypeOK
    <2>2. tool.pc = "exec" => mem = Blk
      BY <2>1 DEF NInv, AcksAreTrue
    <2> QED
      BY <1>2, <1>3, <2>2 DEF NInv, ExecIsTrue
  <1>7. WholeImage' /\ SlotComesFree'
    BY <1>2 DEF NInv, WholeImage, SlotComesFree
  <1> QED
    BY <1>4, <1>5, <1>6, <1>7 DEF NInv

-----------------------------------------------------------------------------
\* What a step of card or loader keeps whatever else it does, from what it says of
\* acknowledgements and of frames in the ring.
LEMMA LoaderStep ==
    ASSUME NInv, tool' = tool, mem \subseteq mem', mem' \subseteq Blk,
           lanIn' \subseteq InMsg, ExecMsg \in lanIn' => ExecMsg \in lanIn,
           lanOut' \subseteq {AckMsg(b) : b \in Blk},
           card' \in CardType, slots' \in SlotsType, loader' \in LoaderType, shed' \in BOOLEAN,
           Len(card'.ring) <= RingRoom,
           loader'.pc \in {"read", "rx", "ack", "tx"} => loader'.load >= 1,
           \A i \in 1..Len(card'.ring) :
               card'.ring[i] = ExecMsg =>
                   ExecMsg \in lanIn \/ \E j \in 1..Len(card.ring) : card.ring[j] = ExecMsg,
           \A b \in Blk : AckMsg(b) \in Told' => AckMsg(b) \in Told \/ b \in mem',
           loader'.pc = "image" => mem' = Blk,
           SlotComesFree'
    PROVE  NInv'
  <1>1. NetbootTyped'
    BY DEF NInv, NetbootTyped, NetbootTypeOK, CardType, SlotsType, LoaderType, Events
  <1>2. AcksAreTrue'
    BY AcksStay DEF NInv
  <1>3. ExecIsTrue'
    BY DEF NInv, ExecIsTrue
  <1> QED
    BY <1>1, <1>2, <1>3 DEF NInv, WholeImage

\* What the invariant says of the loader's side.
LEMMA LoaderKnown ==
    ASSUME NInv
    PROVE  /\ card \in CardType /\ slots \in SlotsType /\ loader \in LoaderType
           /\ shed \in BOOLEAN /\ Len(card.ring) <= RingRoom /\ Len(card.ring) \in Nat
           /\ RingRoom \in Nat /\ BOOT_LOAD \in Nat
           /\ mem \subseteq Blk /\ lanIn \subseteq InMsg
           /\ lanOut \subseteq {AckMsg(b) : b \in Blk}
           /\ loader.pc \in {"read", "rx", "ack", "tx"} => loader.load >= 1
           /\ loader.pc = "image" => mem = Blk
           /\ SlotComesFree
  BY NetbootAssumption
     DEF NInv, NetbootTyped, NetbootTypeOK, CardType, SlotsType, LoaderType, Events, WholeImage

LEMMA CardKeeps ==
    ASSUME NInv,
           \/ \E m \in InMsg : CardTakes(m)
           \/ \E event \in {"PTX", "TXE"} : CardEnds(event)
    PROVE  NInv'
  <1>1. ASSUME NEW m \in InMsg, CardTakes(m)
        PROVE  NInv'
    <2>1. m \in lanIn /\ UNCHANGED <<tool, lanIn, lanOut, slots, loader, mem, shed>>
      BY <1>1 DEF CardTakes
    <2>2. /\ card' \in CardType /\ Len(card'.ring) <= RingRoom
          /\ card'.sends = card.sends /\ card.isr \subseteq card'.isr
          /\ \A i \in 1..Len(card'.ring) :
                (i \in 1..Len(card.ring) /\ card'.ring[i] = card.ring[i]) \/ card'.ring[i] = m
      <3>1. CASE Len(card.ring) < RingRoom
        <4>1. card' = [card EXCEPT !.ring = Append(@, m), !.isr = @ \cup {"PRX"}]
          BY <1>1, <3>1 DEF CardTakes
        <4>2. Append(card.ring, m) \in Seq(InMsg) /\ card.isr \cup {"PRX"} \in SUBSET Events
          BY LoaderKnown DEF CardType, Events
        <4>3. /\ card' \in CardType /\ card'.ring = Append(card.ring, m)
              /\ card'.sends = card.sends /\ card'.isr = card.isr \cup {"PRX"}
          BY <4>1, <4>2, LoaderKnown DEF CardType
        <4>4. /\ Len(card'.ring) = Len(card.ring) + 1
              /\ \A i \in 1..Len(card'.ring) :
                    (i \in 1..Len(card.ring) /\ card'.ring[i] = card.ring[i]) \/ card'.ring[i] = m
          BY <4>3, LoaderKnown DEF CardType
        <4>5. Len(card'.ring) <= RingRoom
          BY <3>1, <4>4, LoaderKnown
        <4> QED
          BY <4>3, <4>4, <4>5
      <3>2. CASE ~(Len(card.ring) < RingRoom)
        <4>1. card' = [card EXCEPT !.isr = @ \cup {"OVW"}, !.on = FALSE]
          BY <1>1, <3>2 DEF CardTakes
        <4>2. card.isr \cup {"OVW"} \in SUBSET Events
          BY LoaderKnown DEF CardType, Events
        <4>3. /\ card' \in CardType /\ card'.ring = card.ring
              /\ card'.sends = card.sends /\ card'.isr = card.isr \cup {"OVW"}
          BY <4>1, <4>2, LoaderKnown DEF CardType
        <4> QED
          BY <4>3, LoaderKnown
      <3> QED
        BY <3>1, <3>2
    <2>3. Told' = Told /\ SlotComesFree'
      BY <2>1, <2>2, LoaderKnown DEF Told, SlotComesFree
    <2> QED
      BY <2>1, <2>2, <2>3, LoaderKnown, LoaderStep
  <1>2. ASSUME NEW event \in {"PTX", "TXE"}, CardEnds(event)
        PROVE  NInv'
    <2>1. /\ card' = [card EXCEPT !.isr = @ \cup {event},
                         !.sends = IF card.cut = "no" THEN NoMsg ELSE @,
                         !.cut = IF @ = "no" THEN "no" ELSE "cut"]
          /\ lanOut' = lanOut \/ (card.sends.cmd = "ACK" /\ lanOut' = lanOut \cup {card.sends})
          /\ UNCHANGED <<tool, lanIn, slots, loader, mem, shed>>
      BY <1>2 DEF CardEnds
    <2>2. /\ card' \in CardType /\ card'.ring = card.ring
          /\ card'.sends \in {card.sends, NoMsg} /\ card'.isr = card.isr \cup {event}
      BY <2>1, LoaderKnown DEF CardType, Events
    <2>3. /\ lanOut' \subseteq {AckMsg(b) : b \in Blk}
          /\ \A b \in Blk : AckMsg(b) \in Told' => AckMsg(b) \in Told
      <3>1. card.sends.cmd = "ACK" => card.sends \in {AckMsg(b) : b \in Blk}
        BY Messages, LoaderKnown DEF CardType, OutMsg
      <3> QED
        BY <2>1, <2>2, <3>1, LoaderKnown, Messages DEF Told
    <2>4. lanIn' \subseteq InMsg /\ (ExecMsg \in lanIn' => ExecMsg \in lanIn)
      BY <2>1, LoaderKnown, Messages DEF InMsg
    <2>5. SlotComesFree'
      BY <2>1, <2>2 DEF SlotComesFree
    <2> QED
      BY <2>1, <2>2, <2>3, <2>4, <2>5, LoaderKnown, LoaderStep
  <1> QED
    BY <1>1, <1>2

-----------------------------------------------------------------------------
\* The parts of a frame's way through the card where no packet is sent.
LEMMA QuietKeeps ==
    ASSUME NInv,
           Poll \/ UseConsole \/ IsrRound \/ RingRead \/ RingAck
    PROVE  NInv'
  <1>0. /\ loader \in LoaderType /\ BOOT_LOAD \in Nat /\ card.isr \in SUBSET Events
        /\ 0 \in 0..BOOT_LOAD + 1 /\ BOOT_LOAD + 1 \in 0..BOOT_LOAD + 1 /\ BOOT_LOAD + 1 >= 1
        /\ 3 \in 0..3 /\ loader.ip \in {"default", "given"} /\ loader.load \in 0..BOOT_LOAD + 1
    BY LoaderKnown DEF CardType, LoaderType
  <1>1. /\ UNCHANGED <<tool, lanIn, lanOut, mem>>
        /\ loader' \in LoaderType /\ loader'.pc # "image"
        /\ loader'.pc \in {"read", "rx", "ack", "tx"} => loader'.load >= 1
        /\ \/ /\ UNCHANGED <<slots, shed>> /\ card' \in CardType
              /\ card'.ring = card.ring
              /\ \/ card'.sends = card.sends
                 \/ card'.sends = NoMsg /\ card.isr \cap {"PTX", "TXE"} # {}
              /\ card.isr \cap {"PTX", "TXE"} \subseteq card'.isr
           \/ /\ UNCHANGED slots /\ shed' \in BOOLEAN /\ card' \in CardType
              /\ card'.ring = card.ring /\ card'.sends = card.sends
              /\ shed' \/ (UNCHANGED shed /\ card.isr = {} /\ card'.isr = {})
           \/ /\ card' = NoCard /\ UNCHANGED shed
              /\ slots' = [NoSlots EXCEPT !.send = slots.send]
    <2>1. CASE Poll
      <3>1. CASE loader.reset
        <4>1. /\ loader' = [loader EXCEPT !.pc = "rarp", !.left = 3, !.reset = FALSE, !.ip = loader.ip]
              /\ card' = NoCard /\ slots' = [NoSlots EXCEPT !.send = slots.send]
              /\ UNCHANGED <<tool, lanIn, lanOut, mem, shed>>
          BY <2>1, <3>1 DEF Poll, Restart
        <4>2. loader' \in LoaderType /\ loader'.pc = "rarp"
          BY <4>1, <1>0 DEF LoaderType
        <4> QED
          BY <4>1, <4>2
      <3>2. CASE ~loader.reset
        <4>1. /\ loader' = [loader EXCEPT !.pc = "read", !.load = BOOT_LOAD + 1]
              /\ UNCHANGED <<tool, lanIn, lanOut, card, slots, mem, shed>>
          BY <2>1, <3>2 DEF Poll
        <4>2. loader' \in LoaderType /\ loader'.pc = "read" /\ loader'.load >= 1
          BY <4>1, <1>0 DEF LoaderType
        <4> QED
          BY <4>1, <4>2, LoaderKnown
      <3> QED
        BY <3>1, <3>2
    <2>2. CASE UseConsole
      <3>1. PICK ip \in {loader.ip, "given"} : Restart(ip)
        BY <2>2 DEF UseConsole
      <3>2. loader' \in LoaderType /\ loader'.pc = "rarp"
        BY <3>1, <1>0 DEF Restart, LoaderType
      <3> QED
        BY <2>2, <3>1, <3>2 DEF UseConsole, Restart
    <2>3. CASE IsrRound
      <3>1. CASE card.isr = {} \/ loader.load = 1
        <4>1. /\ loader' = [loader EXCEPT !.pc = "poll", !.load = 0]
              /\ card' = [card EXCEPT !.isr = {}] /\ shed' = (shed \/ card.isr # {})
              /\ UNCHANGED <<tool, lanIn, lanOut, slots, mem>>
          BY <2>3, <3>1 DEF IsrRound
        <4>2. loader' \in LoaderType /\ loader'.pc = "poll"
          BY <4>1, <1>0 DEF LoaderType
        <4>3. card' \in CardType /\ card'.ring = card.ring /\ card'.sends = card.sends /\ card'.isr = {}
          BY <4>1, LoaderKnown DEF CardType
        <4>4. /\ shed' \in BOOLEAN
              /\ shed' \/ (UNCHANGED shed /\ card.isr = {})
          BY <4>1, LoaderKnown
        <4> QED
          BY <4>1, <4>2, <4>3, <4>4
      <3>2. CASE ~(card.isr = {} \/ loader.load = 1)
        <4>1. /\ loader' = [loader EXCEPT !.load = @ - 1, !.got = card.isr \ {"PRX"},
                    !.pc = IF card.isr \cap {"PRX", "OVW"} # {} THEN "rx" ELSE "tx"]
              /\ loader.pc = "read" /\ card' \in {card, NicOverrun}
              /\ UNCHANGED <<tool, lanIn, lanOut, slots, mem, shed>>
          BY <2>3, <3>2 DEF IsrRound
        <4>2. loader.load - 1 \in 0..BOOT_LOAD + 1 /\ loader.load - 1 >= 1
          <5>1. loader.load >= 1 /\ loader.load # 1
            BY <3>2, <4>1, LoaderKnown
          <5> QED
            BY <5>1, <1>0
        <4>3. /\ loader' \in LoaderType /\ loader'.pc # "image"
              /\ loader'.load = loader.load - 1 /\ loader'.load >= 1
          BY <4>1, <4>2, <1>0 DEF LoaderType
        <4>4. /\ NicOverrun \in CardType /\ NicOverrun.ring = card.ring /\ NicOverrun.isr = card.isr
              /\ \/ NicOverrun.sends = card.sends
                 \/ NicOverrun.sends = NoMsg /\ card.isr \cap {"PTX", "TXE"} # {}
          BY LoaderKnown DEF NicOverrun, CardType
        <4> HIDE DEF NicOverrun
        <4> QED
          BY <4>1, <4>3, <4>4, LoaderKnown
      <3> QED
        BY <3>1, <3>2
    <2>4. CASE RingRead
      <3>1. loader' \in LoaderType /\ loader'.pc = "ack" /\ loader'.load = loader.load
        BY <2>4, LoaderKnown DEF RingRead, LoaderGoes, LoaderType
      <3> QED
        BY <2>4, <3>1, LoaderKnown DEF RingRead
    <2>5. CASE RingAck
      <3>1. loader' \in LoaderType /\ loader'.pc = "tx" /\ loader'.load = loader.load
        BY <2>5, LoaderKnown DEF RingAck, LoaderGoes, LoaderType
      <3>2. /\ card' \in CardType /\ card'.ring = card.ring /\ card'.sends = card.sends
            /\ card'.isr = card.isr \ ({"PRX"} \cup (loader.got \cap {"OVW"}))
        BY <2>5, LoaderKnown DEF RingAck, CardType
      <3> QED
        BY <2>5, <3>1, <3>2, LoaderKnown DEF RingAck
    <2> QED
      BY <2>1, <2>2, <2>3, <2>4, <2>5
  <1>2. /\ card' \in CardType /\ slots' \in SlotsType /\ shed' \in BOOLEAN
        /\ card'.ring = card.ring \/ card'.ring = <<>>
        /\ SlotComesFree' /\ \A b \in Blk : AckMsg(b) \in Told' => AckMsg(b) \in Told
    <2>1. CASE card' = NoCard /\ UNCHANGED shed /\ slots' = [NoSlots EXCEPT !.send = slots.send]
      <3>1. card' \in CardType /\ card'.ring = <<>> /\ card'.sends = NoMsg
        BY <2>1 DEF NoCard, CardType, Events
      <3>2. slots' \in SlotsType /\ \A f \in Slot : slots'.packet[f] = NoMsg
        BY <2>1, LoaderKnown DEF NoSlots, SlotsType
      <3>3. SlotComesFree'
        BY <3>2 DEF SlotComesFree, Slot
      <3> QED
        BY <1>1, <2>1, <3>1, <3>2, <3>3, LoaderKnown, Messages DEF Told, Slot
    <2>2. CASE UNCHANGED slots /\ card' \in CardType
               /\ card'.ring = card.ring
               /\ \/ card'.sends = card.sends
                  \/ card'.sends = NoMsg /\ card.isr \cap {"PTX", "TXE"} # {}
               /\ \/ UNCHANGED shed /\ card.isr \cap {"PTX", "TXE"} \subseteq card'.isr
                  \/ shed' = TRUE
      <3>1. shed' \in BOOLEAN /\ slots' \in SlotsType
        BY <2>2, LoaderKnown
      <3>2. SlotComesFree'
        BY <2>2, LoaderKnown DEF SlotComesFree
      <3>3. ASSUME NEW b \in Blk, AckMsg(b) \in Told'
            PROVE  AckMsg(b) \in Told
        BY <1>1, <2>2, <3>3, Messages DEF Told
      <3> QED
        BY <2>2, <3>1, <3>2, <3>3
    <2> QED
      BY <1>1, <2>1, <2>2
  <1>3. Len(card'.ring) <= RingRoom
    BY <1>2, LoaderKnown
  <1> QED
    BY <1>1, <1>2, <1>3, LoaderKnown, LoaderStep

-----------------------------------------------------------------------------
\* RingNext: one frame less, and no new one.
LEMMA NextFrame ==
    ASSUME NInv, card.ring # <<>>
    PROVE  /\ RingNext(card) \in CardType
           /\ RingNext(card).sends = card.sends /\ RingNext(card).isr = card.isr
           /\ RingNext(card).ring = Tail(card.ring)
           /\ Len(Tail(card.ring)) <= RingRoom
           /\ \A i \in 1..Len(Tail(card.ring)) :
                 i + 1 \in 1..Len(card.ring) /\ Tail(card.ring)[i] = card.ring[i + 1]
  <1>1. card \in CardType /\ card.ring \in Seq(InMsg)
        /\ RingRoom \in Nat /\ Len(card.ring) \in Nat /\ Len(card.ring) <= RingRoom
    BY LoaderKnown DEF CardType
  <1>2. /\ Tail(card.ring) \in Seq(InMsg) /\ Len(Tail(card.ring)) = Len(card.ring) - 1
        /\ \A i \in 1..Len(Tail(card.ring)) :
              i + 1 \in 1..Len(card.ring) /\ Tail(card.ring)[i] = card.ring[i + 1]
    BY <1>1
  <1>3. Len(Tail(card.ring)) <= RingRoom
    BY <1>1, <1>2
  <1> QED
    BY <1>1, <1>2, <1>3 DEF RingNext, CardType

\* A packet is sent, from a card that has its frames or one less: what it says of
\* a block must be true.
LEMMA SendKeeps ==
    ASSUME NInv, NEW c \in {card, RingNext(card)}, NEW m \in OutMsg,
           c # card => card.ring # <<>>,
           NicSendPacket(c, m), \A b \in Blk : m = AckMsg(b) => b \in mem',
           mem \subseteq mem', mem' \subseteq Blk,
           UNCHANGED <<tool, lanIn, lanOut, shed>>,
           loader' \in LoaderType, loader'.pc # "image",
           loader'.pc \in {"read", "rx", "ack", "tx"} => loader'.load >= 1
    PROVE  NInv'
  <1>1. /\ c \in CardType /\ c.sends = card.sends /\ c.isr = card.isr
        /\ Len(c.ring) <= RingRoom
        /\ \A i \in 1..Len(c.ring) :
              \E j \in 1..Len(card.ring) : c.ring[i] = card.ring[j]
    <2>1. CASE c = card
      BY <2>1, LoaderKnown
    <2>2. CASE c # card
      BY <2>2, NextFrame
    <2> QED
      BY <2>1, <2>2
  <1>2. /\ card' \in CardType /\ card'.ring = c.ring /\ slots' \in SlotsType
        /\ card'.sends \in {card.sends, m}
        /\ \A f \in Slot : slots'.packet[f] \in {slots.packet[f], m}
        /\ SlotComesFree'
    BY <1>1, SendPacket DEF NInv
  <1>3. ASSUME NEW b \in Blk, AckMsg(b) \in Told'
        PROVE  AckMsg(b) \in Told \/ b \in mem'
    BY <1>2, <1>3 DEF Told, Slot
  <1> QED
    BY <1>1, <1>2, <1>3, LoaderKnown, LoaderStep

LEMMA ReceiveKeeps ==
    ASSUME NInv,
           Rarps \/ (\E b \in Blk : ReceiveLoad(b)) \/ ReceiveExec \/ ReceiveRarp \/ ReceiveArp
    PROVE  NInv'
  <1>0. /\ loader \in LoaderType /\ loader.left \in 0..3 /\ 0 \in 0..3
        /\ loader.pc \in {"read", "rx", "ack", "tx"} => loader.load >= 1
    BY LoaderKnown DEF LoaderType
  <1>1. CASE Rarps
    <2>1. CASE loader.rarped \/ loader.left = 0
      <3>1. /\ loader' = [loader EXCEPT !.pc = "poll", !.left = 0]
            /\ UNCHANGED <<tool, lanIn, lanOut, card, slots, mem, shed>>
        BY <1>1, <2>1 DEF Rarps
      <3>2. loader' \in LoaderType /\ loader'.pc = "poll"
        BY <1>0, <3>1 DEF LoaderType
      <3>3. Told' = Told /\ SlotComesFree'
        BY <3>1, LoaderKnown DEF Told, SlotComesFree
      <3> QED
        BY <3>1, <3>2, <3>3, LoaderKnown, LoaderStep
    <2>2. CASE ~(loader.rarped \/ loader.left = 0)
      <3>1. /\ NicSendPacket(card, ArpMsg) /\ loader' = [loader EXCEPT !.left = @ - 1]
            /\ loader.pc = "rarp" /\ UNCHANGED <<tool, lanIn, lanOut, mem, shed>>
        BY <1>1, <2>2 DEF Rarps
      <3>2. loader.left - 1 \in 0..3
        BY <1>0, <2>2
      <3>3. loader' \in LoaderType /\ loader'.pc = "rarp"
        BY <1>0, <3>1, <3>2 DEF LoaderType
      <3>4. ArpMsg \in OutMsg /\ \A b \in Blk : ArpMsg # AckMsg(b)
        BY Messages DEF OutMsg
      <3> QED
        BY <3>1, <3>3, <3>4, LoaderKnown, SendKeeps
    <2> QED
      BY <2>1, <2>2
  <1>2. ASSUME NEW m, Receiving(m)
        PROVE  /\ card.ring # <<>> /\ Len(card.ring) >= 1 /\ card.ring[1] = m
               /\ loader.pc = "rx"
    <2>1. Len(card.ring) # 0 /\ Head(card.ring) = card.ring[1]
      BY <1>2, LoaderKnown DEF Receiving, CardType
    <2> QED
      BY <1>2, <2>1, LoaderKnown DEF Receiving
  <1>3. ASSUME UNCHANGED <<tool, lanIn, lanOut, slots, mem, shed>>, card.ring # <<>>,
               card' = RingNext(card), loader' \in LoaderType,
               loader'.pc = "image" => mem = Blk,
               loader'.pc \in {"read", "rx", "ack", "tx"} => loader'.load >= 1
        PROVE  NInv'
    <2>1. Told' = Told /\ SlotComesFree'
      BY <1>3, NextFrame, LoaderKnown DEF Told, SlotComesFree
    <2> QED
      BY <1>3, <2>1, NextFrame, LoaderKnown, LoaderStep
  <1>4. ASSUME NEW b \in Blk, ReceiveLoad(b)
        PROVE  NInv'
    <2>1. /\ card.ring # <<>> /\ loader.pc = "rx" /\ UNCHANGED loader
          /\ UNCHANGED <<tool, lanIn, lanOut, shed>>
      BY <1>2, <1>4 DEF ReceiveLoad
    <2>2. CASE loader.ip = "given"
      <3>1. NicSendPacket(RingNext(card), AckMsg(b)) /\ mem' = mem \cup {b}
        BY <1>4, <2>2 DEF ReceiveLoad, Answer
      <3>2. AckMsg(b) \in OutMsg /\ \A d \in Blk : AckMsg(b) = AckMsg(d) => d \in mem'
        BY <3>1, Messages DEF OutMsg
      <3> QED
        BY <1>0, <2>1, <3>1, <3>2, LoaderKnown, SendKeeps
    <2>3. CASE loader.ip # "given"
      <3>1. card' = RingNext(card) /\ UNCHANGED <<slots, mem>>
        BY <1>4, <2>3 DEF ReceiveLoad
      <3> QED
        BY <1>0, <1>3, <2>1, <3>1
    <2> QED
      BY <2>2, <2>3
  <1>5. CASE ReceiveExec
    <2>1. /\ card.ring # <<>> /\ loader.pc = "rx" /\ Len(card.ring) >= 1 /\ card.ring[1] = ExecMsg
          /\ card' = RingNext(card) /\ UNCHANGED <<tool, lanIn, lanOut, slots, mem, shed>>
          /\ loader' = loader \/ loader' = [loader EXCEPT !.pc = "image"]
      BY <1>2, <1>5 DEF ReceiveExec, LoaderGoes
    <2>2. mem = Blk
      <3>1. 1 \in 1..Len(card.ring)
        BY <2>1, LoaderKnown
      <3> QED
        BY <2>1, <3>1 DEF NInv, ExecIsTrue
    <2>3. loader' \in LoaderType /\ (loader' = loader \/ loader'.pc = "image")
      BY <1>0, <2>1 DEF LoaderType
    <2> QED
      BY <1>0, <1>3, <2>1, <2>2, <2>3
  <1>6. CASE ReceiveRarp
    <2>1. /\ card.ring # <<>> /\ loader.pc = "rx"
          /\ card' = RingNext(card) /\ UNCHANGED <<tool, lanIn, lanOut, slots, mem, shed>>
          /\ \/ loader' = loader
             \/ loader' = [loader EXCEPT !.ip = "given", !.reset = TRUE, !.rarped = TRUE]
      BY <1>2, <1>6 DEF ReceiveRarp
    <2>2. loader' \in LoaderType /\ loader'.pc = "rx" /\ loader'.load = loader.load
      BY <1>0, <2>1 DEF LoaderType
    <2> QED
      BY <1>0, <1>3, <2>1, <2>2
  <1>7. CASE ReceiveArp
    <2>1. /\ card.ring # <<>> /\ loader.pc = "rx"
          /\ UNCHANGED <<tool, lanIn, lanOut, loader, mem, shed>>
      BY <1>2, <1>7 DEF ReceiveArp
    <2>2. CASE loader.ip = "given"
      <3>1. NicSendPacket(RingNext(card), ArpMsg)
        BY <1>7, <2>2 DEF ReceiveArp, Answer
      <3>2. ArpMsg \in OutMsg /\ \A b \in Blk : ArpMsg # AckMsg(b)
        BY Messages DEF OutMsg
      <3> QED
        BY <1>0, <2>1, <3>1, <3>2, LoaderKnown, SendKeeps
    <2>3. CASE loader.ip # "given"
      <3>1. card' = RingNext(card) /\ UNCHANGED slots
        BY <1>7, <2>3 DEF ReceiveArp
      <3> QED
        BY <1>0, <1>3, <2>1, <3>1
    <2> QED
      BY <2>2, <2>3
  <1> QED
    BY <1>1, <1>4, <1>5, <1>6, <1>7

\* nic_tx: the slot of what was sent is free, and the other packet is sent if there
\* is one and the card is free.
LEMMA SentKeeps ==
    ASSUME NInv, Sent
    PROVE  NInv'
  <1> DEFINE err   == "PTX" \notin loader.got
             event == IF err THEN "TXE" ELSE "PTX"
             next  == [slots EXCEPT !.packet[slots.send] = NoMsg]
             more  == {f \in Slot : next.packet[f] # NoMsg}
             acked == card.isr \ ({"PTX"} \cup (IF err THEN {"TXE"} ELSE {}))
  <1>1. /\ loader.pc = "tx" /\ loader' = [loader EXCEPT !.pc = "read", !.got = {}]
        /\ IF event \notin loader.got THEN UNCHANGED <<card, slots>>
           ELSE IF slots.packet[slots.send] = NoMsg
           THEN card' = [card EXCEPT !.isr = @ \ (IF err THEN {"TXE"} ELSE {})] /\ UNCHANGED slots
           ELSE IF more = {} \/ card.sends # NoMsg
           THEN card' = [card EXCEPT !.isr = acked] /\ slots' = [next EXCEPT !.packet = NoSlots.packet]
           ELSE card' = [card EXCEPT !.isr = acked, !.sends = next.packet[Min(more)]] /\ slots' = next
        /\ UNCHANGED <<tool, lanIn, lanOut, mem, shed>>
    BY DEF Sent
  <1>2. /\ card \in CardType /\ slots \in SlotsType /\ slots.send \in Slot
        /\ loader \in LoaderType /\ loader.load >= 1
        /\ card.isr \in SUBSET Events
    BY <1>1, LoaderKnown DEF SlotsType, CardType
  <1>3. loader' \in LoaderType /\ loader'.pc = "read" /\ loader'.load = loader.load
    BY <1>1, <1>2 DEF LoaderType
  <1>4. next \in SlotsType /\ \A f \in Slot : next.packet[f] \in {slots.packet[f], NoMsg}
    BY <1>2 DEF SlotsType
  <1>5. acked \in SUBSET Events
        /\ card.isr \ (IF err THEN {"TXE"} ELSE {}) \in SUBSET Events
    BY <1>2
  <1>6. /\ card' \in CardType /\ card'.ring = card.ring /\ slots' \in SlotsType
        /\ SlotComesFree'
        /\ \A b \in Blk : AckMsg(b) \in Told' => AckMsg(b) \in Told
    <2>1. CASE event \notin loader.got
      BY <1>1, <1>2, <2>1, LoaderKnown DEF Told, SlotComesFree
    <2>2. CASE event \in loader.got /\ slots.packet[slots.send] = NoMsg
      <3>1. /\ card' = [card EXCEPT !.isr = @ \ (IF err THEN {"TXE"} ELSE {})]
            /\ UNCHANGED slots
        BY <1>1, <2>2
      <3>2. card' \in CardType /\ card'.ring = card.ring /\ card'.sends = card.sends
        BY <1>2, <1>5, <3>1 DEF CardType
      <3> QED
        BY <1>1, <1>2, <2>2, <3>1, <3>2 DEF Told, SlotComesFree
    <2>3. CASE /\ event \in loader.got /\ slots.packet[slots.send] # NoMsg
               /\ more = {} \/ card.sends # NoMsg
      <3>1. /\ card' = [card EXCEPT !.isr = acked]
            /\ slots' = [next EXCEPT !.packet = NoSlots.packet]
        BY <1>1, <2>3
      <3> HIDE DEF next, acked
      <3>2. card' \in CardType /\ card'.ring = card.ring /\ card'.sends = card.sends
        BY <1>2, <1>5, <3>1 DEF CardType
      <3>3. slots' \in SlotsType /\ \A f \in Slot : slots'.packet[f] = NoMsg
        BY <1>4, <3>1 DEF SlotsType, NoSlots
      <3>4. SlotComesFree'
        BY <3>3 DEF SlotComesFree, Slot
      <3> QED
        BY <1>1, <3>2, <3>3, <3>4, Messages DEF Told, Slot
    <2>4. CASE /\ event \in loader.got /\ slots.packet[slots.send] # NoMsg
               /\ more # {} /\ card.sends = NoMsg
      <3>1. /\ card' = [card EXCEPT !.isr = acked, !.sends = next.packet[Min(more)]]
            /\ slots' = next
        BY <1>1, <2>4
      <3>2. Min(more) \in more
        BY <2>4, LeastSlot
      <3>3. Min(more) \in Slot /\ next.packet[Min(more)] # NoMsg
        BY <3>2
      <3> HIDE DEF next, acked, more
      <3>4. next.packet[Min(more)] \in OutMsg
            /\ next.packet[Min(more)] \in {slots.packet[0], slots.packet[1]}
        BY <1>4, <3>3 DEF SlotsType, Slot
      <3>5. card' \in CardType /\ card'.ring = card.ring /\ card'.sends = next.packet[Min(more)]
        BY <1>2, <1>5, <3>1, <3>4 DEF CardType
      <3>6. SlotComesFree'
        BY <3>3, <3>5 DEF SlotComesFree
      <3>7. ASSUME NEW b \in Blk, AckMsg(b) \in Told'
            PROVE  AckMsg(b) \in Told
        <4>1. slots'.packet[0] \in {slots.packet[0], NoMsg}
              /\ slots'.packet[1] \in {slots.packet[1], NoMsg}
          BY <1>4, <3>1 DEF Slot
        <4> QED
          BY <1>1, <3>4, <3>5, <3>7, <4>1, Messages DEF Told
      <3> QED
        BY <1>4, <3>1, <3>5, <3>6, <3>7
    <2> QED
      BY <2>1, <2>2, <2>3, <2>4
  <1> QED
    BY <1>1, <1>2, <1>3, <1>6, LoaderKnown, LoaderStep

-----------------------------------------------------------------------------
\* netboot.c and util/netboot.c: the invariant holds in every state, for images of
\* any length, rings of any size, any number of rounds of nic_isr.
THEOREM NetbootInvariance == NetbootSpec => []NInv
  <1>1. NetbootInit => NInv
    BY NetbootStarts
  <1>2. NInv /\ [NetbootNext]_netbootVars => NInv'
    <2> SUFFICES ASSUME NInv, [NetbootNext]_netbootVars
                 PROVE  NInv'
      OBVIOUS
    <2>1. CASE NetbootNext
      BY <2>1, ToolKeeps, CardKeeps, QuietKeeps, ReceiveKeeps, SentKeeps DEF NetbootNext
    <2>2. CASE UNCHANGED netbootVars
      BY <2>2 DEF netbootVars, NInv, NetbootTyped, NetbootTypeOK, AcksAreTrue, ExecIsTrue,
                  WholeImage, SlotComesFree
    <2> QED
      BY <2>1, <2>2
  <1> QED
    BY <1>1, <1>2, PTL DEF NetbootSpec

\* Whatever the network loses, repeats or reorders: what the loader acknowledged is
\* in memory, the image it starts (EXEC) is whole, and the card's two slots come free.
THEOREM ImageStaysWhole == NetbootSpec => []ImageIsWhole
  <1>1. NInv => ImageIsWhole
    BY DEF NInv, NetbootTyped, ImageIsWhole
  <1> QED
    BY <1>1, NetbootInvariance, PTL


-----------------------------------------------------------------------------
(* The terminal.                                                             *)

\* What is true of the terminal between two characters, whatever was printed.
VirtScreen ==
    [x : 0..Cols - 1, y : 0..Rows - 1, top : 0..MaxInt, bottom : (-MaxInt - 1)..Rows,
     oldx : 0..Cols - 1, oldy : 0..Rows - 1, mode : Mode, number : Ints,
     reading : BOOLEAN, elements : Seq(Ints), bad : BOOLEAN]

Sound(w) ==
    /\ w \in VirtScreen
    /\ Len(w.elements) <= MAX_ANSI_ELEMENTS

\* The region has a line, and nothing outside of the screen was touched.
Whole(w) == w.top < w.bottom /\ ~w.bad

\* An operation that, on a sound terminal, leaves it sound and, on a whole one, whole.
Keeps(w, u) == Sound(u) /\ (Whole(w) => Whole(u))

VInv == Sound(v) /\ misled \in BOOLEAN /\ (~misled => Whole(v))

LEMMA Wrapped ==
    ASSUME NEW n \in Int
    PROVE  Wrap(n) \in Ints /\ Wrap(n) \in Int
<1>. DEFINE m == 2 * MaxInt + 2
            r == (n + MaxInt + 1) % m
<1>1. MaxInt \in Nat
    BY VtAssumption
<1>2. m \in Nat \ {0} /\ n + MaxInt + 1 \in Int
    BY <1>1
<1>3. r \in 0..m - 1
    <2>. DEFINE k == n + MaxInt + 1
    <2>1. k \in Int
        BY <1>2
    <2>. HIDE DEF m, k
    <2>2. k % m \in 0..m - 1
        BY <1>2, <2>1
    <2>. QED
        BY <2>2 DEF k
<1>. HIDE DEF r
<1>. QED
    BY <1>1, <1>3 DEF Wrap, Ints, r

LEMMA Unwrapped ==
    ASSUME NEW n \in 0..MaxInt
    PROVE  Wrap(n) = n
<1>. DEFINE m == 2 * MaxInt + 2
            k == n + MaxInt + 1
<1>1. MaxInt \in Nat
    BY VtAssumption
<1>2. m \in Nat \ {0} /\ k \in 0..m - 1
    BY <1>1
<1>3. k % m = k
    <2>. HIDE DEF m, k
    <2>. QED
        BY <1>2
<1>. QED
    BY <1>1, <1>3 DEF Wrap

LEMMA OnScreen ==
    ASSUME NEW y \in 0..Rows - 1, NEW x \in 0..Cols - 1
    PROVE  Loc(y, x) \in 0..Rows * Cols - 1
<1>1. Rows \in Nat /\ Cols \in Nat
    BY VtAssumption
<1>2. PICK k \in Nat : Rows = y + 1 + k
    <2>1. Rows - 1 - y \in Nat
        BY <1>1
    <2> QED BY <2>1, <1>1
<1>3. Rows * Cols = y * Cols + Cols + k * Cols
    BY <1>1, <1>2
<1>4. y * Cols \in Nat /\ k * Cols \in Nat
    BY <1>1, <1>2
<1>. QED
    BY <1>1, <1>3, <1>4 DEF Loc

LEMMA LineEnds ==
    ASSUME NEW y \in 0..Rows
    PROVE  Loc(y, 0) \in 0..Rows * Cols /\ Loc(y, 0) - 1 <= Rows * Cols - 1
<1>1. Rows \in Nat /\ Cols \in Nat
    BY VtAssumption
<1>2. PICK k \in Nat : Rows = y + k
    <2>1. Rows - y \in Nat
        BY <1>1
    <2> QED BY <2>1, <1>1
<1>3. Rows * Cols = y * Cols + k * Cols
    BY <1>1, <1>2
<1>4. y * Cols \in Nat /\ k * Cols \in Nat
    BY <1>1, <1>2
<1>. QED
    BY <1>1, <1>3, <1>4 DEF Loc

\* Touching cells leaves all but bad; inside the screen it leaves bad too.
LEMMA TouchKeeps ==
    ASSUME NEW w, Sound(w), NEW from \in Int, NEW to \in Int,
           Whole(w) => from >= 0 /\ to <= Rows * Cols - 1
    PROVE  Keeps(w, Touch(w, from, to)) /\ Touch(w, from, to).elements = w.elements
<1>1. Rows \in Nat /\ Cols \in Nat /\ Rows * Cols \in Nat
    BY VtAssumption
<1>. DEFINE b == w.bad \/ (from <= to /\ (from < 0 \/ to >= Rows * Cols))
<1>2. Touch(w, from, to) = [w EXCEPT !.bad = b]
    BY DEF Touch, Sound, VirtScreen
<1>3. b \in BOOLEAN /\ (Whole(w) => ~b)
    BY <1>1 DEF Sound, VirtScreen, Whole
<1>. HIDE DEF b
<1>4. Sound([w EXCEPT !.bad = b])
    BY <1>3 DEF Sound, VirtScreen
<1>5. Whole(w) => Whole([w EXCEPT !.bad = b])
    BY <1>3 DEF Whole, Sound, VirtScreen
<1>6. [w EXCEPT !.bad = b].elements = w.elements
    BY DEF Sound, VirtScreen
<1>. QED
    BY <1>2, <1>4, <1>5, <1>6 DEF Keeps

LEMMA Clamped ==
    ASSUME NEW n \in Int, NEW limit \in Nat \ {0}
    PROVE  Clamp(n, limit) \in 0..limit - 1
BY DEF Clamp

LEMMA CursorKeeps ==
    ASSUME NEW w, Sound(w), NEW y \in Int, NEW x \in Int
    PROVE  Keeps(w, position_console(w, y, x))
<1>. DEFINE cx == Clamp(Wrap(x), Cols)
            cy == Clamp(Wrap(y), Rows)
            u == [w EXCEPT !.x = cx, !.y = cy]
            w1 == [w EXCEPT !.x = cx]
<1>1. cx \in 0..Cols - 1 /\ cy \in 0..Rows - 1
    BY Wrapped, Clamped, VtAssumption
<1>2. position_console(w, y, x) = u
    BY DEF position_console
<1>. HIDE DEF cx, cy
<1>3. w1 \in VirtScreen /\ w1.elements = w.elements
      /\ w1.top = w.top /\ w1.bottom = w.bottom /\ w1.bad = w.bad
    BY <1>1 DEF Sound, VirtScreen
<1>4. u = [w1 EXCEPT !.y = cy]
    BY <1>1 DEF Sound, VirtScreen
<1>. HIDE DEF w1, u
<1>5. u \in VirtScreen /\ u.elements = w.elements
      /\ u.top = w.top /\ u.bottom = w.bottom /\ u.bad = w.bad
    BY <1>1, <1>3, <1>4 DEF VirtScreen
<1>. QED
    BY <1>2, <1>5 DEF Keeps, Sound, Whole

LEMMA ScrollKeeps ==
    ASSUME NEW w, Sound(w)
    PROVE  Keeps(w, scroll_virtscreen(w))
<1>1. Rows \in Nat \ {0} /\ Cols \in Nat \ {0} /\ MaxInt \in Nat
    BY VtAssumption
<1>2. w.top \in 0..MaxInt /\ w.bottom \in (-MaxInt - 1)..Rows
    BY DEF Sound, VirtScreen
<1>3. CASE w.bottom - 1 < w.top
    <2>1. ~Whole(w)
        BY <1>1, <1>2, <1>3 DEF Whole
    <2>2. Sound([w EXCEPT !.bad = TRUE])
        BY DEF Sound, VirtScreen
    <2>. QED
        BY <2>1, <2>2, <1>3 DEF scroll_virtscreen, Keeps
<1>4. CASE ~(w.bottom - 1 < w.top)
    <2>1. w.top \in 0..Rows /\ w.bottom \in 0..Rows
        BY <1>1, <1>2, <1>4
    <2>2. Loc(w.top, 0) \in 0..Rows * Cols /\ Loc(w.bottom, 0) \in 0..Rows * Cols
        BY <2>1, LineEnds
    <2>. HIDE DEF Loc
    <2>3. Rows * Cols \in Nat
        BY <1>1
    <2>4. Keeps(w, Touch(w, Loc(w.top, 0), Loc(w.bottom, 0) - 1))
        BY <2>2, <2>3, TouchKeeps
    <2>. QED
        BY <1>4, <2>4 DEF scroll_virtscreen
<1>. QED
    BY <1>3, <1>4

LEMMA ScrollUpKeeps ==
    ASSUME NEW w, Sound(w)
    PROVE  Keeps(w, scroll_virt_up_at_cursor(w))
<1>1. Rows * Cols \in Nat
    BY VtAssumption
<1>2. CASE w.y >= w.top /\ w.y < w.bottom
    <2>1. w.y \in 0..Rows /\ w.bottom \in 0..Rows
        BY <1>2, VtAssumption DEF Sound, VirtScreen
    <2>2. Loc(w.y, 0) \in 0..Rows * Cols /\ Loc(w.bottom, 0) \in 0..Rows * Cols
        BY <2>1, LineEnds
    <2>3. Keeps(w, Touch(w, Loc(w.y, 0), Loc(w.bottom, 0) - 1))
        BY <1>1, <2>2, TouchKeeps
    <2>. QED
        BY <1>2, <2>3 DEF scroll_virt_up_at_cursor
<1>3. CASE ~(w.y >= w.top /\ w.y < w.bottom)
    BY <1>3 DEF scroll_virt_up_at_cursor, Keeps
<1>. QED
    BY <1>2, <1>3

LEMMA WriteKeeps ==
    ASSUME NEW w, Sound(w), NEW x \in 0..Cols - 1, NEW z \in 0..Cols - 1
    PROVE  Keeps(w, Touch(w, Loc(w.y, x), Loc(w.y, z)))
           /\ Touch(w, Loc(w.y, x), Loc(w.y, z)).elements = w.elements
<1>1. w.y \in 0..Rows - 1 /\ Rows * Cols \in Nat
    BY VtAssumption DEF Sound, VirtScreen
<1>2. Loc(w.y, x) \in 0..Rows * Cols - 1 /\ Loc(w.y, z) \in 0..Rows * Cols - 1
    BY <1>1, OnScreen
<1>. HIDE DEF Loc
<1>. QED
    BY <1>1, <1>2, TouchKeeps

LEMMA Composed ==
    ASSUME NEW w, NEW u, NEW t, Keeps(w, u), Keeps(u, t)
    PROVE  Keeps(w, t)
BY DEF Keeps

\* Setting one field.
LEMMA ColumnKeeps ==
    ASSUME NEW w, Sound(w), NEW x \in 0..Cols - 1
    PROVE  Keeps(w, [w EXCEPT !.x = x])
BY DEF Keeps, Sound, Whole, VirtScreen

LEMMA ModeKeeps ==
    ASSUME NEW w, Sound(w), NEW m \in Mode
    PROVE  Keeps(w, [w EXCEPT !.mode = m])
BY DEF Keeps, Sound, Whole, VirtScreen

LEMMA LineKeeps ==
    ASSUME NEW w, Sound(w), NEW y \in 0..Rows - 1
    PROVE  Keeps(w, [w EXCEPT !.y = y])
BY DEF Keeps, Sound, Whole, VirtScreen

LEMMA SavedKeeps ==
    ASSUME NEW w, Sound(w)
    PROVE  Keeps(w, [w EXCEPT !.oldx = w.x, !.oldy = w.y])
<1>1. w.y \in 0..Rows - 1 /\ w.x \in 0..Cols - 1
    BY DEF Sound, VirtScreen
<1>. QED
    BY <1>1 DEF Keeps, Sound, Whole, VirtScreen

LEMMA InMode ==
    ASSUME NEW w, NEW u, Keeps(w, u), NEW m \in Mode
    PROVE  Keeps(w, [u EXCEPT !.mode = m])
BY ModeKeeps, Composed DEF Keeps

LEMMA InColumn ==
    ASSUME NEW w, NEW u, Keeps(w, u), NEW x \in 0..Cols - 1
    PROVE  Keeps(w, [u EXCEPT !.x = x])
BY ColumnKeeps, Composed DEF Keeps

LEMMA ClearKeeps ==
    ASSUME NEW w, Sound(w), NEW mode
    PROVE  Keeps(w, clear_virtscreen(w, mode)) /\ Keeps(w, clear_to_eol(w, mode))
<1>1. Rows \in Nat \ {0} /\ Cols \in Nat \ {0} /\ Rows * Cols \in Nat
      /\ w.y \in 0..Rows - 1 /\ w.x \in 0..Cols - 1 /\ 0 \in 0..Cols - 1 /\ Cols - 1 \in 0..Cols - 1
    BY VtAssumption DEF Sound, VirtScreen
<1>2. Loc(Rows - 1, Cols - 1) \in 0..Rows * Cols - 1
    BY <1>1, OnScreen
<1>3. Loc(w.y, w.x) \in 0..Rows * Cols - 1
    BY <1>1, OnScreen
<1>. HIDE DEF Loc
<1>5. Keeps(w, Touch(w, Loc(w.y, w.x), Loc(Rows - 1, Cols - 1)))
    BY <1>1, <1>2, <1>3, TouchKeeps
<1>6. Keeps(w, Touch(w, 0, Loc(w.y, w.x)))
    BY <1>1, <1>3, TouchKeeps
<1>7. Keeps(w, [Touch(w, 0, Loc(Rows - 1, Cols - 1)) EXCEPT !.x = 0, !.y = 0])
    <2>. DEFINE t == Touch(w, 0, Loc(Rows - 1, Cols - 1))
    <2>1. Keeps(w, t)
        BY <1>1, <1>2, TouchKeeps
    <2>. HIDE DEF t
    <2>2. Keeps(w, [t EXCEPT !.x = 0])
        BY <2>1, <1>1, InColumn
    <2>3. Keeps([t EXCEPT !.x = 0], [[t EXCEPT !.x = 0] EXCEPT !.y = 0])
        <3>. DEFINE u == [t EXCEPT !.x = 0]
        <3>1. Sound(u) /\ 0 \in 0..Rows - 1
            BY <2>2, <1>1 DEF Keeps
        <3>. HIDE DEF u
        <3>2. Keeps(u, [u EXCEPT !.y = 0])
            BY <3>1, LineKeeps
        <3>. QED
            BY <3>2 DEF u
    <2>4. [[t EXCEPT !.x = 0] EXCEPT !.y = 0] = [t EXCEPT !.x = 0, !.y = 0]
        BY <2>1 DEF Keeps, Sound, VirtScreen
    <2>. QED
        BY <2>2, <2>3, <2>4, Composed DEF t
<1>8. Keeps(w, clear_virtscreen(w, mode))
    BY <1>5, <1>6, <1>7 DEF clear_virtscreen
<1>9. Keeps(w, clear_to_eol(w, mode))
    <2>. DEFINE a == IF mode = 0 THEN w.x ELSE 0
                z == IF mode = 1 THEN w.x ELSE Cols - 1
    <2>1. a \in 0..Cols - 1 /\ z \in 0..Cols - 1
        BY <1>1
    <2>. HIDE DEF a, z
    <2>2. Keeps(w, Touch(w, Loc(w.y, a), Loc(w.y, z)))
        BY <2>1, WriteKeeps
    <2>. QED
        BY <2>2 DEF clear_to_eol, a, z
<1>. QED
    BY <1>8, <1>9

LEMMA IndexKeeps ==
    ASSUME NEW w, Sound(w)
    PROVE  Keeps(w, IndexDown(w))
<1>1. w.y \in 0..Rows - 1 /\ w.bottom \in (-MaxInt - 1)..Rows /\ Rows \in Nat /\ MaxInt \in Nat
    BY VtAssumption DEF Sound, VirtScreen
<1>2. CASE w.y + 1 >= w.bottom
    BY <1>2, ScrollKeeps DEF IndexDown
<1>3. CASE ~(w.y + 1 >= w.bottom)
    <2>1. w.y + 1 \in 0..Rows - 1
        BY <1>1, <1>3
    <2>2. Keeps(w, [w EXCEPT !.y = w.y + 1])
        BY <2>1, LineKeeps
    <2>. QED
        BY <1>3, <2>2 DEF IndexDown
<1>. QED
    BY <1>2, <1>3

LEMMA LineFeedKeeps ==
    ASSUME NEW w, Sound(w)
    PROVE  Keeps(w, LineFeed(w))
<1>1. w.y \in 0..Rows - 1 /\ w.bottom \in (-MaxInt - 1)..Rows /\ Rows \in Nat /\ MaxInt \in Nat /\ 0 \in 0..Cols - 1
    BY VtAssumption DEF Sound, VirtScreen
<1>2. CASE w.y + 1 = w.bottom
    <2>1. Keeps(w, [scroll_virtscreen(w) EXCEPT !.x = 0])
        BY <1>1, ScrollKeeps, InColumn
    <2>. QED
        BY <1>2, <2>1 DEF LineFeed
<1>3. CASE w.y + 1 > w.bottom
    <2>1. Keeps(w, [w EXCEPT !.x = 0])
        BY <1>1, ColumnKeeps
    <2>. QED
        BY <1>1, <1>3, <2>1 DEF LineFeed
<1>4. CASE w.y + 1 < w.bottom
    <2>. DEFINE down == w.y + 1
    <2>1. down \in 0..Rows - 1 /\ down # w.bottom /\ ~(down > w.bottom)
        BY <1>1, <1>4
    <2>2. LineFeed(w) = [[w EXCEPT !.y = down] EXCEPT !.x = 0]
        BY <2>1 DEF LineFeed
    <2>. HIDE DEF down
    <2>3. Keeps(w, [w EXCEPT !.y = down])
        BY <2>1, LineKeeps
    <2>. DEFINE u == [w EXCEPT !.y = down]
    <2>4. Keeps(w, u)
        BY <2>3
    <2>. HIDE DEF u
    <2>5. Keeps(w, [u EXCEPT !.x = 0])
        BY <1>1, <2>4, InColumn
    <2>. QED
        BY <2>2, <2>5 DEF u
<1>. QED
    BY <1>1, <1>2, <1>3, <1>4

LEMMA LetterKeeps ==
    ASSUME NEW w, Sound(w)
    PROVE  Keeps(w, Letter(w))
<1>. DEFINE c == change_character(w)
            x == IF w.x + 1 < Cols THEN w.x + 1 ELSE Cols - 1
<1>1. w.x \in 0..Cols - 1 /\ Cols \in Nat \ {0}
    BY VtAssumption DEF Sound, VirtScreen
<1>2. Keeps(w, c)
    BY <1>1, WriteKeeps DEF change_character
<1>3. c.x = w.x /\ x \in 0..Cols - 1
    BY <1>1 DEF change_character, Touch, Sound, VirtScreen
<1>4. Letter(w) = [c EXCEPT !.x = x]
    BY <1>2, <1>3 DEF Letter, Keeps, Sound, VirtScreen
<1>. HIDE DEF c, x
<1>. QED
    BY <1>2, <1>3, <1>4, InColumn

LEMMA CharKeeps ==
    ASSUME NEW w, Sound(w), NEW ch \in Controls
    PROVE  Keeps(w, std_interpret_char(w, ch))
<1>1. w.x \in 0..Cols - 1 /\ w.y \in Int /\ 0 \in 0..Cols - 1 /\ Cols \in Nat \ {0}
    BY VtAssumption DEF Sound, VirtScreen
<1>2. CASE ch = "ESC"
    BY <1>2, ModeKeeps DEF std_interpret_char, Mode
<1>3. CASE ch = "FF"
    BY <1>3, ClearKeeps DEF std_interpret_char
<1>4. CASE ch = "CR"
    BY <1>1, <1>4, ColumnKeeps DEF std_interpret_char
<1>5. CASE ch = "LF"
    BY <1>5, LineFeedKeeps DEF std_interpret_char
<1>6. CASE ch = "TAB"
    <2>1. w.x + 8 - (w.x % 8) \in Int
        BY <1>1
    <2>2. Keeps(w, position_console(w, w.y, w.x + 8 - (w.x % 8)))
        BY <1>1, <2>1, CursorKeeps
    <2>. QED
        BY <1>6, <2>2 DEF std_interpret_char
<1>7. CASE ch = "BS"
    <2>. DEFINE x == IF w.x = 0 THEN Cols - 1 ELSE w.x - 1
    <2>1. x \in 0..Cols - 1
        BY <1>1
    <2>2. Keeps(w, [w EXCEPT !.x = x])
        BY <2>1, ColumnKeeps
    <2>. QED
        BY <1>7, <2>2 DEF std_interpret_char
<1>8. CASE ch = "NUL"
    BY <1>8 DEF std_interpret_char, Keeps
<1>9. CASE ch = "letter"
    BY <1>9, LetterKeeps DEF std_interpret_char
<1>. QED
    BY <1>2, <1>3, <1>4, <1>5, <1>6, <1>7, <1>8, <1>9 DEF Controls

LEMMA AnsiKeeps ==
    ASSUME NEW w, Sound(w), NEW ch \in AfterEsc \cup {"ESC"}
    PROVE  Keeps(w, std_interpret_ansi(w, ch))
<1>1. w.x \in 0..Cols - 1 /\ w.y \in 0..Rows - 1 /\ w.top \in Nat /\ 0 \in 0..Cols - 1
      /\ Rows \in Nat \ {0} /\ w \in VirtScreen
    BY VtAssumption DEF Sound, VirtScreen
<1>2. "char" \in Mode /\ "charset" \in Mode /\ "csi" \in Mode
    BY DEF Mode
<1>3. CASE ch = "("
    BY <1>2, <1>3, ModeKeeps DEF std_interpret_ansi
<1>4. CASE ch = "["
    <2>. DEFINE u == [w EXCEPT !.mode = "csi", !.number = 0, !.elements = <<>>, !.reading = FALSE]
    <2>1. u \in VirtScreen /\ u.elements = <<>> /\ u.bad = w.bad /\ u.y = w.y
          /\ u.top = w.top /\ u.bottom = w.bottom
        <3>. DEFINE w1 == [w EXCEPT !.mode = "csi", !.number = 0]
                    w2 == [w1 EXCEPT !.elements = <<>>]
        <3>1. <<>> \in Seq(Ints) /\ 0 \in Ints
            BY VtAssumption DEF Ints
        <3>2. w1 \in VirtScreen /\ w1.bad = w.bad /\ w1.y = w.y
              /\ w1.top = w.top /\ w1.bottom = w.bottom
            BY <1>1, <1>2, <3>1 DEF VirtScreen
        <3>3. u = [w2 EXCEPT !.reading = FALSE]
            BY <1>1 DEF VirtScreen
        <3>. HIDE DEF w1, u
        <3>4. w2 \in VirtScreen /\ w2.elements = <<>> /\ w2.bad = w.bad /\ w2.y = w.y
              /\ w2.top = w.top /\ w2.bottom = w.bottom
            BY <3>1, <3>2 DEF VirtScreen
        <3>. HIDE DEF w2
        <3>. QED
            BY <3>3, <3>4 DEF VirtScreen
    <2>. HIDE DEF u
    <2>2. Keeps(w, u)
        BY <2>1, VtAssumption DEF Keeps, Sound, Whole
    <2>. QED
        BY <1>4, <2>2 DEF std_interpret_ansi, u
<1>5. CASE ch = "7"
    <2>. DEFINE u == [w EXCEPT !.oldx = w.x, !.oldy = w.y]
    <2>1. Keeps(w, u)
        BY SavedKeeps
    <2>2. [u EXCEPT !.mode = "char"] = [w EXCEPT !.mode = "char", !.oldx = w.x, !.oldy = w.y]
        BY <1>1 DEF VirtScreen
    <2>. HIDE DEF u
    <2>3. Keeps(w, [u EXCEPT !.mode = "char"])
        BY <2>1, <1>2, InMode
    <2>. QED
        BY <1>5, <2>2, <2>3 DEF std_interpret_ansi
<1>6. CASE ch = "8"
    <2>1. Keeps(w, position_console(w, w.y, w.x))
        BY <1>1, CursorKeeps
    <2>2. Keeps(w, [position_console(w, w.y, w.x) EXCEPT !.mode = "char"])
        BY <2>1, <1>2, InMode
    <2>. QED
        BY <1>6, <2>2 DEF std_interpret_ansi
<1>7. CASE ch = "D"
    <2>1. Keeps(w, [IndexDown(w) EXCEPT !.mode = "char"])
        BY IndexKeeps, <1>2, InMode
    <2>. QED
        BY <1>7, <2>1 DEF std_interpret_ansi
<1>8. CASE ch = "E"
    <2>. DEFINE u == [w EXCEPT !.x = 0]
    <2>1. Keeps(w, u)
        BY <1>1, ColumnKeeps
    <2>. HIDE DEF u
    <2>2. Keeps(w, IndexDown(u))
        BY <2>1, IndexKeeps, Composed DEF Keeps
    <2>3. Keeps(w, [IndexDown(u) EXCEPT !.mode = "char"])
        BY <2>2, <1>2, InMode
    <2>. QED
        BY <1>8, <2>3 DEF std_interpret_ansi, u
<1>9. CASE ch = "M"
    <2>. DEFINE u == IF w.y - 1 < w.top THEN scroll_virt_up_at_cursor(w) ELSE [w EXCEPT !.y = w.y - 1]
    <2>1. Keeps(w, u)
        <3>1. CASE w.y - 1 < w.top
            BY <3>1, ScrollUpKeeps
        <3>2. CASE ~(w.y - 1 < w.top)
            <4>. DEFINE up == w.y - 1
            <4>1. up \in 0..Rows - 1
                BY <1>1, <3>2
            <4>. HIDE DEF up
            <4>2. Keeps(w, [w EXCEPT !.y = up])
                BY <4>1, LineKeeps
            <4>. QED
                BY <3>2, <4>2 DEF up
        <3>. QED
            BY <3>1, <3>2
    <2>2. std_interpret_ansi(w, ch) = [u EXCEPT !.mode = "char"]
        BY <1>9 DEF std_interpret_ansi
    <2>. HIDE DEF u
    <2>. QED
        BY <2>1, <2>2, <1>2, InMode
<1>10. CASE ch = "ESC"
    BY <1>10 DEF std_interpret_ansi, Keeps
<1>11. CASE ch = "other"
    BY <1>2, <1>11, ModeKeeps DEF std_interpret_ansi
<1>. QED
    BY <1>3, <1>4, <1>5, <1>6, <1>7, <1>8, <1>9, <1>10, <1>11 DEF AfterEsc

LEMMA NumberRead ==
    ASSUME NEW w, Sound(w), NEW i \in Nat \ {0}, NEW default \in 0..MaxInt
    PROVE  Element(w, i, default) \in Ints /\ Element(w, i, default) \in Int
<1>. DEFINE q == w.elements
            S == Ints
<1>1. q \in Seq(S)
    BY DEF Sound, VirtScreen
<1>2. S \subseteq Int /\ default \in S
    BY VtAssumption DEF Ints
<1>. HIDE DEF q, S
<1>3. i <= Len(q) => q[i] \in S
    BY <1>1
<1>4. (IF i <= Len(q) THEN q[i] ELSE default) \in S
    BY <1>2, <1>3
<1>. QED
    BY <1>2, <1>4 DEF Element, q, S

LEMMA RegionKeeps ==
    ASSUME NEW w, Sound(w)
    PROVE  Sound(ScrollRegion(w)) /\ ScrollRegion(w).bad = w.bad
<1>. DEFINE low == Element(w, 1, 1)
            high == Element(w, 2, Rows)
<1>1. low \in Int /\ high \in Ints /\ Rows \in Nat /\ MaxInt \in Nat
    BY NumberRead, VtAssumption
<1>. HIDE DEF low, high
<1>. DEFINE u == set_scroll_region(w, low, high)
            a == IF Wrap(low - 1) < 0 THEN 0 ELSE Wrap(low - 1)
            z == IF high >= Rows THEN Rows ELSE high
            w1 == [w EXCEPT !.top = a]
<1>2. a \in 0..MaxInt
    <2>1. low - 1 \in Int
        BY <1>1
    <2>2. Wrap(low - 1) \in Ints
        BY <2>1, Wrapped
    <2>. HIDE DEF Wrap
    <2>. QED
        BY <2>2, <1>1 DEF Ints
<1>3. z \in (-MaxInt - 1)..Rows
    BY <1>1 DEF Ints
<1>4. u = [w EXCEPT !.top = a, !.bottom = z]
    BY DEF set_scroll_region
<1>. HIDE DEF a, z
<1>5. w1 \in VirtScreen /\ w1.elements = w.elements /\ w1.bad = w.bad
    BY <1>2 DEF Sound, VirtScreen
<1>6. u = [w1 EXCEPT !.bottom = z]
    BY <1>4 DEF Sound, VirtScreen
<1>. HIDE DEF w1, u
<1>7. u \in VirtScreen /\ u.elements = w.elements /\ u.bad = w.bad
    BY <1>3, <1>5, <1>6 DEF VirtScreen
<1>8. Sound(u)
    BY <1>7 DEF Sound
<1>. QED
    BY <1>7, <1>8 DEF ScrollRegion, low, high, u

\* As many characters are deleted as there are, or fewer: the line is not left.
LEMMA DeleteCharsKeeps ==
    ASSUME NEW w, Sound(w), NEW n \in Ints
    PROVE  /\ Sound(delete_chars_in_line(w, n))
           /\ delete_chars_in_line(w, n).elements = w.elements
           /\ n \in 0..(MaxInt - Cols) => Keeps(w, delete_chars_in_line(w, n))
<1>1. w.x \in 0..Cols - 1 /\ w.y \in 0..Rows - 1 /\ Cols \in Nat \ {0} /\ n \in Int /\ MaxInt \in Nat
    BY VtAssumption DEF Sound, VirtScreen, Ints
<1>. DEFINE from == Wrap(w.x + n)
            l == w.y * Cols
            t == Touch(w, Loc(w.y, w.x), Loc(w.y, Cols) - 1)
            u == Touch(w, Loc(w.y, from), Loc(w.y, Cols + w.x - from) - 1)
<1>2. delete_chars_in_line(w, n) = IF from < w.x THEN u ELSE t
    BY DEF delete_chars_in_line
<1>3. w.x + n \in Int
    BY <1>1
<1>4. from \in Int
    BY <1>3, Wrapped
<1>5. n \in 0..(MaxInt - Cols) => ~(from < w.x)
    <2>1. SUFFICES ASSUME n \in 0..(MaxInt - Cols) PROVE ~(from < w.x)
        OBVIOUS
    <2>2. w.x + n \in 0..MaxInt
        BY <1>1, <2>1
    <2>3. from = w.x + n
        BY <2>2, Unwrapped
    <2>. HIDE DEF from
    <2>. QED
        BY <1>1, <2>1, <2>3
<1>. HIDE DEF from
<1>6. l \in Int /\ Loc(w.y, Cols) = l + Cols /\ Loc(w.y, Cols - 1) = l + (Cols - 1)
      /\ Loc(w.y, from) = l + from /\ Loc(w.y, Cols + w.x - from) = l + (Cols + w.x - from)
    BY <1>1, <1>4 DEF Loc
<1>7. Keeps(w, t) /\ t.elements = w.elements
    <2>. HIDE DEF l, Loc
    <2>1. Loc(w.y, Cols) - 1 = Loc(w.y, Cols - 1) /\ Cols - 1 \in 0..Cols - 1
        BY <1>1, <1>6
    <2>2. Keeps(w, Touch(w, Loc(w.y, w.x), Loc(w.y, Cols - 1)))
          /\ Touch(w, Loc(w.y, w.x), Loc(w.y, Cols - 1)).elements = w.elements
        BY <1>1, <2>1, WriteKeeps
    <2>. QED
        BY <2>1, <2>2
<1>8. Sound(u) /\ u.elements = w.elements
    <2>. DEFINE b == w.bad \/ (Loc(w.y, from) <= Loc(w.y, Cols + w.x - from) - 1
                        /\ (Loc(w.y, from) < 0 \/ Loc(w.y, Cols + w.x - from) - 1 >= Rows * Cols))
    <2>1. b \in BOOLEAN /\ u = [w EXCEPT !.bad = b]
        BY DEF Touch, Sound, VirtScreen
    <2>. HIDE DEF b, u
    <2>. QED
        BY <2>1 DEF Sound, VirtScreen
<1>. HIDE DEF t, u
<1>. QED
    BY <1>2, <1>5, <1>7, <1>8 DEF Keeps

\* The commands other than "r" leave the region alone, and but for "P" they never
\* leave the screen.
LEMMA CommandKeeps ==
    ASSUME NEW w, Sound(w), NEW ch \in Final \ {"?", "r", "P"}
    PROVE  Keeps(w, Interpret(w, ch))
<1>. DEFINE n == Element(w, 1, 1)
            m == Element(w, 2, 1)
            k == Element(w, 1, 0)
<1>1. n \in Int /\ m \in Int
    BY NumberRead, VtAssumption
<1>2. w.x \in 0..Cols - 1 /\ w.y \in Int /\ w.oldx \in Int /\ w.oldy \in Int
      /\ Cols \in Nat \ {0}
    BY VtAssumption DEF Sound, VirtScreen
<1>. HIDE DEF n, m, k
<1>3. FromOne(n) \in Int /\ FromOne(m) \in Int /\ w.x - n \in Int /\ w.x + n \in Int
      /\ w.y - n \in Int /\ w.y + n \in Int /\ w.x \in Int /\ 0 \in Int
    BY <1>1, <1>2 DEF FromOne
<1>4. CASE ch \in {"D", "C", "A", "B", "G", "E", "F", "d", "H", "u"}
    <2>1. \A y, x \in Int : Keeps(w, position_console(w, y, x))
        BY CursorKeeps
    <2>2. PICK y \in Int, x \in Int : Interpret(w, ch) = position_console(w, y, x)
        <3>1. CASE ch = "D"
            BY <1>2, <1>3, <3>1 DEF Interpret, n
        <3>2. CASE ch = "C"
            BY <1>2, <1>3, <3>2 DEF Interpret, n
        <3>3. CASE ch = "A"
            BY <1>2, <1>3, <3>3 DEF Interpret, n
        <3>4. CASE ch = "B"
            BY <1>2, <1>3, <3>4 DEF Interpret, n
        <3>5. CASE ch = "G"
            BY <1>2, <1>3, <3>5 DEF Interpret, n
        <3>6. CASE ch = "E"
            BY <1>2, <1>3, <3>6 DEF Interpret, n
        <3>7. CASE ch = "F"
            BY <1>2, <1>3, <3>7 DEF Interpret, n
        <3>8. CASE ch = "d"
            BY <1>2, <1>3, <3>8 DEF Interpret, n
        <3>9. CASE ch = "H"
            BY <1>2, <1>3, <3>9 DEF Interpret, n, m
        <3>10. CASE ch = "u"
            BY <1>2, <1>3, <3>10 DEF Interpret
        <3>. QED
            BY <1>4, <3>1, <3>2, <3>3, <3>4, <3>5, <3>6, <3>7, <3>8, <3>9, <3>10
    <2>. QED
        BY <2>1, <2>2
<1>5. CASE ch = "J"
    BY <1>5, ClearKeeps DEF Interpret, k
<1>6. CASE ch \in {"L", "M"}
    BY <1>6, ScrollUpKeeps DEF Interpret, Keeps
<1>7. CASE ch = "K"
    BY <1>7, ClearKeeps DEF Interpret, k
<1>8. CASE ch = "s"
    BY <1>8, SavedKeeps DEF Interpret
<1>9. CASE ch = "m"
    BY <1>9 DEF Interpret, Keeps
<1>. QED
    BY <1>4, <1>5, <1>6, <1>7, <1>8, <1>9 DEF Final

LEMMA CsiKeeps ==
    ASSUME NEW w, Sound(w), NEW ch \in Final \cup {"semicolon"}
    PROVE  LET u == special_reading_ansi(w, ch)
           IN  Sound(u) /\ (Whole(w) /\ ~Misleads(u, ch) => Whole(u))
<1>. DEFINE q == IF (w.reading \/ ch = "semicolon") /\ Len(w.elements) < MAX_ANSI_ELEMENTS
                 THEN Append(w.elements, w.number) ELSE w.elements
            read == [w EXCEPT !.number = 0, !.reading = FALSE, !.elements = q]
<1>1. w \in VirtScreen /\ Len(w.elements) <= MAX_ANSI_ELEMENTS /\ 0 \in Ints
    BY VtAssumption DEF Sound, Ints
<1>2. q \in Seq(Ints) /\ Len(q) <= MAX_ANSI_ELEMENTS
    <2>1. w.elements \in Seq(Ints) /\ w.number \in Ints
        BY <1>1 DEF VirtScreen
    <2>. DEFINE e == w.elements
                k == w.number
                c == (w.reading \/ ch = "semicolon") /\ Len(w.elements) < MAX_ANSI_ELEMENTS
                S == Ints
    <2>2. q = IF c THEN Append(e, k) ELSE e
        OBVIOUS
    <2>3. e \in Seq(S) /\ k \in S /\ Len(e) <= MAX_ANSI_ELEMENTS
        BY <1>1, <2>1
    <2>4. c => Len(e) < MAX_ANSI_ELEMENTS
        OBVIOUS
    <2>. HIDE DEF e, k, c, S, q
    <2>5. Append(e, k) \in Seq(S) /\ Len(Append(e, k)) = Len(e) + 1 /\ Len(e) \in Nat
        BY <2>3
    <2>6. c => Len(Append(e, k)) <= MAX_ANSI_ELEMENTS
        BY <2>4, <2>5, VtAssumption
    <2>7. q \in Seq(S) /\ Len(q) <= MAX_ANSI_ELEMENTS
        BY <2>2, <2>3, <2>5, <2>6
    <2>. QED
        BY <2>7 DEF S
<1>. HIDE DEF q
<1>3. Keeps(w, read) /\ (Whole(w) => Whole(read))
    <2>. DEFINE w1 == [w EXCEPT !.number = 0, !.reading = FALSE]
    <2>1. w1 \in VirtScreen /\ w1.bad = w.bad /\ w1.y = w.y /\ w1.top = w.top /\ w1.bottom = w.bottom
        BY <1>1 DEF VirtScreen
    <2>2. read = [w1 EXCEPT !.elements = q]
        BY <1>1 DEF VirtScreen
    <2>. HIDE DEF w1, read
    <2>3. read \in VirtScreen /\ read.elements = q /\ read.bad = w.bad /\ read.y = w.y
          /\ read.top = w.top /\ read.bottom = w.bottom
        BY <1>2, <2>1, <2>2 DEF VirtScreen
    <2>. QED
        BY <1>2, <2>3 DEF Keeps, Sound, Whole
<1>4. special_reading_ansi(w, ch) = IF ch \in {"semicolon", "?"} THEN read
                                    ELSE [Interpret(read, ch) EXCEPT !.mode = "char"]
    BY <1>1 DEF special_reading_ansi, VirtScreen, q
<1>. HIDE DEF read
<1>5. CASE ch \in {"semicolon", "?"}
    BY <1>3, <1>4, <1>5 DEF Keeps
<1>6. CASE ch \in Final \ {"?", "r", "P"}
    <2>1. Keeps(read, Interpret(read, ch))
        BY <1>3, <1>6, CommandKeeps DEF Keeps
    <2>2. Keeps(w, [Interpret(read, ch) EXCEPT !.mode = "char"])
        BY <2>1, <1>3, Composed, InMode DEF Mode
    <2>3. ch \notin {"semicolon", "?"}
        BY <1>6 DEF Final
    <2>. QED
        BY <1>4, <2>2, <2>3 DEF Keeps
<1>7. CASE ch = "r"
    <2>. DEFINE u == ScrollRegion(read)
                t == [u EXCEPT !.mode = "char"]
    <2>1. Sound(u) /\ u.bad = read.bad
        BY <1>3, RegionKeeps DEF Keeps
    <2>2. special_reading_ansi(w, ch) = t
        BY <1>4, <1>7 DEF Interpret
    <2>. HIDE DEF u
    <2>3. Sound(t) /\ t.bad = u.bad /\ t.top = u.top /\ t.bottom = u.bottom
        BY <2>1 DEF Sound, VirtScreen, Mode
    <2>. HIDE DEF t
    <2>4. t.top \in Int /\ t.bottom \in Int
        <3>1. t.top \in 0..MaxInt /\ t.bottom \in (-MaxInt - 1)..Rows
            BY <2>3 DEF Sound, VirtScreen
        <3>. QED
            BY <3>1, VtAssumption
    <2>5. Whole(w) /\ ~Misleads(t, ch) => Whole(t)
        BY <1>3, <2>1, <2>3, <2>4 DEF Whole, Misleads
    <2>. QED
        BY <2>2, <2>3, <2>5
<1>8. CASE ch = "P"
    <2>. DEFINE n == Element(read, 1, 1)
                u == delete_chars_in_line(read, n)
                t == [u EXCEPT !.mode = "char"]
    <2>1. n \in Ints
        BY <1>3, NumberRead, VtAssumption DEF Keeps
    <2>2. special_reading_ansi(w, ch) = t
        BY <1>4, <1>8 DEF Interpret
    <2>. HIDE DEF n
    <2>3. Sound(u) /\ u.elements = read.elements /\ (n \in 0..(MaxInt - Cols) => Keeps(read, u))
        BY <1>3, <2>1, DeleteCharsKeeps DEF Keeps
    <2>. HIDE DEF u
    <2>4. Sound(t) /\ t.bad = u.bad /\ t.top = u.top /\ t.bottom = u.bottom /\ t.elements = read.elements
        BY <2>3 DEF Sound, VirtScreen, Mode
    <2>5. Element(t, 1, 1) = n
        BY <2>4 DEF Element, n
    <2>6. Whole(w) /\ ~Misleads(t, ch) => Whole(t)
        BY <1>3, <1>8, <2>3, <2>4, <2>5 DEF Whole, Keeps, Misleads
    <2>. QED
        BY <2>2, <2>4, <2>6
<1>. QED
    BY <1>5, <1>6, <1>7, <1>8

LEMMA VtStarts == VtInit => VInv
<1>. SUFFICES ASSUME VtInit PROVE VInv
    OBVIOUS
<1>1. Rows \in Nat \ {0} /\ Cols \in Nat \ {0} /\ MaxInt \in Nat /\ <<>> \in Seq(Ints)
      /\ Len(<<>>) = 0 /\ 0 \in 0..Cols - 1 /\ 0 \in 0..Rows - 1 /\ Rows \in (-MaxInt - 1)..Rows
      /\ 0 \in Ints /\ 0 \in 0..MaxInt /\ 0 < Rows
    BY VtAssumption DEF Ints
<1>2. v \in VirtScreen
    BY <1>1 DEF VtInit, VirtScreen, Mode
<1>3. Len(v.elements) <= MAX_ANSI_ELEMENTS /\ Whole(v)
    BY <1>1, VtAssumption DEF VtInit, Whole
<1>. QED
    BY <1>2, <1>3 DEF VtInit, VInv, Sound

LEMMA VtStep == VInv /\ [VtNext]_vtVars => VInv'
<1>. SUFFICES ASSUME VInv, [VtNext]_vtVars PROVE VInv'
    OBVIOUS
<1>1. Sound(v) /\ v \in VirtScreen
    BY DEF VInv, Sound
<1>2. ASSUME Keeps(v, v'), UNCHANGED misled PROVE VInv'
    BY <1>2 DEF VInv, Keeps, Sound, Whole
<1>3. CASE ~v.bad /\ Char
    BY <1>1, <1>2, <1>3, CharKeeps DEF Char
<1>4. CASE ~v.bad /\ Ansi
    BY <1>1, <1>2, <1>4, AnsiKeeps DEF Ansi
<1>5. CASE ~v.bad /\ Charset
    BY <1>1, <1>2, <1>5, ModeKeeps DEF Charset, Mode
<1>6. CASE ~v.bad /\ CsiDigit
    <2>1. PICK d \in Digits : v' = Digit(v, d)
        BY <1>6 DEF CsiDigit
    <2>. DEFINE k == Wrap(10 * v.number + d)
    <2>2. v.number \in Int /\ d \in Int
        BY <1>1, VtAssumption DEF VirtScreen, Ints
    <2>3. 10 * v.number + d \in Int
        BY <2>2
    <2>5. k \in Ints
        BY <2>3, Wrapped
    <2>4. v' = [v EXCEPT !.number = k, !.reading = TRUE]
        BY <1>1, <2>1 DEF Digit, VirtScreen
    <2>. HIDE DEF k
    <2>6. v' \in VirtScreen /\ v'.elements = v.elements /\ v'.bad = v.bad /\ v'.y = v.y
          /\ v'.top = v.top /\ v'.bottom = v.bottom
        BY <1>1, <2>4, <2>5 DEF VirtScreen
    <2>7. Keeps(v, v')
        BY <1>1, <2>6 DEF Keeps, Sound, Whole
    <2>. QED
        BY <1>2, <1>6, <2>7 DEF CsiDigit
<1>7. CASE ~v.bad /\ Csi
    <2>1. PICK ch \in Final \cup {"semicolon"} :
             v' = special_reading_ansi(v, ch) /\ misled' = (misled \/ Misleads(v', ch))
        BY <1>7 DEF Csi
    <2>2. Sound(v') /\ (Whole(v) /\ ~Misleads(v', ch) => Whole(v'))
        BY <1>1, <2>1, CsiKeeps
    <2>3. Misleads(v', ch) \in BOOLEAN
        BY DEF Misleads
    <2>4. misled' \in BOOLEAN /\ (~misled' => Whole(v'))
        BY <2>1, <2>2, <2>3 DEF VInv
    <2>. QED
        BY <2>2, <2>4 DEF VInv, Sound, Whole
<1>8. CASE UNCHANGED vtVars
    BY <1>8 DEF vtVars, VInv, Sound, Whole
<1>. QED
    BY <1>3, <1>4, <1>5, <1>6, <1>7, <1>8 DEF VtNext

LEMMA VtFollows == VInv => TerminalInside
<1>. SUFFICES ASSUME VInv PROVE TerminalInside
    OBVIOUS
<1>1. v \in VirtScreen /\ Len(v.elements) <= MAX_ANSI_ELEMENTS
    BY DEF VInv, Sound
<1>2. VtTypeOK
    BY <1>1, VtAssumption DEF VtTypeOK, VirtScreen
<1>3. WritesInside
    BY DEF WritesInside, VInv, Whole
<1>. QED
    BY <1>2, <1>3 DEF TerminalInside

\* Whatever is printed, however large the screen and however wide an int: the
\* terminal of vt100.c keeps its cursor on the screen and its states, and it writes
\* outside of the screen's memory only after a program misled it by a scroll region
\* without a line or a number of characters to delete that wraps.
THEOREM VtSafe == VtSpec => []TerminalInside
<1>1. VtSpec => []VInv
    BY VtStarts, VtStep, PTL DEF VtSpec
<1>. QED
    BY <1>1, VtFollows, PTL

-----------------------------------------------------------------------------
(* The namer and who calls it: every port has one owner, a program that waits *)
(* has one question or answer of its own under way, and a name leads to one    *)
(* port.                                                                       *)

Conn == [kind : {"service", "client"}, name : Name \cup {"namer"}, local : PortId, remote : Int]
Prog == [pc : {"idle", "connect", "send", "wait", "register", "find"},
         op : {"register", "find"}, name : Name \cup {"namer"},
         local : PortId \cup {Gone}, call : PortId \cup {Gone}, res : Int,
         conns : Seq(Conn)]

NamerTypes ==
    /\ entries \in Seq([name : Name \cup {"namer"}, port : PortId])
    /\ prog \in [Program -> Prog]
    /\ queue[NAMER_PORT] \in Seq([op : {"register", "find"}, name : Name \cup {"namer"},
                                  port : PortId \cup {Gone}, src : PortId, by : Program])
    /\ \A p \in PortId \ {NAMER_PORT} : queue[p] \in Seq([res : Int, by : Program])
    /\ DOMAIN queue = PortId
    /\ namer.pc \in {"recv", "reply", "send", "close"}
    /\ namer.pc \in {"reply", "send"} => namer.by \in Program /\ namer.to \in PortId /\ namer.res \in Int
    /\ namer.pc \in {"send", "close"} => namer.port \in PortId

\* The ports of one program are of different connections, and are there as long as its
\* call needs them.
Held(r) == {p \in PortId : p = r.local \/ p = r.call \/ \E i \in DOMAIN r.conns : p = r.conns[i].local}
Apart(r) ==
    /\ r.local # Gone => r.local # r.call
    /\ \A i, j \in DOMAIN r.conns : r.conns[i].local = r.conns[j].local => i = j
    /\ \A i \in DOMAIN r.conns : r.conns[i].local \notin {r.local, r.call}
    /\ r.call # Gone <=> r.pc \in {"send", "wait"}
    /\ r.local # Gone <=> r.op = "register" /\ r.pc # "idle"
    /\ r.pc = "register" => r.op = "register"
    /\ r.pc = "find" => r.op = "find"
Namers == IF namer.pc \in {"send", "close"} THEN {namer.port} ELSE {}

Accounts(pl, own, m) ==
    /\ pl \in Seq(PortId)
    /\ \A i, j \in DOMAIN pl : pl[i] = pl[j] => i = j
    /\ DOMAIN own = Program
    /\ \A c, d \in Program : c # d => own[c] \cap own[d] = {}
    /\ \A c \in Program : own[c] \cap m = {}
    /\ \A p \in PortId : (\E i \in DOMAIN pl : pl[i] = p)
                         <=> p # NAMER_PORT /\ p \notin m /\ \A c \in Program : p \notin own[c]
    /\ NAMER_PORT \notin m /\ \A c \in Program : NAMER_PORT \notin own[c]
Owning == [c \in Program |-> Held(prog[c])]

\* What the namer keeps of a name.
BoundIn(es, n, p) == \E i \in DOMAIN es : es[i].name = n /\ es[i].port = p
Bound(n, p) == BoundIn(entries, n, p)

\* What a waiting program is told, or was.
Rightly(c, res) == prog[c].op = "register" /\ res = 0 => Bound(prog[c].name, prog[c].local)

Questions ==
    /\ \A i, j \in DOMAIN queue[NAMER_PORT] : queue[NAMER_PORT][i].by = queue[NAMER_PORT][j].by => i = j
    /\ \A i \in DOMAIN queue[NAMER_PORT] :
         LET q == queue[NAMER_PORT][i]
         IN  /\ prog[q.by].pc = "wait" /\ q.op = prog[q.by].op /\ q.name = prog[q.by].name
             /\ q.port = prog[q.by].local /\ q.src = prog[q.by].call
             /\ ~Handles(q.by) /\ ~Heard(q.by)

InHand ==
    namer.pc \in {"reply", "send"} =>
        /\ prog[namer.by].pc = "wait" /\ namer.to = prog[namer.by].call
        /\ ~Heard(namer.by) /\ Rightly(namer.by, namer.res)

Answers ==
    /\ \A p \in PortId \ {NAMER_PORT} : queue[p] # <<>> =>
         \E c \in Program : prog[c].pc = "wait" /\ prog[c].call = p
    /\ \A c \in Program : prog[c].pc = "wait" =>
         /\ Asks(c) \/ Handles(c) \/ Heard(c)
         /\ Len(queue[prog[c].call]) <= 1
         /\ Heard(c) => LET a == queue[prog[c].call][1] IN a.by = c /\ Rightly(c, a.res)

Bindings ==
    /\ \A i, j \in DOMAIN entries : entries[i].name = entries[j].name => i = j
    /\ \A c \in Program : prog[c].pc = "register" => Rightly(c, prog[c].res)
    /\ \A c \in Program : \A i \in DOMAIN prog[c].conns :
         prog[c].conns[i].kind = "service" => Bound(prog[c].conns[i].name, prog[c].conns[i].local)

\* CallsFit is not inductive: an answer fits only because the question that is on its way
\* is still the one the program asked, at a port that was nobody's before.
NamerInv ==
    /\ NamerTypes
    /\ \A c \in Program : Apart(prog[c])
    /\ Accounts(pool, Owning, Namers)
    /\ Questions /\ InHand /\ Answers /\ Bindings

-----------------------------------------------------------------------------
\* Taking the next free port, and giving one back, on sequences without repetition.
LEMMA TailIs ==
    ASSUME NEW S, NEW q \in Seq(S), q # <<>>
    PROVE  /\ Tail(q) \in Seq(S) /\ Head(q) = q[1] /\ Head(q) \in S /\ 1 \in DOMAIN q
           /\ \A i \in DOMAIN Tail(q) : i + 1 \in DOMAIN q /\ i + 1 # 1 /\ Tail(q)[i] = q[i + 1]
           /\ \A i \in DOMAIN q : i = 1 \/ (i - 1 \in DOMAIN Tail(q) /\ Tail(q)[i - 1] = q[i])
           /\ \A i, j \in DOMAIN Tail(q) : i + 1 = j + 1 => i = j
<1>. DEFINE t == Tail(q)
<1>1. Len(q) \in Nat \ {0} /\ DOMAIN q = 1..Len(q) /\ Head(q) = q[1] /\ 1 \in DOMAIN q /\ q[1] \in S
    OBVIOUS
<1>2. t \in Seq(S) /\ Len(t) = Len(q) - 1 /\ DOMAIN t = 1..Len(q) - 1
      /\ \A i \in 1..Len(q) - 1 : t[i] = q[i + 1]
    BY <1>1
<1>. HIDE DEF t
<1>3. \A i \in DOMAIN q : i = 1 \/ (i - 1 \in DOMAIN t /\ t[i - 1] = q[i])
    BY <1>1, <1>2
<1>4. \A i \in DOMAIN t : i + 1 \in DOMAIN q /\ i + 1 # 1 /\ t[i] = q[i + 1]
    BY <1>1, <1>2
<1>5. \A i, j \in DOMAIN t : i + 1 = j + 1 => i = j
    BY <1>2
<1>. QED
    BY <1>1, <1>2, <1>3, <1>4, <1>5 DEF t

LEMMA FrontIs ==
    ASSUME NEW S, NEW q \in Seq(S), NEW e \in S
    PROVE  /\ <<e>> \o q \in Seq(S) /\ 1 \in DOMAIN (<<e>> \o q) /\ (<<e>> \o q)[1] = e
           /\ \A i \in DOMAIN (<<e>> \o q) : i = 1 \/ (i - 1 \in DOMAIN q /\ (<<e>> \o q)[i] = q[i - 1])
           /\ \A i \in DOMAIN q : i + 1 \in DOMAIN (<<e>> \o q) /\ (<<e>> \o q)[i + 1] = q[i]
           /\ \A i, j \in DOMAIN (<<e>> \o q) : i - 1 = j - 1 => i = j
<1>. DEFINE one == <<e>>
            w == one \o q
<1>1. one \in Seq(S) /\ Len(one) = 1 /\ one[1] = e
    OBVIOUS
<1>. HIDE DEF one
<1>2. Len(q) \in Nat /\ DOMAIN q = 1..Len(q)
    OBVIOUS
<1>3. w \in Seq(S) /\ Len(w) = Len(q) + 1 /\ DOMAIN w = 1..Len(q) + 1
      /\ \A i \in 1..Len(q) + 1 : w[i] = IF i <= 1 THEN one[i] ELSE q[i - 1]
    <2>1. w \in Seq(S) /\ Len(w) = Len(one) + Len(q)
          /\ \A i \in 1..Len(one) + Len(q) : w[i] = IF i <= Len(one) THEN one[i] ELSE q[i - Len(one)]
        BY <1>1, ConcatProperties
    <2>2. Len(w) = Len(q) + 1 /\ 1 + Len(q) = Len(q) + 1
        BY <1>1, <1>2, <2>1
    <2>3. DOMAIN w = 1..Len(w)
        BY <2>1
    <2>. QED
        BY <1>1, <2>1, <2>2, <2>3
<1>4. w[1] = e /\ 1 \in DOMAIN w
    BY <1>1, <1>2, <1>3
<1>5. \A i \in DOMAIN w : i = 1 \/ (i - 1 \in DOMAIN q /\ w[i] = q[i - 1])
    BY <1>2, <1>3
<1>6. \A i \in DOMAIN q : i + 1 \in DOMAIN w /\ w[i + 1] = q[i]
    BY <1>2, <1>3
<1>7. \A i, j \in DOMAIN w : i - 1 = j - 1 => i = j
    BY <1>2, <1>3
<1>. HIDE DEF w
<1>. QED
    BY <1>3, <1>4, <1>5, <1>6, <1>7 DEF w, one

\* Taking the next free port, and giving one back.
LEMMA TakeFirst ==
    ASSUME NEW pl \in Seq(PortId), pl # <<>>, \A i, j \in DOMAIN pl : pl[i] = pl[j] => i = j
    PROVE  /\ Tail(pl) \in Seq(PortId) /\ Head(pl) \in PortId
           /\ \A i, j \in DOMAIN Tail(pl) : Tail(pl)[i] = Tail(pl)[j] => i = j
           /\ \E i \in DOMAIN pl : pl[i] = Head(pl)
           /\ \A p : (\E i \in DOMAIN Tail(pl) : Tail(pl)[i] = p)
                     <=> (\E i \in DOMAIN pl : pl[i] = p) /\ p # Head(pl)
<1>. DEFINE t == Tail(pl)
<1>1. /\ t \in Seq(PortId) /\ Head(pl) = pl[1] /\ Head(pl) \in PortId /\ 1 \in DOMAIN pl
      /\ \A i \in DOMAIN t : i + 1 \in DOMAIN pl /\ i + 1 # 1 /\ t[i] = pl[i + 1]
      /\ \A i \in DOMAIN pl : i = 1 \/ (i - 1 \in DOMAIN t /\ t[i - 1] = pl[i])
      /\ \A i, j \in DOMAIN t : i + 1 = j + 1 => i = j
    BY TailIs
<1>. HIDE DEF t
<1>2. \A i, j \in DOMAIN t : t[i] = t[j] => i = j
    <2>1. SUFFICES ASSUME NEW i \in DOMAIN t, NEW j \in DOMAIN t, t[i] = t[j] PROVE i = j
        OBVIOUS
    <2>2. i + 1 = j + 1
        BY <1>1, <2>1
    <2>. QED
        BY <1>1, <2>2
<1>3. \A p : (\E i \in DOMAIN t : t[i] = p) <=> (\E i \in DOMAIN pl : pl[i] = p) /\ p # Head(pl)
    <2>1. \A i \in DOMAIN t : t[i] # Head(pl)
        BY <1>1
    <2>2. \A p : (\E i \in DOMAIN pl : pl[i] = p) => p = Head(pl) \/ \E i \in DOMAIN t : t[i] = p
        BY <1>1
    <2>3. \A i \in DOMAIN t : \E j \in DOMAIN pl : pl[j] = t[i]
        BY <1>1
    <2>4. \A p : (\E i \in DOMAIN t : t[i] = p) => (\E i \in DOMAIN pl : pl[i] = p) /\ p # Head(pl)
        BY <2>1, <2>3
    <2>. QED
        BY <2>2, <2>4
<1>. QED
    BY <1>1, <1>2, <1>3 DEF t

LEMMA PutFirst ==
    ASSUME NEW pl \in Seq(PortId), NEW p \in PortId,
           \A i, j \in DOMAIN pl : pl[i] = pl[j] => i = j, \A i \in DOMAIN pl : pl[i] # p
    PROVE  /\ <<p>> \o pl \in Seq(PortId)
           /\ \A i, j \in DOMAIN (<<p>> \o pl) : (<<p>> \o pl)[i] = (<<p>> \o pl)[j] => i = j
           /\ \A x : (\E i \in DOMAIN (<<p>> \o pl) : (<<p>> \o pl)[i] = x)
                     <=> x = p \/ \E i \in DOMAIN pl : pl[i] = x
<1>. DEFINE w == <<p>> \o pl
<1>1. /\ w \in Seq(PortId) /\ 1 \in DOMAIN w /\ w[1] = p
      /\ \A i \in DOMAIN w : i = 1 \/ (i - 1 \in DOMAIN pl /\ w[i] = pl[i - 1])
      /\ \A i \in DOMAIN pl : i + 1 \in DOMAIN w /\ w[i + 1] = pl[i]
      /\ \A i, j \in DOMAIN w : i - 1 = j - 1 => i = j
    BY FrontIs
<1>. HIDE DEF w
<1>2. \A i, j \in DOMAIN w : w[i] = w[j] => i = j
    BY <1>1
<1>3. \A x : (\E i \in DOMAIN w : w[i] = x) <=> x = p \/ \E i \in DOMAIN pl : pl[i] = x
    BY <1>1
<1>. QED
    BY <1>1, <1>2, <1>3 DEF w

\* The accounts of a port that a program, or the namer, takes or gives back.
LEMMA ProgramTakes ==
    ASSUME NEW pl, NEW own, NEW m, Accounts(pl, own, m), pl # <<>>, NEW c \in Program,
           NEW o2, DOMAIN o2 = Program, o2[c] = own[c] \cup {Head(pl)},
           \A d \in Program : d # c => o2[d] = own[d]
    PROVE  /\ Accounts(Tail(pl), o2, m)
           /\ Head(pl) \in PortId \ {NAMER_PORT} /\ \A d \in Program : Head(pl) \notin own[d]
<1>. DEFINE t == Tail(pl)
            h == Head(pl)
<1>1. /\ t \in Seq(PortId) /\ h \in PortId
      /\ \A i, j \in DOMAIN t : t[i] = t[j] => i = j
      /\ \E i \in DOMAIN pl : pl[i] = h
      /\ \A p : (\E i \in DOMAIN t : t[i] = p) <=> (\E i \in DOMAIN pl : pl[i] = p) /\ p # h
    BY TakeFirst DEF Accounts
<1>. HIDE DEF t, h
<1>2. h # NAMER_PORT /\ h \notin m /\ \A d \in Program : h \notin own[d]
    BY <1>1 DEF Accounts
<1>3. \A d, e \in Program : d # e => o2[d] \cap o2[e] = {}
    BY <1>2 DEF Accounts, h
<1>4. \A d \in Program : o2[d] \cap m = {} /\ NAMER_PORT \notin o2[d]
    BY <1>2 DEF Accounts, h
<1>5. \A p \in PortId : (\E i \in DOMAIN t : t[i] = p)
                         <=> p # NAMER_PORT /\ p \notin m /\ \A d \in Program : p \notin o2[d]
    <2>1. \A p : (\A d \in Program : p \notin o2[d]) <=> p # h /\ \A d \in Program : p \notin own[d]
        BY DEF h
    <2>. QED
        BY <1>1, <2>1 DEF Accounts
<1>6. NAMER_PORT \notin m
    BY DEF Accounts
<1>7. Accounts(t, o2, m)
    BY <1>1, <1>3, <1>4, <1>5, <1>6 DEF Accounts
<1>. QED
    BY <1>1, <1>2, <1>7 DEF t, h

LEMMA ProgramGives ==
    ASSUME NEW pl, NEW own, NEW m, Accounts(pl, own, m), NEW c \in Program,
           NEW p \in PortId, p \in own[c],
           NEW o2, DOMAIN o2 = Program, o2[c] = own[c] \ {p},
           \A d \in Program : d # c => o2[d] = own[d]
    PROVE  /\ Accounts(<<p>> \o pl, o2, m)
           /\ p # NAMER_PORT
<1>. DEFINE w == <<p>> \o pl
<1>1. p # NAMER_PORT /\ p \notin m /\ \A d \in Program : d # c => p \notin own[d]
    BY DEF Accounts
<1>2. \A i \in DOMAIN pl : pl[i] # p
    BY DEF Accounts
<1>3. /\ w \in Seq(PortId)
      /\ \A i, j \in DOMAIN w : w[i] = w[j] => i = j
      /\ \A x : (\E i \in DOMAIN w : w[i] = x) <=> x = p \/ \E i \in DOMAIN pl : pl[i] = x
    BY <1>2, PutFirst DEF Accounts
<1>. HIDE DEF w
<1>4. \A d, e \in Program : d # e => o2[d] \cap o2[e] = {}
    BY DEF Accounts
<1>5. \A d \in Program : o2[d] \cap m = {} /\ NAMER_PORT \notin o2[d]
    BY DEF Accounts
<1>6. \A x \in PortId : (\E i \in DOMAIN w : w[i] = x)
                         <=> x # NAMER_PORT /\ x \notin m /\ \A d \in Program : x \notin o2[d]
    <2>1. \A x : (\A d \in Program : x \notin o2[d]) <=> x = p \/ \A d \in Program : x \notin own[d]
        BY <1>1
    <2>. QED
        BY <1>1, <1>3, <2>1 DEF Accounts
<1>7. Accounts(w, o2, m)
    BY <1>3, <1>4, <1>5, <1>6 DEF Accounts
<1>. QED
    BY <1>1, <1>7 DEF w

LEMMA NamerTakes ==
    ASSUME NEW pl, NEW own, Accounts(pl, own, {}), pl # <<>>
    PROVE  Accounts(Tail(pl), own, {Head(pl)}) /\ Head(pl) \in PortId
<1>. DEFINE t == Tail(pl)
            h == Head(pl)
<1>1. /\ t \in Seq(PortId) /\ h \in PortId
      /\ \A i, j \in DOMAIN t : t[i] = t[j] => i = j
      /\ \E i \in DOMAIN pl : pl[i] = h
      /\ \A p : (\E i \in DOMAIN t : t[i] = p) <=> (\E i \in DOMAIN pl : pl[i] = p) /\ p # h
    BY TakeFirst DEF Accounts
<1>. HIDE DEF t, h
<1>2. h # NAMER_PORT /\ \A d \in Program : h \notin own[d]
    BY <1>1 DEF Accounts
<1>4. DOMAIN own = Program /\ (\A d, e \in Program : d # e => own[d] \cap own[e] = {})
      /\ \A d \in Program : NAMER_PORT \notin own[d]
    BY DEF Accounts
<1>5. (\A d \in Program : own[d] \cap {h} = {}) /\ NAMER_PORT \notin {h}
    BY <1>2
<1>6. \A p \in PortId : (\E i \in DOMAIN t : t[i] = p)
                         <=> p # NAMER_PORT /\ p \notin {h} /\ \A d \in Program : p \notin own[d]
    BY <1>1 DEF Accounts
<1>3. Accounts(t, own, {h})
    BY <1>1, <1>4, <1>5, <1>6 DEF Accounts
<1>. QED
    BY <1>1, <1>3 DEF t, h

LEMMA NamerGives ==
    ASSUME NEW pl, NEW own, NEW p \in PortId, Accounts(pl, own, {p})
    PROVE  Accounts(<<p>> \o pl, own, {}) /\ p # NAMER_PORT /\ \A d \in Program : p \notin own[d]
<1>. DEFINE w == <<p>> \o pl
<1>1. p # NAMER_PORT /\ \A d \in Program : p \notin own[d]
    BY DEF Accounts
<1>2. \A i \in DOMAIN pl : pl[i] # p
    BY DEF Accounts
<1>3. /\ w \in Seq(PortId)
      /\ \A i, j \in DOMAIN w : w[i] = w[j] => i = j
      /\ \A x : (\E i \in DOMAIN w : w[i] = x) <=> x = p \/ \E i \in DOMAIN pl : pl[i] = x
    BY <1>2, PutFirst DEF Accounts
<1>. HIDE DEF w
<1>5. DOMAIN own = Program /\ (\A d, e \in Program : d # e => own[d] \cap own[e] = {})
      /\ \A d \in Program : NAMER_PORT \notin own[d]
    BY DEF Accounts
<1>6. (\A d \in Program : own[d] \cap {} = {}) /\ NAMER_PORT \notin {}
    OBVIOUS
<1>7. \A x \in PortId : (\E i \in DOMAIN w : w[i] = x)
                         <=> x # NAMER_PORT /\ x \notin {} /\ \A d \in Program : x \notin own[d]
    <2>1. \A x \in PortId : (\E i \in DOMAIN pl : pl[i] = x)
                         <=> x # NAMER_PORT /\ x # p /\ \A d \in Program : x \notin own[d]
        BY DEF Accounts
    <2>2. \A x \in PortId : (\E i \in DOMAIN w : w[i] = x)
                         <=> x # NAMER_PORT /\ \A d \in Program : x \notin own[d]
        <3>1. SUFFICES ASSUME NEW x \in PortId
              PROVE  (\E i \in DOMAIN w : w[i] = x)
                     <=> x # NAMER_PORT /\ \A d \in Program : x \notin own[d]
            OBVIOUS
        <3>2. (\E i \in DOMAIN w : w[i] = x) <=> x = p \/ \E i \in DOMAIN pl : pl[i] = x
            BY <1>3
        <3>3. CASE x = p
            BY <3>2, <3>3, <1>1
        <3>4. CASE x # p
            BY <3>2, <3>4, <2>1
        <3>. QED
            BY <3>3, <3>4
    <2>. QED
        BY <2>2
<1>4. Accounts(w, own, {})
    BY <1>3, <1>5, <1>6, <1>7 DEF Accounts
<1>. QED
    BY <1>1, <1>4 DEF w

-----------------------------------------------------------------------------
LEMMA QueueIs ==
    ASSUME NamerTypes
    PROVE  /\ Len(queue[NAMER_PORT]) \in Nat /\ DOMAIN queue[NAMER_PORT] = 1..Len(queue[NAMER_PORT])
           /\ \A i \in DOMAIN queue[NAMER_PORT] :
                LET q == queue[NAMER_PORT][i]
                IN  /\ q.op \in {"register", "find"} /\ q.name \in Name \cup {"namer"}
                    /\ q.port \in PortId \cup {Gone} /\ q.src \in PortId /\ q.by \in Program
<1>. DEFINE Q == [op : {"register", "find"}, name : Name \cup {"namer"},
                  port : PortId \cup {Gone}, src : PortId, by : Program]
            w == queue[NAMER_PORT]
<1>1. w \in Seq(Q)
    BY DEF NamerTypes
<1>2. \A q \in Q : /\ q.op \in {"register", "find"} /\ q.name \in Name \cup {"namer"}
                    /\ q.port \in PortId \cup {Gone} /\ q.src \in PortId /\ q.by \in Program
    OBVIOUS
<1>. HIDE DEF Q, w
<1>3. Len(w) \in Nat /\ DOMAIN w = 1..Len(w) /\ \A i \in DOMAIN w : w[i] \in Q
    BY <1>1
<1>. QED
    BY <1>2, <1>3 DEF w

LEMMA StepIs ==
    ASSUME NamerTypes, NEW c \in Program, NEW r, Step(c, r)
    PROVE  /\ prog'[c] = r /\ \A d \in Program : d # c => prog'[d] = prog[d]
           /\ r \in Prog => prog' \in [Program -> Prog]
BY DEF NamerTypes, Step

\* The accounts of a step of one program.
LEMMA StepTakes ==
    ASSUME NamerInv, NEW c \in Program, NEW r, Step(c, r), NEW p, PortCreate(p), namer' = namer,
           Held(r) = Held(prog[c]) \cup {p}
    PROVE  Accounts(pool, Owning, Namers)' /\ p \in PortId \ {NAMER_PORT}
           /\ \A d \in Program : p \notin Held(prog[d])
<1>1. NamerTypes /\ Accounts(pool, Owning, Namers)
    BY DEF NamerInv
<1>2. prog'[c] = r /\ \A d \in Program : d # c => prog'[d] = prog[d]
    BY <1>1, StepIs
<1>. DEFINE o2 == [d \in Program |-> Held(prog'[d])]
<1>3. DOMAIN o2 = Program /\ o2[c] = Owning[c] \cup {Head(pool)}
      /\ \A d \in Program : d # c => o2[d] = Owning[d]
    BY <1>2 DEF Owning, PortCreate
<1>4. pool # <<>> /\ p = Head(pool) /\ pool' = Tail(pool)
    BY DEF PortCreate
<1>5. \A d \in Program : Owning[d] = Held(prog[d])
    BY DEF Owning
<1>6. Owning' = o2 /\ Namers' = Namers
    BY DEF Owning, Namers
<1>. HIDE DEF o2
<1>7. /\ Accounts(Tail(pool), o2, Namers)
      /\ Head(pool) \in PortId \ {NAMER_PORT} /\ \A d \in Program : Head(pool) \notin Owning[d]
    BY <1>1, <1>3, <1>4, ProgramTakes
<1>8. Accounts(pool', Owning', Namers')
    BY <1>4, <1>6, <1>7
<1>. QED
    BY <1>4, <1>5, <1>7, <1>8 DEF Accounts

LEMMA StepGives ==
    ASSUME NamerInv, NEW c \in Program, NEW r, Step(c, r), NEW p, PortDestroy(p), namer' = namer,
           p \in Held(prog[c]), Held(r) = Held(prog[c]) \ {p}
    PROVE  Accounts(pool, Owning, Namers)' /\ p \in PortId \ {NAMER_PORT}
           /\ \A d \in Program : d # c => p \notin Held(prog[d])
<1>1. NamerTypes /\ Accounts(pool, Owning, Namers)
    BY DEF NamerInv
<1>2. prog'[c] = r /\ \A d \in Program : d # c => prog'[d] = prog[d]
    BY <1>1, StepIs
<1>. DEFINE o2 == [d \in Program |-> Held(prog'[d])]
<1>3. DOMAIN o2 = Program /\ o2[c] = Owning[c] \ {p} /\ p \in Owning[c]
      /\ \A d \in Program : d # c => o2[d] = Owning[d]
    BY <1>2 DEF Owning
<1>4. pool' = <<p>> \o pool /\ p \in PortId
    BY DEF PortDestroy, Held
<1>5. \A d \in Program : Owning[d] = Held(prog[d])
    BY DEF Owning
<1>6. Owning' = o2 /\ Namers' = Namers
    BY DEF Owning, Namers
<1>. HIDE DEF o2
<1>7. Accounts(<<p>> \o pool, o2, Namers) /\ p # NAMER_PORT
    BY <1>1, <1>3, <1>4, ProgramGives
<1>8. Accounts(pool', Owning', Namers')
    BY <1>4, <1>6, <1>7
<1>9. \A d \in Program : d # c => Owning[c] \cap Owning[d] = {}
    BY <1>1 DEF Accounts
<1>. QED
    BY <1>3, <1>4, <1>5, <1>7, <1>8, <1>9 DEF Accounts

LEMMA StepOwnsSame ==
    ASSUME NamerInv, NEW c \in Program, NEW r, Step(c, r), pool' = pool, Namers' = Namers,
           Held(r) = Held(prog[c])
    PROVE  Accounts(pool, Owning, Namers)'
<1>1. NamerTypes /\ Accounts(pool, Owning, Namers)
    BY DEF NamerInv
<1>2. prog'[c] = r /\ \A d \in Program : d # c => prog'[d] = prog[d]
    BY <1>1, StepIs
<1>3. Owning' = Owning
    BY <1>2 DEF Owning
<1>. QED
    BY <1>1, <1>3

\* The messages are as they were for everybody who waits.
SameMail ==
    /\ namer'.pc \in {"reply", "send"} <=> namer.pc \in {"reply", "send"}
    /\ namer.pc \in {"reply", "send"} => namer'.by = namer.by /\ namer'.to = namer.to /\ namer'.res = namer.res
    /\ DOMAIN queue' = DOMAIN queue
    /\ queue'[NAMER_PORT] = queue[NAMER_PORT]
    /\ \A p \in PortId : queue'[p] = queue[p] \/ queue'[p] = <<>>
    /\ \A d \in Program : prog'[d].pc = "wait" <=> prog[d].pc = "wait"
    /\ \A d \in Program : prog[d].pc = "wait" => prog'[d] = prog[d] /\ queue'[prog[d].call] = queue[prog[d].call]
    /\ entries' = entries

LEMMA MailKept ==
    ASSUME NamerInv, SameMail
    PROVE  Questions' /\ InHand' /\ Answers'
<1>1. \A x : \A d \in Program : prog[d].pc = "wait" => (Rightly(d, x)' <=> Rightly(d, x))
    BY DEF SameMail, Rightly, Bound
<1>2. \A d \in Program : Handles(d)' <=> Handles(d)
    BY DEF SameMail, Handles
<1>3. \A d \in Program : Asks(d)' <=> Asks(d)
    BY DEF SameMail, Asks
<1>4. \A d \in Program : prog[d].pc = "wait" => (Heard(d)' <=> Heard(d))
    BY DEF SameMail, Heard
<1>5. \A i \in DOMAIN queue[NAMER_PORT] : queue[NAMER_PORT][i].by \in Program
    BY QueueIs DEF NamerInv
<1>6. Questions'
    BY <1>2, <1>4, <1>5 DEF NamerInv, SameMail, Questions
<1>7. InHand'
    <2>1. SUFFICES ASSUME (namer.pc \in {"reply", "send"})'
          PROVE  (/\ prog[namer.by].pc = "wait" /\ namer.to = prog[namer.by].call
                  /\ ~Heard(namer.by) /\ Rightly(namer.by, namer.res))'
        BY DEF InHand
    <2>2. namer.pc \in {"reply", "send"} /\ namer'.by = namer.by /\ namer'.to = namer.to
          /\ namer'.res = namer.res
        BY <2>1 DEF SameMail
    <2>3. namer.by \in Program /\ prog[namer.by].pc = "wait" /\ namer.to = prog[namer.by].call
          /\ ~Heard(namer.by) /\ Rightly(namer.by, namer.res)
        BY <2>2 DEF NamerInv, InHand, NamerTypes
    <2>4. prog'[namer.by] = prog[namer.by]
        BY <2>3 DEF SameMail
    <2>5. ~Heard(namer.by)' /\ Rightly(namer.by, namer.res)'
        BY <2>2, <2>3, <2>4 DEF SameMail, Heard, Rightly, Bound
    <2>. QED
        BY <2>2, <2>3, <2>4, <2>5 DEF Heard, Rightly
<1>8. Answers'
    <2>1. \A p \in PortId \ {NAMER_PORT} : queue'[p] # <<>> =>
             \E d \in Program : prog'[d].pc = "wait" /\ prog'[d].call = p
        BY DEF NamerInv, Answers, SameMail
    <2>2. ASSUME NEW d \in Program, prog'[d].pc = "wait"
          PROVE  /\ (Asks(d) \/ Handles(d) \/ Heard(d))'
                 /\ Len(queue'[prog'[d].call]) <= 1
                 /\ Heard(d)' => queue'[prog'[d].call][1].by = d /\ Rightly(d, queue[prog[d].call][1].res)'
        <3>1. prog[d].pc = "wait" /\ prog'[d] = prog[d] /\ queue'[prog[d].call] = queue[prog[d].call]
            BY <2>2 DEF SameMail
        <3>2. /\ Asks(d) \/ Handles(d) \/ Heard(d)
              /\ Len(queue[prog[d].call]) <= 1
              /\ Heard(d) => queue[prog[d].call][1].by = d /\ Rightly(d, queue[prog[d].call][1].res)
            BY <3>1 DEF NamerInv, Answers
        <3>3. Rightly(d, queue[prog[d].call][1].res)' <=> Rightly(d, queue[prog[d].call][1].res)
            BY <3>1 DEF SameMail, Rightly, Bound
        <3>. QED
            BY <1>2, <1>3, <1>4, <3>1, <3>2, <3>3
    <2>. QED
        BY <2>1, <2>2 DEF Answers
<1>. QED
    BY <1>6, <1>7, <1>8

LEMMA BindingsKept ==
    ASSUME NamerInv, entries' = entries,
           \A d \in Program : prog'[d].pc = "register" => prog'[d] = prog[d],
           \A d \in Program : \A i \in DOMAIN prog'[d].conns :
               \E j \in DOMAIN prog[d].conns : prog'[d].conns[i] = prog[d].conns[j]
    PROVE  Bindings'
<1>1. \A n, p : Bound(n, p)' <=> Bound(n, p)
    BY DEF Bound, BoundIn
<1>2. \A d \in Program : prog'[d].pc = "register" => Rightly(d, prog[d].res)'
    BY <1>1 DEF NamerInv, Bindings, Rightly
<1>. QED
    BY <1>1, <1>2 DEF NamerInv, Bindings, Bound

\* What the namer and the queues are when nothing is sent.
LEMMA TypesKept ==
    ASSUME NamerTypes, SameMail, prog' \in [Program -> Prog],
           namer' = namer
    PROVE  NamerTypes'
<1>1. \A p \in PortId \ {NAMER_PORT} : queue'[p] \in Seq([res : Int, by : Program])
    <2>1. <<>> \in Seq([res : Int, by : Program])
        OBVIOUS
    <2>. QED
        BY <2>1 DEF NamerTypes, SameMail
<1>. QED
    BY <1>1 DEF NamerTypes, SameMail

-----------------------------------------------------------------------------
LEMMA ProgIs ==
    ASSUME NamerInv, NEW c \in Program
    PROVE  /\ prog[c] \in Prog /\ Apart(prog[c])
           /\ prog[c].call # Gone => prog[c].call \in Held(prog[c])
           /\ prog[c].local # Gone => prog[c].local \in Held(prog[c])
           /\ \A i \in DOMAIN prog[c].conns : prog[c].conns[i].local \in Held(prog[c])
           /\ NAMER_PORT \notin Held(prog[c])
           /\ \A d \in Program : d # c => Held(prog[c]) \cap Held(prog[d]) = {}
<1>1. prog[c] \in Prog /\ Apart(prog[c])
    BY DEF NamerInv, NamerTypes
<1>2. \A d \in Program : Owning[d] = Held(prog[d])
    BY DEF Owning
<1>3. NAMER_PORT \notin Held(prog[c]) /\ \A d \in Program : d # c => Held(prog[c]) \cap Held(prog[d]) = {}
    BY <1>2 DEF NamerInv, Accounts
<1>4. \A i \in DOMAIN prog[c].conns : prog[c].conns[i].local \in PortId
    <2>1. prog[c].conns \in Seq(Conn)
        BY <1>1 DEF Prog
    <2>2. \A i \in DOMAIN prog[c].conns : prog[c].conns[i] \in Conn
        BY <2>1
    <2>. QED
        BY <2>2 DEF Conn
<1>5. prog[c].call \in PortId \cup {Gone} /\ prog[c].local \in PortId \cup {Gone}
    BY <1>1 DEF Prog
<1>. QED
    BY <1>1, <1>3, <1>4, <1>5 DEF Held

LEMMA QuietMail ==
    ASSUME NamerInv, NEW c \in Program, NEW r, Step(c, r), prog[c].pc # "wait", r.pc # "wait",
           entries' = entries, namer' = namer, NEW p \in Held(prog[c]),
           queue' = queue \/ queue' = [queue EXCEPT ![p] = <<>>]
    PROVE  SameMail
<1>1. prog'[c] = r /\ \A d \in Program : d # c => prog'[d] = prog[d]
    BY StepIs DEF NamerInv
<1>2. p # NAMER_PORT /\ p \in PortId
    BY ProgIs DEF Held
<1>3. DOMAIN queue = PortId
    BY DEF NamerInv, NamerTypes
<1>4. DOMAIN queue' = DOMAIN queue /\ \A x \in PortId : queue'[x] = IF x = p THEN queue'[p] ELSE queue[x]
    BY <1>2, <1>3
<1>5. queue'[p] = queue[p] \/ queue'[p] = <<>>
    BY <1>2, <1>3
<1>6. NAMER_PORT \in PortId
    BY NamerAssumption DEF PortId, NAMER_PORT
<1>7. ASSUME NEW d \in Program, prog[d].pc = "wait"
      PROVE  queue'[prog[d].call] = queue[prog[d].call]
    <2>1. prog[d].call # Gone /\ prog[d].call \in Held(prog[d])
        BY <1>7, ProgIs DEF Apart
    <2>2. d # c /\ prog[d].call # p /\ prog[d].call \in PortId
        BY <1>7, <2>1, ProgIs DEF Held
    <2>. QED
        BY <1>4, <2>2
<1>. QED
    BY <1>1, <1>2, <1>4, <1>5, <1>6, <1>7 DEF SameMail

LEMMA SameQueues ==
    ASSUME NamerInv, NEW c \in Program, NEW r, Step(c, r), prog[c].pc # "wait", r.pc # "wait",
           entries' = entries, namer' = namer, queue' = queue
    PROVE  SameMail
BY StepIs DEF NamerInv, SameMail

\* What a program was told of names, as it stands in r.
ToldRight(r) ==
    /\ r.pc = "register" /\ r.res = 0 => Bound(r.name, r.local)
    /\ \A i \in DOMAIN r.conns : r.conns[i].kind = "service" => Bound(r.conns[i].name, r.conns[i].local)

LEMMA BindingsStep ==
    ASSUME NamerInv, NEW c \in Program, NEW r, Step(c, r), entries' = entries, ToldRight(r)
    PROVE  Bindings'
<1>1. prog'[c] = r /\ \A d \in Program : d # c => prog'[d] = prog[d]
    BY StepIs DEF NamerInv
<1>2. \A n, p : Bound(n, p)' <=> Bound(n, p)
    BY DEF Bound, BoundIn
<1>3. ASSUME NEW d \in Program
      PROVE  /\ prog'[d].pc = "register" => Rightly(d, prog[d].res)'
             /\ \A i \in DOMAIN prog'[d].conns : prog'[d].conns[i].kind = "service" =>
                  Bound(prog[d].conns[i].name, prog[d].conns[i].local)'
    <2>1. CASE d = c
        BY <1>1, <1>2, <2>1 DEF ToldRight, Rightly
    <2>2. CASE d # c
        BY <1>1, <1>2, <2>2 DEF NamerInv, Bindings, Rightly
    <2>. QED
        BY <2>1, <2>2
<1>. QED
    BY <1>3 DEF NamerInv, Bindings

LEMMA QuietStep ==
    ASSUME NamerInv, NEW c \in Program, NEW r, Step(c, r), r \in Prog, Apart(r), ToldRight(r),
           SameMail, namer' = namer, Accounts(pool, Owning, Namers)'
    PROVE  NamerInv'
<1>1. NamerTypes'
    BY StepIs, TypesKept DEF NamerInv
<1>2. \A d \in Program : Apart(prog'[d])
    BY StepIs DEF NamerInv
<1>3. Questions' /\ InHand' /\ Answers'
    BY MailKept
<1>4. Bindings'
    BY BindingsStep DEF SameMail
<1>. QED
    BY <1>1, <1>2, <1>3, <1>4 DEF NamerInv

-----------------------------------------------------------------------------
LEMMA CreateServiceKeeps ==
    ASSUME NamerInv, NEW c \in Program, NEW n \in Name, CreateService(c, n)
    PROVE  NamerInv'
<1>1. PICK p \in PortId : PortCreate(p) /\ Step(c, [prog[c] EXCEPT !.pc = "connect", !.op = "register", !.name = n, !.local = p])
    BY DEF CreateService
<1>. DEFINE r == [prog[c] EXCEPT !.pc = "connect", !.op = "register", !.name = n, !.local = p]
<1>2. prog[c].pc = "idle" /\ entries' = entries /\ namer' = namer /\ queue' = queue
    BY DEF CreateService
<1>3. prog[c] \in Prog /\ Apart(prog[c]) /\ p # Gone
    BY ProgIs DEF PortId, Gone
<1>4. r \in Prog /\ r.pc = "connect" /\ r.op = "register" /\ r.local = p /\ r.call = prog[c].call
      /\ r.conns = prog[c].conns
    BY <1>3 DEF Prog
<1>5. Step(c, r)
    BY <1>1
<1>. HIDE DEF r
<1>6. prog[c].local = Gone /\ prog[c].call = Gone
    BY <1>2, <1>3 DEF Apart
<1>7. Held(r) = Held(prog[c]) \cup {p}
    BY <1>4, <1>6 DEF Held, PortId, Gone
<1>8. Accounts(pool, Owning, Namers)' /\ p \notin Held(prog[c])
    BY <1>1, <1>2, <1>5, <1>7, StepTakes
<1>9. \A i \in DOMAIN prog[c].conns : prog[c].conns[i].local \in Held(prog[c])
    BY ProgIs
<1>10. Apart(r)
    BY <1>3, <1>4, <1>6, <1>8, <1>9 DEF Apart
<1>11. ToldRight(r)
    BY <1>4 DEF NamerInv, Bindings, ToldRight
<1>12. SameMail
    BY <1>2, <1>4, <1>5, SameQueues
<1>. QED
    BY <1>2, <1>4, <1>5, <1>8, <1>10, <1>11, <1>12, QuietStep

LEMMA FindServiceKeeps ==
    ASSUME NamerInv, NEW c \in Program, NEW n \in Name, FindService(c, n)
    PROVE  NamerInv'
<1>. DEFINE r == [prog[c] EXCEPT !.pc = "connect", !.op = "find", !.name = n]
<1>2. prog[c].pc = "idle" /\ entries' = entries /\ namer' = namer /\ queue' = queue /\ pool' = pool
      /\ Step(c, r)
    BY DEF FindService
<1>3. prog[c] \in Prog /\ Apart(prog[c])
    BY ProgIs
<1>4. r \in Prog /\ r.pc = "connect" /\ r.op = "find" /\ r.local = prog[c].local /\ r.call = prog[c].call
      /\ r.conns = prog[c].conns
    BY <1>3 DEF Prog
<1>. HIDE DEF r
<1>5. prog[c].local = Gone /\ prog[c].call = Gone
    BY <1>2, <1>3 DEF Apart
<1>6. Held(r) = Held(prog[c])
    BY <1>4 DEF Held
<1>7. Accounts(pool, Owning, Namers)'
    BY <1>2, <1>6, StepOwnsSame DEF Namers
<1>8. Apart(r)
    BY <1>3, <1>4, <1>5 DEF Apart
<1>9. ToldRight(r)
    BY <1>4 DEF NamerInv, Bindings, ToldRight
<1>10. SameMail
    BY <1>2, <1>4, SameQueues
<1>. QED
    BY <1>2, <1>4, <1>7, <1>8, <1>9, <1>10, QuietStep

LEMMA ConnectKeeps ==
    ASSUME NamerInv, NEW c \in Program, Connect(c)
    PROVE  NamerInv'
<1>1. PICK p \in PortId : PortCreate(p) /\ Step(c, [prog[c] EXCEPT !.pc = "send", !.call = p])
    BY DEF Connect
<1>. DEFINE r == [prog[c] EXCEPT !.pc = "send", !.call = p]
<1>2. prog[c].pc = "connect" /\ entries' = entries /\ namer' = namer /\ queue' = queue
    BY DEF Connect
<1>3. prog[c] \in Prog /\ Apart(prog[c]) /\ p # Gone
    BY ProgIs DEF PortId, Gone
<1>4. r \in Prog /\ r.pc = "send" /\ r.op = prog[c].op /\ r.local = prog[c].local /\ r.call = p
      /\ r.conns = prog[c].conns
    BY <1>3 DEF Prog
<1>5. Step(c, r)
    BY <1>1
<1>. HIDE DEF r
<1>6. prog[c].call = Gone
    BY <1>2, <1>3 DEF Apart
<1>7. Held(r) = Held(prog[c]) \cup {p}
    BY <1>4, <1>6 DEF Held, PortId, Gone
<1>8. Accounts(pool, Owning, Namers)' /\ p \notin Held(prog[c])
    BY <1>1, <1>2, <1>5, <1>7, StepTakes
<1>9. (\A i \in DOMAIN prog[c].conns : prog[c].conns[i].local \in Held(prog[c]))
      /\ (prog[c].local # Gone => prog[c].local \in Held(prog[c]))
    BY ProgIs
<1>10. Apart(r)
    BY <1>2, <1>3, <1>4, <1>6, <1>8, <1>9 DEF Apart
<1>11. ToldRight(r)
    BY <1>4 DEF NamerInv, Bindings, ToldRight
<1>12. SameMail
    BY <1>2, <1>4, <1>5, SameQueues
<1>. QED
    BY <1>2, <1>4, <1>5, <1>8, <1>10, <1>11, <1>12, QuietStep

-----------------------------------------------------------------------------
LEMMA AppendIs ==
    ASSUME NEW S, NEW q \in Seq(S), NEW e \in S
    PROVE  /\ Append(q, e) \in Seq(S) /\ Len(Append(q, e)) = Len(q) + 1
           /\ DOMAIN Append(q, e) = DOMAIN q \cup {Len(q) + 1} /\ Len(q) + 1 \notin DOMAIN q
           /\ \A i \in DOMAIN q : Append(q, e)[i] = q[i]
           /\ Append(q, e)[Len(q) + 1] = e
OBVIOUS

\* The end of a call: a connection more.
More(w, e) == [Idle2 EXCEPT !.conns = Append(w.conns, e)]

LEMMA MoreIs ==
    ASSUME NEW w, w \in Prog, NEW e \in Conn, NEW r, r = More(w, e)
    PROVE  /\ r \in Prog /\ r.pc = "idle" /\ r.op = "find" /\ r.local = Gone /\ r.call = Gone
           /\ DOMAIN r.conns = DOMAIN w.conns \cup {Len(w.conns) + 1} /\ Len(w.conns) + 1 \notin DOMAIN w.conns
           /\ \A i \in DOMAIN w.conns : r.conns[i] = w.conns[i]
           /\ r.conns[Len(w.conns) + 1] = e
<1>. DEFINE q == Append(w.conns, e)
<1>1. w.conns \in Seq(Conn)
    BY DEF Prog
<1>2. /\ q \in Seq(Conn)
      /\ DOMAIN q = DOMAIN w.conns \cup {Len(w.conns) + 1} /\ Len(w.conns) + 1 \notin DOMAIN w.conns
      /\ \A i \in DOMAIN w.conns : q[i] = w.conns[i]
      /\ q[Len(w.conns) + 1] = e
    BY <1>1, AppendIs
<1>. HIDE DEF q
<1>3. r = [Idle2 EXCEPT !.conns = q]
    BY DEF q, More
<1>4. \A cs \in Seq(Conn) : [Idle2 EXCEPT !.conns = cs] \in Prog
    BY DEF Prog, Idle2, Gone
<1>5. r \in Prog
    BY <1>2, <1>3, <1>4
<1>6. r.pc = "idle" /\ r.op = "find" /\ r.local = Gone /\ r.call = Gone /\ r.conns = q
    BY <1>3 DEF Idle2
<1>. QED
    BY <1>2, <1>5, <1>6

LEMMA SameConnsIs ==
    ASSUME NEW r, NEW w, w \in Prog, r = [Idle2 EXCEPT !.conns = w.conns]
    PROVE  /\ r \in Prog /\ r.pc = "idle" /\ r.op = "find" /\ r.local = Gone /\ r.call = Gone
           /\ r.conns = w.conns
BY DEF Prog, Idle2, Gone

-----------------------------------------------------------------------------
LEMMA RegisteredKeeps ==
    ASSUME NamerInv, NEW c \in Program, Registered(c)
    PROVE  NamerInv'
<1>. DEFINE o == prog[c]
            p == o.local
            e == [kind |-> "service", name |-> o.name, local |-> p, remote |-> Gone]
<1>1. o.pc = "register" /\ entries' = entries /\ namer' = namer
    BY DEF Registered
<1>2. o \in Prog /\ Apart(o)
    BY ProgIs
<1>3. o.call = Gone /\ p # Gone /\ o.op = "register" /\ p \in PortId /\ o.name \in Name \cup {"namer"}
    BY <1>1, <1>2 DEF Apart, Prog
<1>4. p \in Held(o) /\ (\A i \in DOMAIN o.conns : o.conns[i].local \in Held(o) /\ o.conns[i].local # p)
    BY <1>2, <1>3, ProgIs DEF Apart
<1>5. o.res = 0 => Bound(o.name, p)
    BY <1>1, <1>3 DEF NamerInv, Bindings, Rightly
<1>6. \A i \in DOMAIN o.conns : o.conns[i].kind = "service" => Bound(o.conns[i].name, o.conns[i].local)
    BY DEF NamerInv, Bindings
<1>7. CASE o.res = 0
    <2>. DEFINE r == [Idle2 EXCEPT !.conns = Append(o.conns, e)]
    <2>1. Step(c, r) /\ pool' = pool /\ queue' = queue
        BY <1>7 DEF Registered
    <2>2. e \in Conn /\ e.local = p /\ e.kind = "service" /\ e.name = o.name
        BY <1>3 DEF Conn, Gone
    <2>. HIDE DEF e
    <2>3. r = More(o, e)
        BY DEF More
    <2>. HIDE DEF r
    <2>4. /\ r \in Prog /\ r.pc = "idle" /\ r.op = "find" /\ r.local = Gone /\ r.call = Gone
          /\ DOMAIN r.conns = DOMAIN o.conns \cup {Len(o.conns) + 1} /\ Len(o.conns) + 1 \notin DOMAIN o.conns
          /\ \A i \in DOMAIN o.conns : r.conns[i] = o.conns[i]
          /\ r.conns[Len(o.conns) + 1] = e
        BY <1>2, <2>2, <2>3, MoreIs
    <2>5. Held(r) = Held(o)
        BY <1>3, <2>2, <2>4 DEF Held, PortId, Gone
    <2>6. Accounts(pool, Owning, Namers)'
        BY <1>1, <2>1, <2>5, StepOwnsSame DEF Namers
    <2>7. Gone \notin Held(o)
        BY DEF Held, PortId, Gone
    <2>8. Apart(r)
        BY <1>2, <1>4, <2>2, <2>4, <2>7, <1>3 DEF Apart
    <2>9. ToldRight(r)
        BY <1>5, <1>6, <1>7, <2>2, <2>4 DEF ToldRight
    <2>10. SameMail
        BY <1>1, <2>1, <2>4, SameQueues
    <2>. QED
        BY <1>1, <2>1, <2>4, <2>6, <2>8, <2>9, <2>10, QuietStep
<1>8. CASE o.res # 0
    <2>. DEFINE r == [Idle2 EXCEPT !.conns = o.conns]
    <2>1. Step(c, r) /\ PortDestroy(p)
        BY <1>8 DEF Registered
    <2>2. /\ r \in Prog /\ r.pc = "idle" /\ r.op = "find" /\ r.local = Gone /\ r.call = Gone
          /\ r.conns = o.conns
        BY <1>2, SameConnsIs
    <2>. HIDE DEF r
    <2>3. Held(r) = Held(o) \ {p}
        BY <1>3, <1>4, <2>2 DEF Held, PortId, Gone
    <2>4. Accounts(pool, Owning, Namers)'
        BY <1>1, <1>4, <2>1, <2>3, StepGives
    <2>5. Gone \notin Held(o)
        BY DEF Held, PortId, Gone
    <2>6. Apart(r)
        BY <1>2, <1>4, <2>2, <2>5 DEF Apart
    <2>7. ToldRight(r)
        BY <1>6, <2>2 DEF ToldRight
    <2>8. SameMail
        BY <1>1, <1>4, <2>1, <2>2, QuietMail DEF PortDestroy
    <2>. QED
        BY <1>1, <2>1, <2>2, <2>4, <2>6, <2>7, <2>8, QuietStep
<1>. QED
    BY <1>7, <1>8

LEMMA FoundKeeps ==
    ASSUME NamerInv, NEW c \in Program, Found(c)
    PROVE  NamerInv'
<1>. DEFINE o == prog[c]
<1>1. o.pc = "find" /\ entries' = entries /\ namer' = namer /\ queue' = queue
    BY DEF Found
<1>2. o \in Prog /\ Apart(o)
    BY ProgIs
<1>3. o.call = Gone /\ o.local = Gone /\ o.name \in Name \cup {"namer"} /\ o.res \in Int
    BY <1>1, <1>2 DEF Apart, Prog
<1>4. \A i \in DOMAIN o.conns : o.conns[i].local \in Held(o)
    BY ProgIs
<1>5. \A i \in DOMAIN o.conns : o.conns[i].kind = "service" => Bound(o.conns[i].name, o.conns[i].local)
    BY DEF NamerInv, Bindings
<1>6. Gone \notin Held(o)
    BY DEF Held, PortId, Gone
<1>7. CASE o.res < 1
    <2>. DEFINE r == [Idle2 EXCEPT !.conns = o.conns]
    <2>1. Step(c, r) /\ pool' = pool
        BY <1>7 DEF Found
    <2>2. /\ r \in Prog /\ r.pc = "idle" /\ r.op = "find" /\ r.local = Gone /\ r.call = Gone
          /\ r.conns = o.conns
        BY <1>2, SameConnsIs
    <2>. HIDE DEF r
    <2>3. Held(r) = Held(o)
        BY <1>3, <2>2 DEF Held
    <2>4. Accounts(pool, Owning, Namers)'
        BY <1>1, <2>1, <2>3, StepOwnsSame DEF Namers
    <2>5. Apart(r)
        BY <1>2, <1>4, <1>6, <2>2 DEF Apart
    <2>6. ToldRight(r)
        BY <1>5, <2>2 DEF ToldRight
    <2>7. SameMail
        BY <1>1, <2>1, <2>2, SameQueues
    <2>. QED
        BY <1>1, <2>1, <2>2, <2>4, <2>5, <2>6, <2>7, QuietStep
<1>8. CASE ~(o.res < 1)
    <2>1. PICK p \in PortId : PortCreate(p) /\ Step(c, [Idle2 EXCEPT !.conns =
              Append(o.conns, [kind |-> "client", name |-> o.name, local |-> p, remote |-> o.res])])
        BY <1>8 DEF Found
    <2>. DEFINE e == [kind |-> "client", name |-> o.name, local |-> p, remote |-> o.res]
                r == [Idle2 EXCEPT !.conns = Append(o.conns, e)]
    <2>2. e \in Conn /\ e.local = p /\ e.kind = "client"
        BY <1>3 DEF Conn
    <2>3. Step(c, r) /\ r = More(o, e)
        BY <2>1 DEF More
    <2>. HIDE DEF e, r
    <2>4. /\ r \in Prog /\ r.pc = "idle" /\ r.op = "find" /\ r.local = Gone /\ r.call = Gone
          /\ DOMAIN r.conns = DOMAIN o.conns \cup {Len(o.conns) + 1} /\ Len(o.conns) + 1 \notin DOMAIN o.conns
          /\ \A i \in DOMAIN o.conns : r.conns[i] = o.conns[i]
          /\ r.conns[Len(o.conns) + 1] = e
        BY <1>2, <2>2, <2>3, MoreIs
    <2>5. Held(r) = Held(o) \cup {p}
        BY <1>3, <2>2, <2>4 DEF Held, PortId, Gone
    <2>6. Accounts(pool, Owning, Namers)' /\ p \notin Held(o)
        BY <1>1, <2>1, <2>3, <2>5, StepTakes
    <2>7. Apart(r)
        <3>1. p # Gone
            BY DEF PortId, Gone
        <3>2. \A i, j \in DOMAIN r.conns : r.conns[i].local = r.conns[j].local => i = j
            BY <1>2, <1>4, <2>2, <2>4, <2>6 DEF Apart
        <3>3. \A i \in DOMAIN r.conns : r.conns[i].local # Gone
            BY <1>4, <1>6, <2>2, <2>4, <3>1
        <3>. QED
            BY <2>4, <3>2, <3>3 DEF Apart
    <2>8. ToldRight(r)
        BY <1>5, <2>2, <2>4 DEF ToldRight
    <2>9. SameMail
        BY <1>1, <2>3, <2>4, SameQueues
    <2>. QED
        BY <1>1, <2>3, <2>4, <2>6, <2>7, <2>8, <2>9, QuietStep
<1>. QED
    BY <1>7, <1>8
-----------------------------------------------------------------------------
LEMMA CutInTwo ==
    ASSUME NEW S, NEW q \in Seq(S), NEW m \in 0..Len(q)
    PROVE  /\ SubSeq(q, 1, m) \in Seq(S) /\ Len(SubSeq(q, 1, m)) = m
           /\ \A j \in 1..m : SubSeq(q, 1, m)[j] = q[j]
           /\ SubSeq(q, m + 1, Len(q)) \in Seq(S) /\ Len(SubSeq(q, m + 1, Len(q))) = Len(q) - m
           /\ \A j \in 1..(Len(q) - m) : SubSeq(q, m + 1, Len(q))[j] = q[m + j]
<1>. DEFINE n == Len(q)
            a == SubSeq(q, 1, m)
            lo == m + 1
            b == SubSeq(q, lo, n)
<1>1. n \in Nat /\ m \in Nat /\ m <= n /\ (\A k \in 1..n : q[k] \in S) /\ 1 \in Int
    OBVIOUS
<1>. HIDE DEF n
<1>2. lo \in Int /\ (lo <= n <=> m # n) /\ n - lo + 1 = n - m
      /\ (\A k \in lo..n : k \in 1..n) /\ (\A k \in 1..m : k \in 1..n)
    BY <1>1
<1>3. /\ a \in Seq(S) /\ Len(a) = (IF 1 <= m THEN m - 1 + 1 ELSE 0)
      /\ \A k \in 1..m - 1 + 1 : a[k] = q[1 + k - 1]
    BY <1>1, <1>2, SubSeqProperties
<1>. HIDE DEF lo
<1>4. /\ b \in Seq(S) /\ Len(b) = (IF lo <= n THEN n - lo + 1 ELSE 0)
      /\ \A k \in 1..n - lo + 1 : b[k] = q[lo + k - 1]
    BY <1>1, <1>2, SubSeqProperties
<1>. HIDE DEF a, b
<1>5. Len(a) = m /\ \A k \in 1..m : a[k] = q[k]
    BY <1>1, <1>3
<1>6. Len(b) = n - m /\ \A k \in 1..(n - m) : b[k] = q[m + k]
    <2>1. Len(b) = n - m
        BY <1>1, <1>2, <1>4
    <2>2. \A k \in 1..(n - m) : lo + k - 1 = m + k
        BY <1>1 DEF lo
    <2>. QED
        BY <1>2, <1>4, <2>1, <2>2
<1>. QED
    BY <1>3, <1>4, <1>5, <1>6 DEF a, b, n, lo

LEMMA DroppedAt ==
    ASSUME NEW S, NEW q \in Seq(S), NEW i \in 1..Len(q)
    PROVE  /\ RemoveAt(q, i) \in Seq(S) /\ Len(RemoveAt(q, i)) = Len(q) - 1
           /\ \A j \in 1..(Len(q) - 1) : RemoveAt(q, i)[j] = IF j < i THEN q[j] ELSE q[j + 1]
<1>. DEFINE a == SubSeq(q, 1, i - 1)
            b == SubSeq(q, i + 1, Len(q))
            lo == i - 1
            hi == Len(q) - i
<1>1. Len(q) \in Nat /\ lo \in Nat /\ hi \in Nat /\ i = lo + 1 /\ Len(q) = lo + 1 + hi
    OBVIOUS
<1>2. a \in Seq(S) /\ Len(a) = lo /\ \A j \in 1..lo : a[j] = q[j]
    BY CutInTwo
<1>3. b \in Seq(S) /\ Len(b) = hi /\ \A j \in 1..hi : b[j] = q[i + j]
    <2>1. i \in 0..Len(q)
        BY <1>1
    <2>. QED
        BY <2>1, CutInTwo
<1>4. RemoveAt(q, i) = a \o b
    BY DEF RemoveAt
<1>. HIDE DEF a, b, lo, hi
<1>5. /\ a \o b \in Seq(S) /\ Len(a \o b) = lo + hi
      /\ \A j \in 1..(lo + hi) : (a \o b)[j] = IF j <= lo THEN a[j] ELSE b[j - lo]
    BY <1>2, <1>3, ConcatProperties
<1>6. ASSUME NEW j \in 1..(lo + hi) PROVE (a \o b)[j] = IF j < i THEN q[j] ELSE q[j + 1]
    <2>1. CASE j <= lo
        <3>1. (a \o b)[j] = a[j] /\ j \in 1..lo /\ j < i
            BY <1>1, <1>5, <2>1
        <3>. QED
            BY <1>2, <3>1
    <2>2. CASE ~(j <= lo)
        <3>1. (a \o b)[j] = b[j - lo] /\ j - lo \in 1..hi /\ ~(j < i) /\ i + (j - lo) = j + 1
            BY <1>1, <1>5, <2>2
        <3>2. b[j - lo] = q[i + (j - lo)]
            BY <1>3, <3>1
        <3>. QED
            BY <3>1, <3>2
    <2>. QED
        BY <2>1, <2>2
<1>7. Len(q) - 1 = lo + hi
    BY <1>1
<1>. QED
    BY <1>4, <1>5, <1>6, <1>7

LEMMA DeleteKeeps ==
    ASSUME NamerInv, NEW c \in Program, NEW i \in DOMAIN prog[c].conns, Delete(c, i)
    PROVE  NamerInv'
<1>. DEFINE o == prog[c]
            p == o.conns[i].local
            q == RemoveAt(o.conns, i)
            r == [o EXCEPT !.conns = q]
            at(j) == IF j < i THEN j ELSE j + 1
<1>1. o.pc = "idle" /\ entries' = entries /\ namer' = namer /\ PortDestroy(p) /\ Step(c, r)
    BY DEF Delete
<1>2. o \in Prog /\ Apart(o) /\ p \in Held(o) /\ p \in PortId
    BY ProgIs DEF Held
<1>3. o.conns \in Seq(Conn)
    BY <1>2 DEF Prog
<1>4. Len(o.conns) \in Nat /\ DOMAIN o.conns = 1..Len(o.conns) /\ i \in 1..Len(o.conns)
    BY <1>3
<1>5. /\ q \in Seq(Conn) /\ Len(q) = Len(o.conns) - 1
      /\ \A j \in 1..Len(o.conns) - 1 : q[j] = IF j < i THEN o.conns[j] ELSE o.conns[j + 1]
    BY <1>3, <1>4, DroppedAt
<1>. HIDE DEF q
<1>6. DOMAIN q = 1..Len(o.conns) - 1
    BY <1>5
<1>7. \A j \in DOMAIN q : at(j) \in DOMAIN o.conns \ {i} /\ q[j] = o.conns[at(j)]
    BY <1>4, <1>5, <1>6
<1>8. \A j \in DOMAIN o.conns : j # i => \E k \in DOMAIN q : at(k) = j
    <2>1. SUFFICES ASSUME NEW j \in DOMAIN o.conns, j # i PROVE \E k \in DOMAIN q : at(k) = j
        OBVIOUS
    <2>2. CASE j < i
        BY <1>4, <1>6, <2>1, <2>2
    <2>3. CASE ~(j < i)
        <3>1. j - 1 \in DOMAIN q /\ at(j - 1) = j
            BY <1>4, <1>6, <2>1, <2>3
        <3>. QED
            BY <3>1
    <2>. QED
        BY <2>2, <2>3
<1>9. \A j, k \in DOMAIN q : at(j) = at(k) => j = k
    BY <1>4, <1>6
<1>10. r \in Prog /\ r.pc = o.pc /\ r.op = o.op /\ r.local = o.local /\ r.call = o.call /\ r.conns = q
    BY <1>2, <1>5 DEF Prog
<1>. HIDE DEF r, at
<1>11. o.call = Gone /\ o.local = Gone
    BY <1>1, <1>2 DEF Apart
<1>12. \A j \in DOMAIN o.conns : j # i => o.conns[j].local # p
    BY <1>2 DEF Apart
<1>13. Held(r) = Held(o) \ {p}
    <2>1. \A x \in PortId : x \in Held(r) <=> \E j \in DOMAIN q : x = q[j].local
        BY <1>10, <1>11 DEF Held, PortId, Gone
    <2>2. \A x \in PortId : x \in Held(o) <=> \E j \in DOMAIN o.conns : x = o.conns[j].local
        BY <1>11 DEF Held, PortId, Gone
    <2>3. \A x : (\E j \in DOMAIN q : x = q[j].local) <=> (\E j \in DOMAIN o.conns : x = o.conns[j].local) /\ x # p
        BY <1>7, <1>8, <1>12
    <2>4. Held(r) \subseteq PortId /\ Held(o) \subseteq PortId
        BY DEF Held
    <2>. QED
        BY <2>1, <2>2, <2>3, <2>4
<1>14. Accounts(pool, Owning, Namers)'
    BY <1>1, <1>2, <1>13, StepGives
<1>15. Apart(r)
    <2>1. \A j, k \in DOMAIN q : q[j].local = q[k].local => j = k
        BY <1>2, <1>7, <1>9 DEF Apart
    <2>2. \A j \in DOMAIN q : q[j].local \notin {r.local, r.call}
        BY <1>2, <1>7, <1>10 DEF Apart
    <2>. QED
        BY <1>2, <1>10, <2>1, <2>2 DEF Apart
<1>16. ToldRight(r)
    BY <1>1, <1>7, <1>10 DEF NamerInv, Bindings, ToldRight
<1>17. SameMail
    BY <1>1, <1>2, <1>10, QuietMail DEF PortDestroy
<1>. QED
    BY <1>1, <1>10, <1>14, <1>15, <1>16, <1>17, QuietStep

-----------------------------------------------------------------------------
\* A question sent, and an answer taken.
LEMMA AskKeeps ==
    ASSUME NamerInv, NEW c \in Program, Send(c)
    PROVE  NamerInv'
<1>. DEFINE o == prog[c]
            r == [o EXCEPT !.pc = "wait"]
            m == [op |-> o.op, name |-> o.name, port |-> o.local, src |-> o.call, by |-> c]
            q == queue[NAMER_PORT]
            Q == [op : {"register", "find"}, name : Name \cup {"namer"},
                  port : PortId \cup {Gone}, src : PortId, by : Program]
<1>1. o.pc = "send" /\ entries' = entries /\ namer' = namer /\ pool' = pool /\ Step(c, r)
      /\ queue' = [queue EXCEPT ![NAMER_PORT] = Append(q, m)]
    BY DEF Send
<1>2. o \in Prog /\ Apart(o)
    BY ProgIs
<1>3. o.call \in PortId /\ o.call \in Held(o) /\ o.call # NAMER_PORT
    <2>1. o.call # Gone
        BY <1>1, <1>2 DEF Apart
    <2>. QED
        BY <1>2, <2>1, ProgIs DEF Prog
<1>4. m \in Q
    BY <1>2, <1>3 DEF Prog
<1>5. m.op = o.op /\ m.name = o.name /\ m.port = o.local /\ m.src = o.call /\ m.by = c
    OBVIOUS
<1>6. q \in Seq(Q) /\ DOMAIN queue = PortId
    BY DEF NamerInv, NamerTypes
<1>7. NAMER_PORT \in PortId
    BY NamerAssumption DEF PortId, NAMER_PORT
<1>. HIDE DEF m, Q
<1>8. /\ Append(q, m) \in Seq(Q) /\ DOMAIN Append(q, m) = DOMAIN q \cup {Len(q) + 1} /\ Len(q) + 1 \notin DOMAIN q
      /\ (\A i \in DOMAIN q : Append(q, m)[i] = q[i]) /\ Append(q, m)[Len(q) + 1] = m
    BY <1>4, <1>6, AppendIs
<1>. DEFINE l == Append(q, m)
            z == Len(q) + 1
<1>9. queue'[NAMER_PORT] = l /\ DOMAIN queue' = PortId /\ \A p \in PortId : p # NAMER_PORT => queue'[p] = queue[p]
    BY <1>1, <1>6, <1>7
<1>10. l \in Seq(Q) /\ DOMAIN l = DOMAIN q \cup {z} /\ z \notin DOMAIN q
       /\ (\A i \in DOMAIN q : l[i] = q[i]) /\ l[z] = m
    BY <1>8
<1>. HIDE DEF l, z, q
<1>11. r \in Prog /\ r.pc = "wait" /\ r.op = o.op /\ r.local = o.local /\ r.call = o.call /\ r.conns = o.conns
       /\ r.name = o.name /\ r.res = o.res
    BY <1>2 DEF Prog
<1>. HIDE DEF r
<1>12. prog'[c] = r /\ (\A d \in Program : d # c => prog'[d] = prog[d]) /\ prog' \in [Program -> Prog]
    BY <1>1, <1>11, StepIs DEF NamerInv
<1>13. \A i \in DOMAIN q : q[i].by \in Program
    BY QueueIs DEF NamerInv, q
<1>14. ~Asks(c) /\ ~Handles(c) /\ ~Heard(c)
    <2>1. ~Asks(c) /\ ~Handles(c)
        BY <1>1, <1>13 DEF NamerInv, Questions, InHand, Asks, Handles, q
    <2>2. ASSUME Heard(c) PROVE FALSE
        <3>1. PICK d \in Program : prog[d].pc = "wait" /\ prog[d].call = o.call
            BY <1>3, <2>2 DEF NamerInv, Answers, Heard
        <3>2. d # c /\ prog[d].call \in Held(prog[d])
            BY <1>1, <1>3, <3>1, ProgIs DEF Apart
        <3>. QED
            BY <1>3, <3>1, <3>2, ProgIs
    <2>. QED
        BY <2>1, <2>2
<1>15. NamerTypes'
    BY <1>1, <1>9, <1>10, <1>12 DEF NamerInv, NamerTypes, Q
<1>16. \A d \in Program : Apart(prog'[d])
    BY <1>1, <1>2, <1>11, <1>12 DEF NamerInv, Apart
<1>17. Accounts(pool, Owning, Namers)'
    <2>1. Held(r) = Held(o)
        BY <1>11 DEF Held
    <2>. QED
        BY <1>1, <2>1, StepOwnsSame DEF Namers
<1>18. \A d \in Program : d # c => (Asks(d)' <=> Asks(d))
    BY <1>5, <1>9, <1>10 DEF Asks, q
<1>19. \A d \in Program : (Handles(d)' <=> Handles(d))
    BY <1>1 DEF Handles
<1>20. Asks(c)'
    BY <1>5, <1>9, <1>10 DEF Asks
<1>21. \A d \in Program : prog'[d].pc = "wait" => prog'[d].call \in PortId \ {NAMER_PORT}
                            /\ prog'[d].call = prog[d].call
    <2>1. ASSUME NEW d \in Program, prog[d].pc = "wait" PROVE prog[d].call \in PortId \ {NAMER_PORT}
        BY <2>1, ProgIs DEF Apart, Held
    <2>. QED
        BY <1>3, <1>11, <1>12, <2>1
<1>22. \A d \in Program : prog'[d].pc = "wait" => (Heard(d)' <=> Heard(d)) /\ queue'[prog'[d].call] = queue[prog[d].call]
    BY <1>9, <1>21 DEF Heard
<1>23. \A x : \A d \in Program : d # c => (Rightly(d, x)' <=> Rightly(d, x))
    BY <1>1, <1>12 DEF Rightly, Bound
<1>24. Questions'
    <2>1. \A i, j \in DOMAIN l : l[i].by = l[j].by => i = j
        BY <1>5, <1>10, <1>14 DEF NamerInv, Questions, Asks, q
    <2>2. ASSUME NEW i \in DOMAIN l
          PROVE  /\ prog'[l[i].by].pc = "wait" /\ l[i].op = prog'[l[i].by].op /\ l[i].name = prog'[l[i].by].name
                 /\ l[i].port = prog'[l[i].by].local /\ l[i].src = prog'[l[i].by].call
                 /\ ~Handles(l[i].by) /\ queue'[prog'[l[i].by].call] = <<>>
        <3>1. CASE i = z
            <4>1. l[i].by = c /\ l[i].op = r.op /\ l[i].name = r.name /\ l[i].port = r.local /\ l[i].src = r.call
                BY <1>5, <1>10, <1>11, <3>1
            <4>2. queue'[prog'[c].call] = <<>>
                BY <1>11, <1>12, <1>14, <1>22 DEF Heard
            <4>. QED
                BY <1>11, <1>12, <1>14, <4>1, <4>2
        <3>2. CASE i \in DOMAIN q
            <4>1. l[i] = q[i] /\ l[i].by \in Program /\ l[i].by # c
                BY <1>10, <1>13, <1>14, <3>2 DEF Asks, q
            <4>2. /\ prog[q[i].by].pc = "wait" /\ q[i].op = prog[q[i].by].op /\ q[i].name = prog[q[i].by].name
                  /\ q[i].port = prog[q[i].by].local /\ q[i].src = prog[q[i].by].call
                  /\ ~Handles(q[i].by) /\ ~Heard(q[i].by)
                BY <3>2 DEF NamerInv, Questions, q
            <4>3. prog'[q[i].by] = prog[q[i].by]
                BY <1>12, <4>1
            <4>4. queue'[prog'[q[i].by].call] = <<>>
                BY <1>22, <4>1, <4>2, <4>3 DEF Heard
            <4>. QED
                BY <4>1, <4>2, <4>3, <4>4
        <3>. QED
            BY <1>10, <3>1, <3>2
    <2>3. \A i \in DOMAIN l :
                 /\ prog'[l[i].by].pc = "wait" /\ l[i].op = prog'[l[i].by].op /\ l[i].name = prog'[l[i].by].name
                 /\ l[i].port = prog'[l[i].by].local /\ l[i].src = prog'[l[i].by].call
                 /\ ~(namer'.pc \in {"reply", "send"} /\ namer'.by = l[i].by)
                 /\ ~(queue'[prog'[l[i].by].call] # <<>>)
        BY <1>1, <2>2 DEF Handles
    <2>. QED
        BY <1>9, <2>1, <2>3 DEF Questions, Handles, Heard
<1>25. InHand'
    <2>1. SUFFICES ASSUME namer.pc \in {"reply", "send"}
          PROVE  /\ prog'[namer.by].pc = "wait" /\ namer.to = prog'[namer.by].call
                 /\ queue'[prog'[namer.by].call] = <<>> /\ Rightly(namer.by, namer.res)'
        <3>1. namer' = namer
            BY <1>1
        <3>. QED
            BY <3>1 DEF InHand, Heard, Rightly
    <2>2. namer.by \in Program /\ prog[namer.by].pc = "wait" /\ namer.to = prog[namer.by].call
          /\ ~Heard(namer.by) /\ Rightly(namer.by, namer.res)
        BY <2>1 DEF NamerInv, InHand, NamerTypes
    <2>3. namer.by # c
        BY <1>1, <2>2
    <2>4. Rightly(namer.by, namer.res)'
        BY <1>1, <1>23, <2>2, <2>3, <1>12 DEF Rightly, Bound
    <2>5. prog'[namer.by] = prog[namer.by]
        BY <1>12, <2>2, <2>3
    <2>6. queue'[prog'[namer.by].call] = <<>>
        BY <1>22, <2>2, <2>5 DEF Heard
    <2>. QED
        BY <2>2, <2>4, <2>5, <2>6
<1>26. Answers'
    <2>1. \A p \in PortId \ {NAMER_PORT} : queue'[p] # <<>> =>
             \E d \in Program : prog'[d].pc = "wait" /\ prog'[d].call = p
        BY <1>1, <1>9, <1>12 DEF NamerInv, Answers
    <2>2. ASSUME NEW d \in Program, prog'[d].pc = "wait"
          PROVE  /\ (Asks(d) \/ Handles(d) \/ Heard(d))'
                 /\ Len(queue'[prog'[d].call]) <= 1
                 /\ Heard(d)' => queue'[prog'[d].call][1].by = d /\ Rightly(d, queue[prog[d].call][1].res)'
        <3>1. CASE d = c
            <4>1. ~Heard(c)' /\ queue'[prog'[c].call] = queue[o.call]
                BY <1>14, <1>22, <2>2, <3>1
            <4>2. queue[o.call] = <<>>
                BY <1>14 DEF Heard
            <4>3. Len(queue'[prog'[c].call]) = 0
                BY <4>1, <4>2
            <4>. QED
                BY <1>20, <3>1, <4>1, <4>3
        <3>2. CASE d # c
            <4>1. /\ Asks(d) \/ Handles(d) \/ Heard(d)
                  /\ Len(queue[prog[d].call]) <= 1
                  /\ Heard(d) => queue[prog[d].call][1].by = d /\ Rightly(d, queue[prog[d].call][1].res)
                BY <1>12, <2>2, <3>2 DEF NamerInv, Answers
            <4>2. Rightly(d, queue[prog[d].call][1].res)' <=> Rightly(d, queue[prog[d].call][1].res)
                BY <1>1, <1>12, <1>22, <2>2, <3>2 DEF Rightly, Bound
            <4>. QED
                BY <1>18, <1>19, <1>22, <2>2, <3>2, <4>1, <4>2
        <3>. QED
            BY <3>1, <3>2
    <2>. QED
        BY <2>1, <2>2 DEF Answers
<1>27. ToldRight(r)
    BY <1>11 DEF NamerInv, Bindings, ToldRight
<1>28. Bindings'
    BY <1>1, <1>27, BindingsStep
<1>. QED
    BY <1>15, <1>16, <1>17, <1>24, <1>25, <1>26, <1>28 DEF NamerInv

LEMMA AnsweredKeeps ==
    ASSUME NamerInv, NEW c \in Program, Answered(c)
    PROVE  NamerInv'
<1>. DEFINE o == prog[c]
            k == o.call
            val == Head(queue[k]).res
            r == [o EXCEPT !.pc = o.op, !.call = Gone, !.res = val]
            q == queue[NAMER_PORT]
<1>1. o.pc = "wait" /\ queue[k] # <<>> /\ entries' = entries /\ namer' = namer /\ PortDestroy(k) /\ Step(c, r)
    BY DEF Answered
<1>2. o \in Prog /\ Apart(o)
    BY ProgIs
<1>3. k \in PortId /\ k \in Held(o) /\ k # NAMER_PORT
    <2>1. k # Gone
        BY <1>1, <1>2 DEF Apart
    <2>. QED
        BY <1>2, <2>1, ProgIs DEF Prog
<1>4. val \in Int /\ val = queue[k][1].res
    <2>1. queue[k] \in Seq([res : Int, by : Program])
        BY <1>3 DEF NamerInv, NamerTypes
    <2>. DEFINE A == [res : Int, by : Program]
    <2>2. \A a \in A : a.res \in Int
        OBVIOUS
    <2>. HIDE DEF A
    <2>3. queue[k] \in Seq(A)
        BY <2>1 DEF A
    <2>4. Head(queue[k]) = queue[k][1] /\ queue[k][1] \in A
        BY <1>1, <2>3
    <2>. QED
        BY <2>2, <2>4
<1>5. DOMAIN queue = PortId
    BY DEF NamerInv, NamerTypes
<1>6. DOMAIN queue' = PortId /\ queue'[k] = <<>> /\ \A p \in PortId : p # k => queue'[p] = queue[p]
    BY <1>1, <1>3, <1>5 DEF PortDestroy
<1>. HIDE DEF val
<1>7. r \in Prog /\ r.pc = o.op /\ r.op = o.op /\ r.local = o.local /\ r.call = Gone /\ r.conns = o.conns
       /\ r.name = o.name /\ r.res = val /\ r.pc \in {"register", "find"}
    BY <1>2, <1>4 DEF Prog
<1>. HIDE DEF r, q
<1>8. prog'[c] = r /\ (\A d \in Program : d # c => prog'[d] = prog[d]) /\ prog' \in [Program -> Prog]
    BY <1>1, <1>7, StepIs DEF NamerInv
<1>9. NAMER_PORT \in PortId
    BY NamerAssumption DEF PortId, NAMER_PORT
<1>10. queue'[NAMER_PORT] = q
    BY <1>3, <1>6, <1>9 DEF q
<1>11. \A i \in DOMAIN q : q[i].by \in Program
    BY QueueIs DEF NamerInv, q
<1>12. Heard(c) /\ ~Asks(c) /\ ~Handles(c)
    BY <1>1, <1>11 DEF NamerInv, Questions, InHand, Asks, Handles, Heard, q
<1>13. Rightly(c, val)
    BY <1>1, <1>4, <1>12 DEF NamerInv, Answers
<1>14. \A d \in Program : prog[d].pc = "wait" /\ d # c =>
          prog[d].call \in PortId \ {NAMER_PORT, k} /\ queue'[prog[d].call] = queue[prog[d].call]
    <2>1. ASSUME NEW d \in Program, prog[d].pc = "wait", d # c
          PROVE  prog[d].call \in PortId \ {NAMER_PORT, k}
        <3>1. prog[d].call \in Held(prog[d])
            BY <2>1, ProgIs DEF Apart
        <3>2. Held(prog[d]) \cap Held(o) = {} /\ NAMER_PORT \notin Held(prog[d])
            BY <2>1, ProgIs
        <3>. QED
            BY <1>3, <3>1, <3>2 DEF Held
    <2>. QED
        BY <1>6, <2>1
<1>15. NamerTypes'
    <2>1. <<>> \in Seq([res : Int, by : Program])
        OBVIOUS
    <2>2. \A p \in PortId \ {NAMER_PORT} : queue'[p] \in Seq([res : Int, by : Program])
        BY <1>6, <2>1 DEF NamerInv, NamerTypes
    <2>. QED
        BY <1>1, <1>6, <1>8, <1>10, <2>2 DEF NamerInv, NamerTypes, q
<1>16. Apart(r)
    <2>1. Gone \notin Held(o)
        BY DEF Held, PortId, Gone
    <2>2. \A i \in DOMAIN o.conns : o.conns[i].local # Gone
        BY <2>1, ProgIs
    <2>. QED
        BY <1>1, <1>2, <1>7, <2>2 DEF Apart
<1>17. Held(r) = Held(o) \ {k}
    <2>1. \A i \in DOMAIN o.conns : o.conns[i].local # k
        BY <1>2 DEF Apart
    <2>2. o.local # k
        BY <1>2, <1>3 DEF Apart, PortId, Gone
    <2>. QED
        BY <1>7, <2>1, <2>2 DEF Held, PortId, Gone
<1>18. Accounts(pool, Owning, Namers)'
    BY <1>1, <1>3, <1>17, StepGives
<1>19. Questions'
    <2>1. ASSUME NEW i \in DOMAIN q
          PROVE  /\ prog'[q[i].by].pc = "wait" /\ q[i].op = prog'[q[i].by].op /\ q[i].name = prog'[q[i].by].name
                 /\ q[i].port = prog'[q[i].by].local /\ q[i].src = prog'[q[i].by].call
                 /\ ~(namer'.pc \in {"reply", "send"} /\ namer'.by = q[i].by)
                 /\ ~(queue'[prog'[q[i].by].call] # <<>>)
        <3>1. q[i].by \in Program /\ q[i].by # c
            BY <1>11, <1>12 DEF Asks, q
        <3>2. /\ prog[q[i].by].pc = "wait" /\ q[i].op = prog[q[i].by].op /\ q[i].name = prog[q[i].by].name
              /\ q[i].port = prog[q[i].by].local /\ q[i].src = prog[q[i].by].call
              /\ ~Handles(q[i].by) /\ ~Heard(q[i].by)
            BY DEF NamerInv, Questions, q
        <3>3. prog'[q[i].by] = prog[q[i].by]
            BY <1>8, <3>1
        <3>. QED
            BY <1>1, <1>14, <3>1, <3>2, <3>3 DEF Handles, Heard
    <2>2. \A i, j \in DOMAIN q : q[i].by = q[j].by => i = j
        BY DEF NamerInv, Questions, q
    <2>. QED
        BY <1>10, <2>1, <2>2 DEF Questions, Handles, Heard
<1>20. InHand'
    <2>1. SUFFICES ASSUME namer.pc \in {"reply", "send"}
          PROVE  /\ prog'[namer.by].pc = "wait" /\ namer.to = prog'[namer.by].call
                 /\ queue'[prog'[namer.by].call] = <<>> /\ Rightly(namer.by, namer.res)'
        <3>1. namer' = namer
            BY <1>1
        <3>. QED
            BY <3>1 DEF InHand, Heard, Rightly
    <2>2. namer.by \in Program /\ prog[namer.by].pc = "wait" /\ namer.to = prog[namer.by].call
          /\ ~Heard(namer.by) /\ Rightly(namer.by, namer.res)
        BY <2>1 DEF NamerInv, InHand, NamerTypes
    <2>3. namer.by # c
        BY <1>12, <2>1 DEF Handles
    <2>4. prog'[namer.by] = prog[namer.by]
        BY <1>8, <2>2, <2>3
    <2>5. Rightly(namer.by, namer.res)'
        BY <1>1, <2>2, <2>4 DEF Rightly, Bound
    <2>6. queue'[prog'[namer.by].call] = <<>>
        BY <1>14, <2>2, <2>3, <2>4 DEF Heard
    <2>. QED
        BY <2>2, <2>4, <2>5, <2>6
<1>21. Answers'
    <2>1. \A p \in PortId \ {NAMER_PORT} : queue'[p] # <<>> =>
             \E d \in Program : prog'[d].pc = "wait" /\ prog'[d].call = p
        <3>1. SUFFICES ASSUME NEW p \in PortId \ {NAMER_PORT}, queue'[p] # <<>>
              PROVE  \E d \in Program : prog'[d].pc = "wait" /\ prog'[d].call = p
            OBVIOUS
        <3>2. p # k /\ queue[p] # <<>>
            BY <1>6, <3>1
        <3>3. PICK d \in Program : prog[d].pc = "wait" /\ prog[d].call = p
            BY <3>2 DEF NamerInv, Answers
        <3>. QED
            BY <1>8, <3>2, <3>3
    <2>2. ASSUME NEW d \in Program, prog'[d].pc = "wait"
          PROVE  /\ (Asks(d) \/ Handles(d) \/ Heard(d))'
                 /\ Len(queue'[prog'[d].call]) <= 1
                 /\ Heard(d)' => queue'[prog'[d].call][1].by = d /\ Rightly(d, queue[prog[d].call][1].res)'
        <3>1. d # c
            BY <1>7, <1>8, <2>2
        <3>2. prog'[d] = prog[d] /\ queue'[prog[d].call] = queue[prog[d].call]
            BY <1>8, <1>14, <2>2, <3>1
        <3>3. /\ Asks(d) \/ Handles(d) \/ Heard(d)
              /\ Len(queue[prog[d].call]) <= 1
              /\ Heard(d) => queue[prog[d].call][1].by = d /\ Rightly(d, queue[prog[d].call][1].res)
            BY <2>2, <3>2 DEF NamerInv, Answers
        <3>4. Rightly(d, queue[prog[d].call][1].res)' <=> Rightly(d, queue[prog[d].call][1].res)
            BY <1>1, <3>2 DEF Rightly, Bound
        <3>5. (Asks(d)' <=> Asks(d)) /\ (Handles(d)' <=> Handles(d)) /\ (Heard(d)' <=> Heard(d))
            BY <1>1, <1>10, <3>2 DEF Asks, Handles, Heard, q
        <3>. QED
            BY <3>2, <3>3, <3>4, <3>5
    <2>. QED
        BY <2>1, <2>2 DEF Answers
<1>22. ToldRight(r)
    BY <1>7, <1>13 DEF NamerInv, Bindings, ToldRight, Rightly
<1>23. Bindings'
    BY <1>1, <1>22, BindingsStep
<1>24. \A d \in Program : Apart(prog'[d])
    BY <1>8, <1>16 DEF NamerInv
<1>. QED
    BY <1>15, <1>18, <1>19, <1>20, <1>21, <1>23, <1>24 DEF NamerInv

-----------------------------------------------------------------------------
(* The steps of the namer.                                                  *)

LEMMA LookupIs ==
    ASSUME NamerInv, NEW n
    PROVE  /\ \A p : Bound(n, p) => Lookup(n) = p /\ p \in PortId
           /\ (\A p : ~Bound(n, p)) => Lookup(n) = Gone
           /\ Lookup(n) \in PortId \cup {Gone}
<1>. DEFINE hits == {i \in DOMAIN entries : entries[i].name = n}
            E == [name : Name \cup {"namer"}, port : PortId]
<1>1. \A i \in DOMAIN entries : entries[i].port \in PortId
    <2>1. entries \in Seq(E) /\ \A e \in E : e.port \in PortId
        BY DEF NamerInv, NamerTypes
    <2>. HIDE DEF E
    <2>. QED
        BY <2>1
<1>2. DOMAIN entries \subseteq Nat
    BY DEF NamerInv, NamerTypes
<1>3. CASE hits = {}
    BY <1>3 DEF Lookup, Bound, BoundIn
<1>4. CASE hits # {}
    <2>1. PICK i \in hits : TRUE
        BY <1>4
    <2>2. \A j \in hits : j = i
        BY <2>1 DEF NamerInv, Bindings
    <2>3. i \in Nat /\ i <= i
        BY <1>2, <2>1
    <2>4. (CHOOSE a \in hits : \A j \in hits : a <= j) = i
        BY <2>1, <2>2, <2>3
    <2>5. Lookup(n) = entries[i].port
        BY <1>4, <2>4 DEF Lookup
    <2>. QED
        BY <1>1, <2>1, <2>2, <2>5 DEF Bound, BoundIn
<1>. QED
    BY <1>3, <1>4

\* m is the question, of c, and res the answer to it.
LEMMA HandledKeeps ==
    ASSUME NamerInv, NamerHandle, NEW m, m = Head(queue[NAMER_PORT]), NEW c, c = m.by,
           NEW new \in BOOLEAN, new <=> m.op = "register" /\ m.port >= 1 /\ Lookup(m.name) = Gone,
           NEW res, res = IF m.op = "find" THEN Lookup(m.name) ELSE IF new THEN 0 ELSE -1
    PROVE  NamerInv'
<1>. DEFINE q == queue[NAMER_PORT]
            t == Tail(q)
            o == prog[c]
            e == [name |-> m.name, port |-> m.port]
            Q == [op : {"register", "find"}, name : Name \cup {"namer"},
                  port : PortId \cup {Gone}, src : PortId, by : Program]
            E == [name : Name \cup {"namer"}, port : PortId]
<1>1. /\ namer.pc = "recv" /\ q # <<>> /\ pool' = pool /\ prog' = prog
      /\ queue' = [queue EXCEPT ![NAMER_PORT] = t]
      /\ entries' = IF new THEN <<e>> \o entries ELSE entries
      /\ namer' = [pc |-> "reply", to |-> m.src, by |-> m.by, res |-> res]
    BY DEF NamerHandle
<1>2. q \in Seq(Q) /\ DOMAIN queue = PortId
    BY DEF NamerInv, NamerTypes
<1>3. \A x \in Q : x.op \in {"register", "find"} /\ x.name \in Name \cup {"namer"}
                   /\ x.port \in PortId \cup {Gone} /\ x.src \in PortId /\ x.by \in Program
    OBVIOUS
<1>. HIDE DEF Q
<1>4. /\ t \in Seq(Q) /\ m = q[1] /\ m \in Q /\ 1 \in DOMAIN q
      /\ \A i \in DOMAIN t : i + 1 \in DOMAIN q /\ i + 1 # 1 /\ t[i] = q[i + 1]
      /\ \A i \in DOMAIN q : i = 1 \/ (i - 1 \in DOMAIN t /\ t[i - 1] = q[i])
      /\ \A i, j \in DOMAIN t : i + 1 = j + 1 => i = j
    BY <1>1, <1>2, TailIs
<1>5. NAMER_PORT \in PortId
    BY NamerAssumption DEF PortId, NAMER_PORT
<1>6. queue'[NAMER_PORT] = t /\ DOMAIN queue' = PortId /\ \A p \in PortId : p # NAMER_PORT => queue'[p] = queue[p]
    BY <1>1, <1>2, <1>5
<1>7. m.op \in {"register", "find"} /\ m.name \in Name \cup {"namer"}
      /\ m.port \in PortId \cup {Gone} /\ m.src \in PortId /\ c \in Program
    BY <1>3, <1>4
<1>8. /\ o.pc = "wait" /\ m.op = o.op /\ m.name = o.name /\ m.port = o.local /\ m.src = o.call
      /\ ~Handles(c) /\ ~Heard(c)
    BY <1>4 DEF NamerInv, Questions
<1>9. \A i, j \in DOMAIN q : q[i].by = q[j].by => i = j
    BY DEF NamerInv, Questions
<1>10. \A i \in DOMAIN t : t[i].by \in Program /\ t[i].by # c
    <2>1. \A i \in DOMAIN q : q[i].by \in Program
        BY QueueIs DEF NamerInv
    <2>. QED
        BY <1>4, <1>9, <2>1
<1>11. namer'.pc = "reply" /\ namer'.to = m.src /\ namer'.by = c /\ namer'.res = res
    BY <1>1
<1>12. res \in Int /\ (res = 0 => new \/ m.op = "find")
    BY LookupIs, NamerAssumption DEF PortId, Gone
<1>. HIDE DEF t, q
<1>13. /\ \A n, p : BoundIn(entries, n, p) => BoundIn(entries', n, p)
       /\ new => BoundIn(entries', m.name, m.port)
       /\ \A i, j \in DOMAIN entries' : entries'[i].name = entries'[j].name => i = j
       /\ entries' \in Seq(E)
    <2>1. entries \in Seq(E) /\ \A i, j \in DOMAIN entries : entries[i].name = entries[j].name => i = j
        BY DEF NamerInv, NamerTypes, Bindings
    <2>2. CASE ~new
        BY <1>1, <2>1, <2>2
    <2>3. CASE new
        <3>0. m.port >= 1 /\ Lookup(m.name) = Gone
            BY <2>3
        <3>1. \A i \in DOMAIN entries : entries[i].name # m.name
            <4>1. \A p : ~Bound(m.name, p)
                BY <3>0, LookupIs DEF Gone, PortId
            <4>. QED
                BY <4>1 DEF Bound, BoundIn
        <3>2. e \in E /\ e.name = m.name /\ e.port = m.port
            BY <1>7, <3>0 DEF Gone
        <3>. DEFINE w == <<e>> \o entries
        <3>3. entries' = w
            BY <1>1, <2>3
        <3>. HIDE DEF E, e
        <3>4. /\ w \in Seq(E) /\ 1 \in DOMAIN w /\ w[1] = e
              /\ \A i \in DOMAIN w : i = 1 \/ (i - 1 \in DOMAIN entries /\ w[i] = entries[i - 1])
              /\ \A i \in DOMAIN entries : i + 1 \in DOMAIN w /\ w[i + 1] = entries[i]
              /\ \A i, j \in DOMAIN w : i - 1 = j - 1 => i = j
            BY <2>1, <3>2, FrontIs
        <3>. HIDE DEF w
        <3>5. \A n, p : BoundIn(entries, n, p) => BoundIn(w, n, p)
            BY <3>4 DEF BoundIn
        <3>6. BoundIn(w, m.name, m.port)
            BY <3>2, <3>4 DEF BoundIn
        <3>7. \A i, j \in DOMAIN w : w[i].name = w[j].name => i = j
            <4>1. SUFFICES ASSUME NEW i \in DOMAIN w, NEW j \in DOMAIN w, w[i].name = w[j].name PROVE i = j
                OBVIOUS
            <4>2. \A k \in DOMAIN w : k # 1 => k - 1 \in DOMAIN entries /\ w[k] = entries[k - 1]
                                            /\ w[k].name # m.name
                BY <3>1, <3>4
            <4>3. w[1].name = m.name
                BY <3>2, <3>4
            <4>4. CASE i = 1 \/ j = 1
                BY <4>1, <4>2, <4>3, <4>4
            <4>5. CASE i # 1 /\ j # 1
                <5>1. entries[i - 1].name = entries[j - 1].name /\ i - 1 \in DOMAIN entries /\ j - 1 \in DOMAIN entries
                    BY <4>1, <4>2, <4>5
                <5>2. i - 1 = j - 1
                    BY <2>1, <5>1
                <5>. QED
                    BY <3>4, <5>2
            <4>. QED
                BY <4>4, <4>5
        <3>. QED
            BY <3>3, <3>4, <3>5, <3>6, <3>7
    <2>. QED
        BY <2>2, <2>3
<1>14. \A d \in Program : (Handles(d)' <=> d = c) /\ ~Handles(d)
    BY <1>1, <1>11 DEF Handles
<1>15. \A d \in Program : Asks(d)' <=> Asks(d) /\ d # c
    <2>1. SUFFICES ASSUME NEW d \in Program PROVE Asks(d)' <=> Asks(d) /\ d # c
        OBVIOUS
    <2>2. Asks(d)' <=> \E i \in DOMAIN t : t[i].by = d
        BY <1>6 DEF Asks
    <2>3. Asks(d) <=> \E i \in DOMAIN q : q[i].by = d
        BY DEF Asks, q
    <2>. QED
        BY <1>4, <1>10, <2>2, <2>3
<1>16. \A d \in Program : prog[d].pc = "wait" => (Heard(d)' <=> Heard(d)) /\ queue'[prog[d].call] = queue[prog[d].call]
    <2>1. ASSUME NEW d \in Program, prog[d].pc = "wait" PROVE prog[d].call \in PortId \ {NAMER_PORT}
        BY <2>1, ProgIs DEF Apart, Held
    <2>. QED
        BY <1>1, <1>6, <2>1 DEF Heard
<1>17. \A x : \A d \in Program : Rightly(d, x) => Rightly(d, x)'
    BY <1>1, <1>13 DEF Rightly, Bound
<1>18. NamerTypes'
    <2>1. queue'[NAMER_PORT] \in Seq(Q) /\ \A p \in PortId \ {NAMER_PORT} : queue'[p] = queue[p]
        BY <1>4, <1>6
    <2>2. namer'.pc = "reply" /\ namer'.by \in Program /\ namer'.to \in PortId /\ namer'.res \in Int
        BY <1>7, <1>11, <1>12
    <2>. QED
        BY <1>1, <1>6, <1>13, <2>1, <2>2 DEF NamerInv, NamerTypes, Q
<1>19. Questions'
    <2>1. \A i, j \in DOMAIN t : t[i].by = t[j].by => i = j
        BY <1>4, <1>9
    <2>2. ASSUME NEW i \in DOMAIN t
          PROVE  /\ prog[t[i].by].pc = "wait" /\ t[i].op = prog[t[i].by].op /\ t[i].name = prog[t[i].by].name
                 /\ t[i].port = prog[t[i].by].local /\ t[i].src = prog[t[i].by].call
                 /\ ~(namer'.pc \in {"reply", "send"} /\ namer'.by = t[i].by)
                 /\ ~(queue'[prog[t[i].by].call] # <<>>)
        <3>1. t[i].by \in Program /\ t[i].by # c /\ i + 1 \in DOMAIN q /\ t[i] = q[i + 1]
            BY <1>4, <1>10
        <3>2. \A j \in DOMAIN q : /\ prog[q[j].by].pc = "wait" /\ q[j].op = prog[q[j].by].op
                  /\ q[j].name = prog[q[j].by].name
                  /\ q[j].port = prog[q[j].by].local /\ q[j].src = prog[q[j].by].call
                  /\ ~Heard(q[j].by)
            BY DEF NamerInv, Questions, q
        <3>3. /\ prog[t[i].by].pc = "wait" /\ t[i].op = prog[t[i].by].op /\ t[i].name = prog[t[i].by].name
              /\ t[i].port = prog[t[i].by].local /\ t[i].src = prog[t[i].by].call
              /\ ~Heard(t[i].by)
            BY <3>1, <3>2
        <3>. QED
            BY <1>11, <1>16, <3>1, <3>3 DEF Heard
    <2>. QED
        BY <1>1, <1>6, <2>1, <2>2 DEF Questions, Handles, Heard
<1>20. InHand'
    <2>1. Rightly(c, res)'
        <3>1. ASSUME o.op = "register", res = 0 PROVE BoundIn(entries', o.name, o.local)
            <4>1. new
                BY <1>8, <1>12, <3>1
            <4>. QED
                BY <1>8, <1>13, <4>1
        <3>. QED
            BY <1>1, <3>1 DEF Rightly, Bound
    <2>2. prog'[c].pc = "wait" /\ m.src = prog'[c].call /\ queue'[prog'[c].call] = <<>>
        BY <1>1, <1>7, <1>8, <1>16 DEF Heard
    <2>. QED
        BY <1>11, <2>1, <2>2 DEF InHand, Heard, Rightly, Bound
<1>21. Answers'
    <2>1. \A p \in PortId \ {NAMER_PORT} : queue'[p] # <<>> =>
             \E d \in Program : prog'[d].pc = "wait" /\ prog'[d].call = p
        BY <1>1, <1>6 DEF NamerInv, Answers
    <2>2. ASSUME NEW d \in Program, prog'[d].pc = "wait"
          PROVE  /\ (Asks(d) \/ Handles(d) \/ Heard(d))'
                 /\ Len(queue'[prog'[d].call]) <= 1
                 /\ Heard(d)' => queue'[prog'[d].call][1].by = d /\ Rightly(d, queue[prog[d].call][1].res)'
        <3>1. prog[d].pc = "wait" /\ prog'[d] = prog[d] /\ queue'[prog[d].call] = queue[prog[d].call]
            BY <1>1, <1>16, <2>2
        <3>2. /\ Asks(d) \/ Heard(d)
              /\ Len(queue[prog[d].call]) <= 1
              /\ Heard(d) => queue[prog[d].call][1].by = d /\ Rightly(d, queue[prog[d].call][1].res)
            BY <1>14, <3>1 DEF NamerInv, Answers
        <3>3. Rightly(d, queue[prog[d].call][1].res) => Rightly(d, queue[prog[d].call][1].res)'
            BY <1>1, <1>13, <3>1 DEF Rightly, Bound
        <3>. QED
            BY <1>14, <1>15, <1>16, <3>1, <3>2, <3>3
    <2>. QED
        BY <2>1, <2>2 DEF Answers
<1>22. Bindings'
    <2>1. \A d \in Program : prog'[d].pc = "register" => Rightly(d, prog[d].res)'
        <3>1. \A d \in Program : prog[d].pc = "register" => Rightly(d, prog[d].res)
            BY DEF NamerInv, Bindings
        <3>. QED
            BY <1>1, <1>13, <3>1 DEF Rightly, Bound
    <2>2. \A d \in Program : \A i \in DOMAIN prog'[d].conns :
              prog'[d].conns[i].kind = "service" => Bound(prog[d].conns[i].name, prog[d].conns[i].local)'
        <3>1. \A d \in Program : \A i \in DOMAIN prog[d].conns :
              prog[d].conns[i].kind = "service" => Bound(prog[d].conns[i].name, prog[d].conns[i].local)
            BY DEF NamerInv, Bindings
        <3>. QED
            BY <1>1, <1>13, <3>1 DEF Bound
    <2>. QED
        BY <1>13, <2>1, <2>2 DEF Bindings
<1>23. Accounts(pool, Owning, Namers)'
    <2>1. Namers' = Namers
        BY <1>1, <1>11 DEF Namers
    <2>2. Owning' = Owning
        BY <1>1 DEF Owning
    <2>. QED
        BY <1>1, <2>1, <2>2 DEF NamerInv
<1>. QED
    BY <1>1, <1>18, <1>19, <1>20, <1>21, <1>22, <1>23 DEF NamerInv

LEMMA NamerHandleKeeps ==
    ASSUME NamerInv, NamerHandle
    PROVE  NamerInv'
<1>1. \A m, c, res : \A new \in BOOLEAN :
        /\ m = Head(queue[NAMER_PORT]) /\ c = m.by
        /\ new <=> (m.op = "register" /\ m.port >= 1 /\ Lookup(m.name) = Gone)
        /\ res = (IF m.op = "find" THEN Lookup(m.name) ELSE IF new THEN 0 ELSE -1)
        => NamerInv'
    BY HandledKeeps
<1>. QED
    BY <1>1

LEMMA ReplyPortKeeps ==
    ASSUME NamerInv, ReplyPort
    PROVE  NamerInv'
<1>1. PICK p \in PortId : PortCreate(p)
        /\ namer' = [pc |-> "send", to |-> namer.to, by |-> namer.by, res |-> namer.res, port |-> p]
    BY DEF ReplyPort
<1>2. namer.pc = "reply" /\ entries' = entries /\ queue' = queue /\ prog' = prog
    BY DEF ReplyPort
<1>3. namer'.pc = "send" /\ namer'.to = namer.to /\ namer'.by = namer.by /\ namer'.res = namer.res /\ namer'.port = p
    BY <1>1
<1>4. SameMail
    BY <1>2, <1>3 DEF SameMail
<1>5. NamerTypes'
    BY <1>2, <1>3 DEF NamerInv, NamerTypes
<1>6. Accounts(pool, Owning, Namers)'
    <2>1. Namers = {} /\ Namers' = {p} /\ Owning' = Owning
        BY <1>2, <1>3 DEF Namers, Owning
    <2>2. pool # <<>> /\ p = Head(pool) /\ pool' = Tail(pool)
        BY <1>1 DEF PortCreate
    <2>3. Accounts(pool, Owning, {})
        BY <2>1 DEF NamerInv
    <2>4. Accounts(Tail(pool), Owning, {p})
        BY <2>2, <2>3, NamerTakes
    <2>. QED
        BY <2>1, <2>2, <2>4
<1>7. Bindings'
    BY <1>2, BindingsKept DEF NamerInv
<1>. QED
    BY <1>2, <1>4, <1>5, <1>6, <1>7, MailKept DEF NamerInv

LEMMA ReplyCloseKeeps ==
    ASSUME NamerInv, ReplyClose
    PROVE  NamerInv'
<1>1. namer.pc = "close" /\ PortDestroy(namer.port) /\ namer' = [pc |-> "recv"] /\ entries' = entries /\ prog' = prog
    BY DEF ReplyClose
<1>. DEFINE p == namer.port
<1>2. p \in PortId
    BY <1>1 DEF NamerInv, NamerTypes
<1>3. Namers = {p} /\ Namers' = {} /\ Owning' = Owning /\ namer'.pc = "recv"
    BY <1>1 DEF Namers, Owning
<1>4. pool' = <<p>> \o pool /\ queue' = [queue EXCEPT ![p] = <<>>]
    BY <1>1 DEF PortDestroy
<1>. HIDE DEF p
<1>5. Accounts(pool, Owning, {p})
    BY <1>3 DEF NamerInv
<1>6. Accounts(<<p>> \o pool, Owning, {}) /\ p # NAMER_PORT /\ \A d \in Program : p \notin Owning[d]
    BY <1>2, <1>5, NamerGives
<1>7. Accounts(pool, Owning, Namers)'
    BY <1>3, <1>4, <1>6
<1>8. DOMAIN queue = PortId /\ NAMER_PORT \in PortId
    BY NamerAssumption DEF NamerInv, NamerTypes, PortId, NAMER_PORT
<1>9. DOMAIN queue' = DOMAIN queue /\ queue'[p] = <<>> /\ \A x \in PortId : x # p => queue'[x] = queue[x]
    BY <1>2, <1>4, <1>8
<1>10. \A d \in Program : prog[d].pc = "wait" => prog[d].call \in PortId \ {p}
    <2>1. \A d \in Program : prog[d].pc = "wait" => prog[d].call \in Held(prog[d])
        BY ProgIs DEF Apart
    <2>2. \A d \in Program : p \notin Held(prog[d])
        BY <1>6 DEF Owning
    <2>. QED
        BY <2>1, <2>2 DEF Held
<1>11. SameMail
    BY <1>1, <1>3, <1>6, <1>8, <1>9, <1>10 DEF SameMail
<1>12. NamerTypes'
    <2>1. <<>> \in Seq([res : Int, by : Program])
        OBVIOUS
    <2>2. \A x \in PortId \ {NAMER_PORT} : queue'[x] \in Seq([res : Int, by : Program])
        BY <1>9, <2>1 DEF NamerInv, NamerTypes
    <2>. QED
        BY <1>1, <1>3, <1>6, <1>8, <1>9, <2>2 DEF NamerInv, NamerTypes
<1>13. Bindings'
    BY <1>1, BindingsKept DEF NamerInv
<1>. QED
    BY <1>1, <1>7, <1>11, <1>12, <1>13, MailKept DEF NamerInv

\* c has asked, and k is the port of its call.
LEMMA ToldKeeps ==
    ASSUME NamerInv, ReplySend, NEW c, c = namer.by, NEW k, k = namer.to, NEW val, val = namer.res
    PROVE  NamerInv'
<1>. DEFINE a == [res |-> val, by |-> c]
            q == queue[NAMER_PORT]
            A == [res : Int, by : Program]
<1>1. namer.pc = "send" /\ namer' = [pc |-> "close", port |-> namer.port] /\ entries' = entries /\ pool' = pool
      /\ prog' = prog
    BY DEF ReplySend
<1>2. c \in Program /\ k \in PortId /\ val \in Int /\ namer.port \in PortId
    BY <1>1 DEF NamerInv, NamerTypes
<1>3. prog[c].pc = "wait" /\ k = prog[c].call /\ queue[k] = <<>> /\ Rightly(c, val) /\ ~Asks(c)
    <2>1. prog[c].pc = "wait" /\ k = prog[c].call /\ ~Heard(c) /\ Rightly(c, val)
        BY <1>1 DEF NamerInv, InHand
    <2>2. Handles(c)
        BY <1>1 DEF Handles
    <2>3. \A i \in DOMAIN q : ~Handles(q[i].by)
        BY DEF NamerInv, Questions
    <2>. QED
        BY <2>1, <2>2, <2>3 DEF Asks, Heard
<1>4. k \in Held(prog[c]) /\ k # NAMER_PORT
    BY <1>2, <1>3, ProgIs DEF Apart
<1>5. k \in Used
    <2>1. \A i \in DOMAIN pool : pool[i] # k
        BY <1>2, <1>4 DEF NamerInv, Accounts, Owning
    <2>. QED
        BY <1>2, <2>1 DEF Used, ToSet
<1>6. DOMAIN queue = PortId /\ NAMER_PORT \in PortId
    BY NamerAssumption DEF NamerInv, NamerTypes, PortId, NAMER_PORT
<1>7. a \in A /\ a.by = c /\ a.res = val
    BY <1>2
<1>8. queue' = [queue EXCEPT ![k] = Append(<<>>, a)]
    BY <1>1, <1>3, <1>5 DEF ReplySend
<1>. HIDE DEF a, A
<1>. DEFINE l == Append(<<>>, a)
<1>9. l \in Seq(A) /\ Len(l) = 1 /\ l[1] = a /\ l # <<>>
    BY <1>7
<1>. HIDE DEF l
<1>10. DOMAIN queue' = PortId /\ queue'[k] = l /\ \A p \in PortId : p # k => queue'[p] = queue[p]
    BY <1>2, <1>6, <1>8 DEF l
<1>. HIDE DEF q
<1>11. queue'[NAMER_PORT] = q
    BY <1>4, <1>6, <1>10 DEF q
<1>12. namer'.pc = "close" /\ namer'.port = namer.port
    BY <1>1
<1>13. \A d \in Program : ~Handles(d)' /\ (Handles(d) => d = c) /\ (Asks(d)' <=> Asks(d))
    BY <1>1, <1>11, <1>12 DEF Handles, Asks, q
<1>14. \A d \in Program : prog[d].pc = "wait" /\ d # c =>
          prog[d].call \in PortId \ {k} /\ queue'[prog[d].call] = queue[prog[d].call]
    <2>1. ASSUME NEW d \in Program, prog[d].pc = "wait", d # c
          PROVE  prog[d].call \in PortId \ {k}
        <3>1. prog[d].call \in Held(prog[d]) /\ Held(prog[d]) \cap Held(prog[c]) = {}
            BY <1>2, <2>1, ProgIs DEF Apart
        <3>. QED
            BY <1>4, <3>1 DEF Held
    <2>. QED
        BY <1>10, <2>1
<1>15. NamerTypes'
    <2>1. \A p \in PortId \ {NAMER_PORT} : queue'[p] \in Seq(A)
        BY <1>9, <1>10 DEF NamerInv, NamerTypes, A
    <2>. QED
        BY <1>1, <1>2, <1>10, <1>11, <1>12, <2>1 DEF NamerInv, NamerTypes, A, q
<1>16. Questions'
    <2>1. ASSUME NEW i \in DOMAIN q
          PROVE  /\ prog[q[i].by].pc = "wait" /\ q[i].op = prog[q[i].by].op /\ q[i].name = prog[q[i].by].name
                 /\ q[i].port = prog[q[i].by].local /\ q[i].src = prog[q[i].by].call
                 /\ ~(queue'[prog[q[i].by].call] # <<>>)
        <3>1. q[i].by \in Program /\ q[i].by # c
            BY <1>3, QueueIs DEF NamerInv, Asks, q
        <3>2. /\ prog[q[i].by].pc = "wait" /\ q[i].op = prog[q[i].by].op /\ q[i].name = prog[q[i].by].name
              /\ q[i].port = prog[q[i].by].local /\ q[i].src = prog[q[i].by].call
              /\ ~Heard(q[i].by)
            BY DEF NamerInv, Questions, q
        <3>. QED
            BY <1>14, <3>1, <3>2 DEF Heard
    <2>2. \A i, j \in DOMAIN q : q[i].by = q[j].by => i = j
        BY DEF NamerInv, Questions, q
    <2>. QED
        BY <1>1, <1>11, <1>12, <2>1, <2>2 DEF Questions, Handles, Heard
<1>17. InHand'
    BY <1>12 DEF InHand
<1>18. Answers'
    <2>1. \A p \in PortId \ {NAMER_PORT} : queue'[p] # <<>> =>
             \E d \in Program : prog'[d].pc = "wait" /\ prog'[d].call = p
        BY <1>1, <1>2, <1>3, <1>10 DEF NamerInv, Answers
    <2>2. ASSUME NEW d \in Program, prog'[d].pc = "wait"
          PROVE  /\ (Asks(d) \/ Handles(d) \/ Heard(d))'
                 /\ Len(queue'[prog'[d].call]) <= 1
                 /\ Heard(d)' => queue'[prog'[d].call][1].by = d /\ Rightly(d, queue[prog[d].call][1].res)'
        <3>1. CASE d = c
            <4>1. queue'[prog'[d].call] = l
                BY <1>1, <1>3, <1>10, <3>1
            <4>2. Heard(d)'
                BY <1>9, <4>1 DEF Heard
            <4>3. queue'[prog'[d].call][1].res = val /\ queue'[prog'[d].call][1].by = d
                BY <1>7, <1>9, <3>1, <4>1
            <4>4. prog[c].op = "register" /\ val = 0 => BoundIn(entries, prog[c].name, prog[c].local)
                BY <1>3 DEF Rightly, Bound
            <4>5. Rightly(d, queue[prog[d].call][1].res)'
                <5>1. prog'[d] = prog[c] /\ entries' = entries
                    BY <1>1, <3>1
                <5>2. prog'[d].op = "register" /\ queue'[prog'[d].call][1].res = 0
                      => BoundIn(entries', prog'[d].name, prog'[d].local)
                    BY <4>3, <4>4, <5>1
                <5>. QED
                    BY <5>2 DEF Rightly, Bound
            <4>6. Len(queue'[prog'[d].call]) <= 1
                <5>1. Len(l) <= 1
                    BY ONLY <1>9
                <5>. QED
                    BY ONLY <4>1, <5>1, Zenon
            <4>7. (Asks(d) \/ Handles(d) \/ Heard(d))'
                BY <4>2
            <4>. QED
                BY <4>3, <4>5, <4>6, <4>7, Zenon
        <3>2. CASE d # c
            <4>1. prog[d].pc = "wait" /\ prog'[d] = prog[d] /\ queue'[prog[d].call] = queue[prog[d].call]
                BY <1>1, <1>14, <2>2, <3>2
            <4>2. /\ Asks(d) \/ Heard(d)
                  /\ Len(queue[prog[d].call]) <= 1
                  /\ Heard(d) => queue[prog[d].call][1].by = d /\ Rightly(d, queue[prog[d].call][1].res)
                BY <1>13, <3>2, <4>1 DEF NamerInv, Answers
            <4>3. Rightly(d, queue[prog[d].call][1].res)' <=> Rightly(d, queue[prog[d].call][1].res)
                BY <1>1, <4>1 DEF Rightly, Bound
            <4>4. Heard(d)' <=> Heard(d)
                BY <4>1 DEF Heard
            <4>. QED
                BY <1>13, <4>1, <4>2, <4>3, <4>4
        <3>. QED
            BY <3>1, <3>2
    <2>. QED
        BY <2>1, <2>2 DEF Answers
<1>19. Bindings'
    BY <1>1, BindingsKept DEF NamerInv
<1>20. Accounts(pool, Owning, Namers)'
    <2>1. Namers' = Namers
        BY <1>1, <1>12 DEF Namers
    <2>2. Owning' = Owning
        BY <1>1 DEF Owning
    <2>. QED
        BY <1>1, <2>1, <2>2 DEF NamerInv
<1>. QED
    BY <1>1, <1>15, <1>16, <1>17, <1>18, <1>19, <1>20 DEF NamerInv

LEMMA ReplySendKeeps ==
    ASSUME NamerInv, ReplySend
    PROVE  NamerInv'
<1>1. \A c, k, val : c = namer.by /\ k = namer.to /\ val = namer.res => NamerInv'
    BY ToldKeeps
<1>. QED
    BY <1>1

-----------------------------------------------------------------------------
LEMMA NamerInitHolds == NamerInit => NamerInv
<1>. SUFFICES ASSUME NamerInit PROVE NamerInv
    OBVIOUS
<1>. DEFINE E == [name : Name \cup {"namer"}, port : PortId]
            e == [name |-> "namer", port |-> NAMER_PORT]
<1>1. NAMER_PORT \in PortId /\ NAMER_PORT = 1
    BY NamerAssumption DEF PortId, NAMER_PORT
<1>2. \A c \in Program : prog[c] = Idle2 /\ Idle2.pc = "idle" /\ Idle2.local = Gone /\ Idle2.call = Gone
      /\ Idle2.conns = <<>> /\ Idle2.op = "find"
    BY DEF NamerInit, Idle2
<1>3. Idle2 \in Prog
    BY DEF Idle2, Prog, Gone
<1>4. e \in E /\ e.name = "namer" /\ e.port = NAMER_PORT
    BY <1>1
<1>. HIDE DEF E, e
<1>5. entries \in Seq(E) /\ DOMAIN entries = {1} /\ entries[1] = e
    <2>1. entries = <<e>>
        BY DEF NamerInit, e
    <2>. QED
        BY <1>4, <2>1
<1>6. \A p \in PortId : queue[p] = <<>>
    BY DEF NamerInit
<1>7. namer.pc = "recv" /\ DOMAIN queue = PortId
    BY DEF NamerInit
<1>8. NamerTypes
    <2>1. prog \in [Program -> Prog]
        BY <1>3 DEF NamerInit
    <2>2. \A S : <<>> \in Seq(S)
        OBVIOUS
    <2>. QED
        BY <1>1, <1>5, <1>6, <1>7, <2>1, <2>2 DEF NamerTypes, E
<1>9. \A c \in Program : Apart(prog[c])
    BY <1>2 DEF Apart
<1>10. Accounts(pool, Owning, Namers)
    <2>1. Namers = {}
        BY <1>7 DEF Namers
    <2>2. \A c \in Program : Owning[c] = {}
        BY <1>2 DEF Owning, Held, PortId, Gone
    <2>3. pool \in Seq(PortId) /\ DOMAIN pool = 1..Ports /\ \A i \in 1..Ports : pool[i] = i + 1
        <3>1. pool = [i \in 1..Ports |-> i + 1]
            BY DEF NamerInit
        <3>2. \A i \in 1..Ports : i + 1 \in PortId
            BY NamerAssumption DEF PortId
        <3>. QED
            BY <3>1, <3>2, NamerAssumption
    <2>4. \A p \in PortId : (\E i \in DOMAIN pool : pool[i] = p) <=> p # NAMER_PORT
        <3>1. \A p \in PortId : p # 1 => p - 1 \in DOMAIN pool /\ pool[p - 1] = p
            BY <2>3, NamerAssumption DEF PortId
        <3>2. \A i \in DOMAIN pool : pool[i] # 1
            BY <2>3, NamerAssumption
        <3>. QED
            BY <1>1, <3>1, <3>2
    <2>5. \A i, j \in DOMAIN pool : pool[i] = pool[j] => i = j
        BY <2>3, NamerAssumption
    <2>. QED
        BY <2>1, <2>2, <2>3, <2>4, <2>5 DEF Accounts, Owning
<1>11. Questions /\ InHand /\ Answers
    BY <1>1, <1>2, <1>6, <1>7 DEF Questions, InHand, Answers
<1>12. Bindings
    BY <1>2, <1>5 DEF Bindings
<1>. QED
    BY <1>8, <1>9, <1>10, <1>11, <1>12 DEF NamerInv

LEMMA NamerStep ==
    ASSUME NamerInv, NamerNext
    PROVE  NamerInv'
BY CreateServiceKeeps, FindServiceKeeps, ConnectKeeps, AskKeeps, AnsweredKeeps, RegisteredKeeps,
   FoundKeeps, DeleteKeeps, NamerHandleKeeps, ReplyPortKeeps, ReplySendKeeps, ReplyCloseKeeps DEF NamerNext

LEMMA NamerStutters ==
    ASSUME NamerInv, UNCHANGED namerVars
    PROVE  NamerInv'
<1>1. entries' = entries /\ namer' = namer /\ pool' = pool /\ queue' = queue /\ prog' = prog
    BY DEF namerVars
<1>2. NamerTypes'
    BY <1>1 DEF NamerInv, NamerTypes
<1>3. Accounts(pool, Owning, Namers)'
    BY <1>1 DEF NamerInv, Owning, Namers
<1>4. SameMail
    BY <1>1 DEF SameMail
<1>5. Bindings'
    BY <1>1, BindingsKept
<1>. QED
    BY <1>1, <1>2, <1>3, <1>4, <1>5, MailKept DEF NamerInv

LEMMA NamerFits ==
    ASSUME NamerInv
    PROVE  CallsFit
<1>1. \A c \in Program : Owning[c] = Held(prog[c])
    BY DEF Owning
<1>2. Accounts(pool, Owning, Namers)
    BY DEF NamerInv
<1>3. \A c \in Program : Held(prog[c]) = PortOf(c) \ {Gone}
    <2>1. SUFFICES ASSUME NEW c \in Program PROVE Held(prog[c]) = PortOf(c) \ {Gone}
        OBVIOUS
    <2>2. /\ prog[c].local \in PortId \cup {Gone} /\ prog[c].call \in PortId \cup {Gone}
          /\ \A i \in DOMAIN prog[c].conns : prog[c].conns[i].local \in PortId
        BY ProgIs DEF Prog, Held
    <2>3. Gone \notin PortId
        BY DEF PortId, Gone
    <2>. QED
        BY <2>2, <2>3 DEF Held, PortOf
<1>4. PortsAccounted
    <2>1. IsInjective(pool)
        BY <1>2 DEF Accounts, IsInjective
    <2>2. \A c, d \in Program : c # d => PortOf(c) \cap PortOf(d) \subseteq {Gone}
        <3>1. \A c, d \in Program : c # d => Held(prog[c]) \cap Held(prog[d]) = {}
            BY <1>1, <1>2 DEF Accounts
        <3>. QED
            BY <1>3, <3>1
    <2>3. \A p \in PortId : (\E i \in DOMAIN pool : pool[i] = p)
                         <=> p # NAMER_PORT /\ p \notin Namers /\ \A c \in Program : p \notin PortOf(c) \ {Gone}
        BY <1>1, <1>2, <1>3 DEF Accounts
    <2>4. \A p \in Namers : p \in PortId
        BY DEF NamerInv, NamerTypes, Namers
    <2>5. NAMER_PORT \in PortId /\ \A c \in Program : PortOf(c) \ {Gone} \subseteq PortId
        BY <1>3, NamerAssumption DEF Held, PortId, NAMER_PORT
    <2>6. \A p : p \in Used <=> p \in PortId /\ ~\E i \in DOMAIN pool : pool[i] = p
        BY DEF Used, ToSet
    <2>7. \A p : p \in Used <=> p = NAMER_PORT \/ p \in Namers \/ \E c \in Program : p \in PortOf(c) \ {Gone}
        BY <2>3, <2>4, <2>5, <2>6
    <2>8. Used = {NAMER_PORT} \cup ((UNION {PortOf(c) : c \in Program}) \ {Gone}) \cup Namers
        BY <2>7
    <2>. QED
        BY <2>1, <2>2, <2>8 DEF PortsAccounted, Namers
<1>5. AnswersFit
    <2>1. SUFFICES ASSUME NEW c \in Program, prog[c].pc = "wait"
          PROVE  LET due == queue[NAMER_PORT]
                     at  == queue[prog[c].call]
                 IN  /\ \A i, j \in DOMAIN due : due[i].by = c /\ due[j].by = c => i = j
                     /\ Len(at) <= 1 /\ \A i \in DOMAIN at : at[i].by = c
                     /\ Asks(c) \/ Handles(c) \/ Heard(c)
                     /\ ~(Asks(c) /\ Handles(c)) /\ ~(Heard(c) /\ (Asks(c) \/ Handles(c)))
                     /\ Handles(c) => namer.to = prog[c].call
        BY DEF AnswersFit
    <2>. DEFINE at == queue[prog[c].call]
    <2>2. prog[c].call \in PortId \ {NAMER_PORT}
        BY <2>1, ProgIs DEF Apart, Held
    <2>3. /\ Asks(c) \/ Handles(c) \/ Heard(c)
          /\ Len(at) <= 1 /\ (Heard(c) => at[1].by = c)
        BY <2>1 DEF NamerInv, Answers
    <2>4. \A i \in DOMAIN at : i = 1
        <3>1. at \in Seq([res : Int, by : Program])
            BY <2>2 DEF NamerInv, NamerTypes
        <3>. QED
            BY <2>3, <3>1
    <2>5. \A i \in DOMAIN at : at[i].by = c
        <3>1. ASSUME NEW i \in DOMAIN at PROVE at[i].by = c
            <4>1. i = 1 /\ at # <<>>
                BY <2>4
            <4>. QED
                BY <2>3, <4>1 DEF Heard
        <3>. QED
            BY <3>1
    <2>6. ~(Asks(c) /\ Handles(c)) /\ ~(Heard(c) /\ Asks(c))
        BY DEF NamerInv, Questions, Asks
    <2>7. Handles(c) => ~Heard(c) /\ namer.to = prog[c].call
        BY DEF NamerInv, InHand, Handles
    <2>8. \A i, j \in DOMAIN queue[NAMER_PORT] :
             queue[NAMER_PORT][i].by = c /\ queue[NAMER_PORT][j].by = c => i = j
        BY DEF NamerInv, Questions
    <2>. QED
        BY <2>3, <2>5, <2>6, <2>7, <2>8
<1>6. ServiceIsFound
    <2>1. \A c \in Program : \A i \in DOMAIN prog[c].conns :
              prog[c].conns[i].kind = "service" => Lookup(prog[c].conns[i].name) = prog[c].conns[i].local
        BY LookupIs DEF NamerInv, Bindings
    <2>. QED
        BY <2>1 DEF ServiceIsFound, NamerInv, Bindings
<1>. QED
    BY <1>4, <1>5, <1>6 DEF CallsFit

\* Whatever programs, names and ports there are, in whatever order programs register,
\* look up and drop connections while the namer answers: no port is lost or has two
\* owners, every call of namer.cpp gets the one answer to its own question although
\* the numbers of its ports come back with every call, and a service that came about
\* is found under its name.
THEOREM NamerSafe == NamerSpec => []CallsFit
<1>1. NamerInit => NamerInv
    BY NamerInitHolds
<1>2. NamerInv /\ [NamerNext]_namerVars => NamerInv'
    BY NamerStep, NamerStutters
<1>3. NamerInv => CallsFit
    BY NamerFits
<1>. QED
    BY <1>1, <1>2, <1>3, PTL DEF NamerSpec
=============================================================================
