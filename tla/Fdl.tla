-------------------------------- MODULE Fdl --------------------------------
(***************************************************************************)
(* The file descriptors of a program (lib/libposix/fdl.c) under their lock, *)
(* a user semaphore (lib/libc/qsem.c): threads of one team open and close   *)
(* descriptors, interleaved between any two accesses to shared memory.      *)
(***************************************************************************)
EXTENDS Integers, Sequences, FiniteSets, FiniteSetsExt, Functions

CONSTANTS
    FThread,      \* the threads
    MAX_FDS,
    Builds        \* which of "I386" and "other" qsem.c is compiled for

Free == "free"
Fd == 0..MAX_FDS - 1

ASSUME FdlAssumption ==
    /\ IsFiniteSet(FThread) /\ Free \notin FThread
    /\ MAX_FDS \in Nat /\ Builds \subseteq {"I386", "other"}

VARIABLES
    build,
    fd_table,     \* who opened each descriptor, or Free
    qcount,       \* fd_table_lock->count
    mutex,        \* fd_table_lock->mutex: count and sleepers, the kernel's
    ft            \* each thread: where it is, and at which descriptor

fdlVars == <<build, fd_table, qcount, mutex, ft>>

\* Slip: the lock gets a unit for every descriptor.
FdlInitMany ==
    /\ build \in Builds
    /\ fd_table = [d \in Fd |-> Free]
    /\ qcount = IF build = "I386" THEN 0 ELSE MAX_FDS
    /\ mutex = [count |-> IF build = "I386" THEN MAX_FDS ELSE 0, queue |-> <<>>]
    /\ ft = [t \in FThread |-> [pc |-> "idle", fd |-> 0]]

\* qsem_create(1): the unit is in the kernel's semaphore or in count.
FdlInit ==
    /\ build \in Builds
    /\ fd_table = [d \in Fd |-> Free]
    /\ qcount = IF build = "I386" THEN 0 ELSE 1
    /\ mutex = [count |-> IF build = "I386" THEN 1 ELSE 0, queue |-> <<>>]
    /\ ft = [t \in FThread |-> [pc |-> "idle", fd |-> 0]]

Goes(t, pc) == ft' = [ft EXCEPT ![t].pc = pc]
At(t, pc) == ft[t].pc = pc

FdlOpen(t) ==
    /\ At(t, "idle")
    /\ Goes(t, IF build = "I386" THEN "sem_acquire" ELSE "atomic_sub")
    /\ UNCHANGED <<build, fd_table, qcount, mutex>>

\* Slip: zero is taken for a unit that is left.
AtomicSubLate(t) ==
    /\ At(t, "atomic_sub")
    /\ qcount' = qcount - 1
    /\ Goes(t, IF qcount < 0 THEN "sem_acquire" ELSE "scan")
    /\ UNCHANGED <<build, fd_table, mutex>>

AtomicSub(t) ==
    /\ At(t, "atomic_sub")
    /\ qcount' = qcount - 1
    /\ Goes(t, IF qcount <= 0 THEN "sem_acquire" ELSE "scan")
    /\ UNCHANGED <<build, fd_table, mutex>>

SemAcquire(t) ==
    /\ At(t, "sem_acquire")
    /\ mutex' = [ count |-> mutex.count - 1,
                  queue |-> IF mutex.count <= 0 THEN Append(mutex.queue, t)
                            ELSE mutex.queue ]
    /\ Goes(t, IF mutex.count <= 0 THEN "asleep" ELSE "scan")
    /\ UNCHANGED <<build, fd_table, qcount>>

\* _fdl_alloc_descriptor looks for a free place, and takes it with a second access.
Scan(t) ==
    /\ At(t, "scan")
    /\ ft' = [ft EXCEPT ![t] =
                 IF @.fd = MAX_FDS THEN [@ EXCEPT !.pc = "release"]
                 ELSE IF fd_table[@.fd] = Free THEN [@ EXCEPT !.pc = "take"]
                 ELSE [@ EXCEPT !.fd = ft[t].fd + 1]]
    /\ UNCHANGED <<build, fd_table, qcount, mutex>>

Take(t) ==
    /\ At(t, "take")
    /\ fd_table' = [fd_table EXCEPT ![ft[t].fd] = t]
    /\ Goes(t, "release")
    /\ UNCHANGED <<build, qcount, mutex>>

\* Slip: the unit is given back to the kernel only if somebody sleeps already.
AtomicAddSleepers(t) ==
    /\ At(t, "release") /\ build # "I386"
    /\ qcount' = qcount + 1
    /\ ft' = [ft EXCEPT ![t] = [pc |-> IF mutex.queue # <<>> THEN "sem_release" ELSE "idle", fd |-> 0]]
    /\ UNCHANGED <<build, fd_table, mutex>>

\* qsem_release.
AtomicAdd(t) ==
    /\ At(t, "release") /\ build # "I386"
    /\ qcount' = qcount + 1
    /\ ft' = [ft EXCEPT ![t] = [pc |-> IF qcount < 0 THEN "sem_release" ELSE "idle", fd |-> 0]]
    /\ UNCHANGED <<build, fd_table, mutex>>

SemRelease(t) ==
    /\ At(t, IF build = "I386" THEN "release" ELSE "sem_release")
    /\ IF mutex.queue = <<>>
       THEN /\ mutex' = [mutex EXCEPT !.count = @ + 1]
            /\ ft' = [ft EXCEPT ![t] = [pc |-> "idle", fd |-> 0]]
       ELSE /\ mutex' = [count |-> mutex.count + 1, queue |-> Tail(mutex.queue)]
            /\ ft' = [ft EXCEPT ![t] = [pc |-> "idle", fd |-> 0],
                                ![Head(mutex.queue)].pc = "scan"]
    /\ UNCHANGED <<build, fd_table, qcount>>

\* _close frees the place without the lock; any thread of the team may do it.
FdlClose(t, d) ==
    /\ At(t, "idle") /\ fd_table[d] # Free
    /\ fd_table' = [fd_table EXCEPT ![d] = Free]
    /\ UNCHANGED <<build, qcount, mutex, ft>>

FdlNext == \E t \in FThread :
    \/ FdlOpen(t) \/ AtomicSub(t) \/ SemAcquire(t) \/ Scan(t) \/ Take(t)
    \/ AtomicAdd(t) \/ SemRelease(t)
    \/ \E d \in Fd : FdlClose(t, d)

FdlSpec == FdlInit /\ [][FdlNext]_fdlVars
-----------------------------------------------------------------------------
Inside == {t \in FThread : ft[t].pc \in {"scan", "take", "release"}}

FdlTypeOK ==
    /\ build \in Builds
    /\ fd_table \in [Fd -> FThread \cup {Free}]
    /\ qcount \in -Cardinality(FThread)..1
    /\ mutex.count \in -Cardinality(FThread)..1
    /\ ft \in [FThread -> [pc : {"idle", "atomic_sub", "sem_acquire", "asleep", "scan",
                                 "take", "release", "sem_release"}, fd : 0..MAX_FDS]]

\* _fdl_alloc_descriptor never takes a descriptor that another thread opened
\* in the meantime, although _close frees them without the lock.
TakesOnlyFree ==
    \A t \in FThread : At(t, "take") => fd_table[ft[t].fd] = Free

\* Both forms of the user semaphore let one thread in, and account for it: the
\* unit is inside a thread, in count, in the kernel, or on its way there.  So
\* nobody sleeps unless somebody is there who will wake him.
UnitKept ==
    LET Ones(pc) == Cardinality({t \in FThread : At(t, pc)})
    IN  /\ Cardinality(Inside) <= 1
        /\ Cardinality(Inside) + Ones("sem_release") + mutex.count + Len(mutex.queue)
             + Max({0, qcount}) = 1
        /\ mutex.queue # <<>> => Inside # {} \/ Ones("sem_release") > 0

\* Under qsem_acquire and qsem_release one thread at a time looks for a descriptor,
\* takes one that is free, and leaves the unit to the next.
LockHolds == FdlTypeOK /\ TakesOnlyFree /\ UnitKept
=============================================================================
