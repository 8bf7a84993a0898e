-------------------------------- MODULE Ports --------------------------------
(***************************************************************************)
(* Ports, the messages between threads: port_create, port_destroy,          *)
(* port_option, port_send and port_recv, on top of the scheduler of Sched.  *)
(* src/openblt/kernel/port.c                                                *)
(*                                                                         *)
(* The threads are there from the start and none dies: a thread that is     *)
(* blocked in a call cannot, and one that is not takes part in no port.     *)
(***************************************************************************)
EXTENDS Sched, FiniteSets

CONSTANTS
    Port,         \* the port_t's (and ids) threads can create
    Limbo,        \* reaper_sem, where the reaper stays
    MaxMsgCount,  \* MAX_MSGCOUNT
    Team,         \* the team of each thread
    Master,       \* the ports that programs make masters of others
    Slave,        \* the ports that programs slave to a master
    Fits,         \* may a message fit (TRUE), may it not (FALSE)
    Nowaits,      \* what programs set PORT_OPT_NOWAIT to
    MaxRefs       \* bound of the model on the refcount of a port

SendQ(p) == <<"sendqueue", p>>

ASSUME PortsAssumption ==
    /\ Waitable = Port \cup {SendQ(p) : p \in Port} \cup {Limbo}
    /\ Port \cap {SendQ(p) : p \in Port} = {}
    /\ Limbo \notin Port \cup {SendQ(p) : p \in Port}
    /\ MaxMsgCount \in Nat \ {0} /\ MaxRefs \in Nat /\ IsFiniteSet(Port)
    /\ DOMAIN Team = Thread /\ Thread # {} /\ IsFiniteSet(Thread)
    /\ Master \subseteq Port /\ Slave \subseteq Port
    /\ Fits \subseteq BOOLEAN /\ Nowaits \subseteq BOOLEAN

VARIABLES
    k,         \* the scheduler's state
    live,      \* the ports rsrc_find_port finds; of the others nothing is kept
    owner,     \* rsrc.owner of a port
    msgs,      \* port_t.first, by next, to last; msgcount is its length
    slaved,    \* port_t.slaved, NULL for 0
    refcount,  \* port_t.refcount
    nowait,    \* port_t.nowait
    pc,        \* where a task that is switched to resumes
    call,      \* the local variables of a blocked port_send or port_recv
    stale,     \* threads whose local p points to memory port_destroy freed
    res,       \* the port_send or port_recv that returned last: whose, and what
    passed     \* queues whose sleepers a wake-up was lost for, see PassedBy

vars == <<k, live, owner, msgs, slaved, refcount, nowait, pc, call, stale, res, passed>>

\* The data of a message is abstracted; src tells two messages apart.
Message == [from : Port, to : Port]
Error == {"SENDPORT", "RECVPORT", "RESOURCE", "WOULD_BLOCK", "MEMORY"}
Result == [ t : Thread \cup {NULL}, m : Message \cup {NULL},
            code : Error \cup {"NONE", "SENT", "RECEIVED"} ]
PC == {"user", "port_send", "port_recv"}

\* p is the port a call works on (the master, if dst is a slave), fits whether
\* the message passes the check of size and place.  NULL fields are not used.
Call == [p : Port \cup {NULL}, m : Message \cup {NULL}, fits : BOOLEAN]
NoCall == [p |-> NULL, m |-> NULL, fits |-> TRUE]

me == k.current
InUser == k.stop = "no" /\ pc[me] = "user" /\ me \in Thread
Resumes(at) == k.stop = "no" /\ pc[me] = at

-----------------------------------------------------------------------------
\* All threads are ready, one runs; the reaper found nothing to do.
Init ==
    /\ \E t \in Thread : \E q \in [1..(Cardinality(Thread) - 1) -> Thread \ {t}] :
        /\ \A i, j \in DOMAIN q : q[i] = q[j] => i = j
        /\ k = [ queue      |-> [o \in Object |-> IF o = RunQ THEN q
                                    ELSE IF o = Limbo THEN <<Reaper>> ELSE <<>>],
                 waiting_on |-> [u \in Task |-> IF u \in {t, Idle} THEN NULL
                                    ELSE IF u = Reaper THEN Limbo ELSE RunQ],
                 flags      |-> [u \in Task |-> IF u = t THEN "RUNNING"
                                    ELSE IF u = Idle THEN "READY" ELSE "WAITING"],
                 status     |-> [u \in Task |-> "NONE"],
                 wait_time  |-> [u \in Task |-> 0],
                 current    |-> t,
                 live_tasks |-> Cardinality(Thread) + 2,
                 stop       |-> "no" ]
    /\ live = {} /\ stale = {} /\ passed = {}
    /\ owner = [p \in Port |-> NULL]
    /\ msgs = [p \in Port |-> <<>>]
    /\ slaved = [p \in Port |-> NULL]
    /\ refcount = [p \in Port |-> 0]
    /\ nowait = [p \in Port |-> FALSE]
    /\ pc = [u \in Task |-> "user"]
    /\ call = [t \in Thread |-> NoCall]
    /\ res = [t |-> NULL, code |-> "NONE", m |-> NULL]

\* For the properties: from now on the sleepers of `missed' are passed by, until
\* they have all gone.
PassedBy(missed) == passed' = {o \in passed \cup missed : k'.queue[o] # <<>>}

-----------------------------------------------------------------------------
(* Making, changing and destroying a port.                                  *)

PortCreate(p) ==
    /\ InUser
    /\ p \notin live
    /\ live' = live \cup {p}
    /\ owner' = [owner EXCEPT ![p] = Team[me]]
    /\ refcount' = [refcount EXCEPT ![p] = 1]
    /\ UNCHANGED <<k, msgs, slaved, nowait, pc, call, stale, res, passed>>

\* Slips: the senders are not woken; the slaves are not asked for.
PortDestroyHalf(p) ==
    /\ InUser
    /\ p \in live /\ refcount[p] = 1
    /\ k' = RsrcRelease(k, p)
    /\ live' = live \ {p}
    /\ PassedBy({})
    /\ UNCHANGED <<owner, msgs, slaved, refcount, nowait, pc, call, stale, res>>

PortDestroyMaster(p) ==
    /\ InUser
    /\ p \in live
    /\ k' = RsrcRelease(RsrcRelease(k, p), SendQ(p))
    /\ live' = live \ {p}
    /\ slaved' = [slaved EXCEPT ![p] = NULL]
    /\ PassedBy({})
    /\ UNCHANGED <<owner, msgs, refcount, nowait, pc, call, stale, res>>

\* A thread woken already, and not by this, still holds the pointer.  The
\* count of the port's master, if it has one, stays as it is.
PortDestroy(p) ==
    /\ InUser
    /\ p \in live /\ refcount[p] = 1            \* else ERR_RESOURCE
    /\ k' = RsrcRelease(RsrcRelease(k, p), SendQ(p))
    /\ live' = live \ {p}
    /\ stale' = stale \cup {t \in Thread : /\ call[t].p = p
                                          /\ k'.status[t] = "NONE"}
    /\ owner' = [owner EXCEPT ![p] = NULL]
    /\ msgs' = [msgs EXCEPT ![p] = <<>>]
    /\ slaved' = [slaved EXCEPT ![p] = NULL]
    /\ refcount' = [refcount EXCEPT ![p] = 0]
    /\ nowait' = [nowait EXCEPT ![p] = FALSE]
    /\ PassedBy({})
    /\ UNCHANGED <<pc, call, res>>

\* PORT_OPT_SLAVE with a master, or with 0.  The new master is counted before
\* the old one is let go; they may be the same.
PortSlave(p, master) ==
    /\ InUser
    /\ p \in live /\ owner[p] = Team[me]        \* else ERR_RESOURCE, ERR_PERMISSION
    /\ master # NULL => /\ master \in live /\ owner[master] = Team[me]
                        /\ refcount[master] < MaxRefs
    /\ refcount' =
         [q \in Port |-> refcount[q] + (IF q = master THEN 1 ELSE 0)
                                     - (IF q = slaved[p] THEN 1 ELSE 0)]
    /\ slaved' = [slaved EXCEPT ![p] = master]
    /\ UNCHANGED <<k, live, owner, msgs, nowait, pc, call, stale, res, passed>>

PortNowait(p, arg) ==
    /\ InUser
    /\ p \in live /\ owner[p] = Team[me]
    /\ nowait' = [nowait EXCEPT ![p] = arg]
    /\ UNCHANGED <<k, live, owner, msgs, slaved, refcount, pc, call, stale, res, passed>>

-----------------------------------------------------------------------------
(* Sending and receiving.                                                   *)

\* A call of the running thread ends: what it returned, what it received.
Deliver(code, m) ==
    /\ res' = [t |-> me, code |-> code, m |-> m]
    /\ pc' = [pc EXCEPT ![me] = "user"]
    /\ call' = [call EXCEPT ![me] = NoCall]

Return(code) == Deliver(code, NULL)

\* wait_on: the call sleeps on o; at is the loop it comes back to.
Block(o, at, c) ==
    /\ k' = WaitOn(k, o)
    /\ pc' = [pc EXCEPT ![me] = at]
    /\ call' = [call EXCEPT ![me] = c]
    /\ PassedBy({})
    /\ UNCHANGED <<msgs, res>>

\* A blocked call comes back from wait_on: an error ends it, a pointer to a
\* port that is gone ends everything, or the loop goes on.
Comeback(loop) ==
    /\ IF k.status[me] # "NONE"
       THEN Return(k.status[me]) /\ UNCHANGED <<k, msgs, stale, passed>>
       ELSE IF me \in stale
       THEN /\ k' = [k EXCEPT !.stop = "wild"]
            /\ UNCHANGED <<msgs, pc, call, stale, res, passed>>
       ELSE loop /\ UNCHANGED stale
    /\ UNCHANGED <<live, owner, slaved, refcount, nowait>>

\* Slips: the receivers are woken only for the first message of a port; the
\* message is put before the others.
SendLoopFirst(p, m, fits) ==
    IF Len(msgs[p]) >= MaxMsgCount
    THEN Block(SendQ(p), "port_send", [p |-> p, m |-> m, fits |-> fits])
    ELSE /\ msgs' = [msgs EXCEPT ![p] = Append(@, m)]
         /\ k' = IF msgs[p] = <<>> THEN WakeOne(k, p, "NONE") ELSE k
         /\ PassedBy({})
         /\ Return("SENT")

SendLoopAtHead(p, m, fits) ==
    IF Len(msgs[p]) >= MaxMsgCount
    THEN Block(SendQ(p), "port_send", [p |-> p, m |-> m, fits |-> fits])
    ELSE /\ msgs' = [msgs EXCEPT ![p] = <<m>> \o @]
         /\ k' = WakeOne(k, p, "NONE")
         /\ PassedBy({})
         /\ Return("SENT")

\* From the loop of port_send on: p is the port, m the message.  A sender that was
\* woken for a place and leaves it free wakes no other; and if p was slaved while
\* the sender slept, the receivers of its master are woken for what p gets.
SendLoop(p, m, fits) ==
    IF Len(msgs[p]) >= MaxMsgCount
    THEN IF nowait[p]
         THEN Return("WOULD_BLOCK") /\ UNCHANGED <<k, msgs, passed>>
         ELSE Block(SendQ(p), "port_send", [p |-> p, m |-> m, fits |-> fits])
    ELSE IF ~fits
    THEN /\ Return("MEMORY") /\ UNCHANGED <<k, msgs>>
         /\ PassedBy(IF pc[me] = "port_send" THEN {SendQ(p)} ELSE {})
    ELSE /\ msgs' = [msgs EXCEPT ![p] = Append(@, m)]
         /\ k' = WakeOne(k, IF slaved[p] # NULL THEN slaved[p] ELSE p, "NONE")
         /\ PassedBy(IF slaved[p] \in {NULL, p} THEN {} ELSE {p})
         /\ Return("SENT")

PortSend(src, dst, fits) ==
    /\ InUser
    /\ LET p == IF slaved[dst] # NULL THEN slaved[dst] ELSE dst
           error == IF src \notin live THEN "SENDPORT"
                    ELSE IF dst \notin live THEN "RECVPORT"
                    ELSE IF slaved[dst] # NULL
                            /\ (p \notin live \/ slaved[p] # NULL)
                    THEN "RESOURCE"
                    ELSE "NONE"
       IN  IF error # "NONE"
           THEN Return(error) /\ UNCHANGED <<k, msgs, passed>>
           ELSE SendLoop(p, [from |-> src, to |-> dst], fits)
    /\ UNCHANGED <<live, owner, slaved, refcount, nowait, stale>>

\* A slip: a sender that was woken takes it that there is room.
PortSendResumeOnce ==
    /\ Resumes("port_send")
    /\ Comeback(/\ msgs' = [msgs EXCEPT ![call[me].p] = Append(@, call[me].m)]
                /\ k' = WakeOne(k, call[me].p, "NONE")
                /\ PassedBy({})
                /\ Return("SENT"))

PortSendResume ==
    /\ Resumes("port_send")
    /\ Comeback(SendLoop(call[me].p, call[me].m, call[me].fits))

\* A slip: a sender is woken only by the receive that finds the port full.
RecvLoopFull(p) ==
    IF msgs[p] = <<>>
    THEN Block(p, "port_recv", [NoCall EXCEPT !.p = p])
    ELSE /\ msgs' = [msgs EXCEPT ![p] = Tail(@)]
         /\ k' = IF Len(msgs[p]) = MaxMsgCount THEN WakeOne(k, SendQ(p), "NONE") ELSE k
         /\ PassedBy({})
         /\ Deliver("RECEIVED", Head(msgs[p]))

\* From the loop of port_recv on.  A sender is woken while there is one, not
\* only when the port was full.
RecvLoop(p) ==
    IF msgs[p] = <<>>
    THEN IF nowait[p]
         THEN Return("WOULD_BLOCK") /\ UNCHANGED <<k, msgs, passed>>
         ELSE Block(p, "port_recv", [NoCall EXCEPT !.p = p])
    ELSE /\ msgs' = [msgs EXCEPT ![p] = Tail(@)]
         /\ k' = WakeOne(k, SendQ(p), "NONE")
         /\ PassedBy({})
         /\ Deliver("RECEIVED", Head(msgs[p]))

PortRecv(dst) ==
    /\ InUser
    /\ IF dst \notin live
       THEN Return("RECVPORT") /\ UNCHANGED <<k, msgs, passed>>
       ELSE RecvLoop(dst)
    /\ UNCHANGED <<live, owner, slaved, refcount, nowait, stale>>

PortRecvResume ==
    /\ Resumes("port_recv")
    /\ Comeback(RecvLoop(call[me].p))

-----------------------------------------------------------------------------
\* The timer interrupt (Threads!TimerIrq with nobody in os_sleep).
Tick ==
    /\ k.stop = "no" /\ pc[me] = "user"
    /\ k' = Swtch(k)
    /\ UNCHANGED <<live, owner, msgs, slaved, refcount, nowait, pc, call, stale, res, passed>>

Stopped == k.stop # "no" /\ UNCHANGED vars

PortCall ==
    \E p \in Port :
        \/ PortCreate(p) \/ PortDestroy(p)
        \/ p \in Slave /\ \E master \in Master \cup {NULL} : PortSlave(p, master)
        \/ \E arg \in Nowaits : PortNowait(p, arg)
        \/ \E src \in Port, fits \in Fits : PortSend(src, p, fits)
        \/ PortRecv(p)

Resume == PortSendResume \/ PortRecvResume

Next == PortCall \/ Resume \/ Tick \/ Stopped

Spec == Init /\ [][Next]_vars

\* The kernel finishes what it began, and no tick is missed for ever.
FairSpec == Spec /\ WF_vars(Resume) /\ SF_vars(Tick)

-----------------------------------------------------------------------------
(* Properties.                                                              *)

PortQueue == Port \cup {SendQ(p) : p \in Port}

TypeOK ==
    /\ k \in KState
    /\ live \subseteq Port
    /\ owner \in [Port -> {Team[t] : t \in Thread} \cup {NULL}]
    /\ msgs \in [Port -> Seq(Message)]
    /\ slaved \in [Port -> Port \cup {NULL}]
    /\ refcount \in [Port -> Int]
    /\ nowait \in [Port -> BOOLEAN]
    /\ pc \in [Task -> PC]
    /\ call \in [Thread -> Call]
    /\ stale \subseteq Thread
    /\ res \in Result
    /\ passed \subseteq PortQueue

\* Queues, waiting_on and flags agree and every thread runs or is on a queue,
\* whatever port_send and port_recv do to them.
SchedulerConsistent ==
    /\ QueuesConsistent(k) /\ FlagsConsistent(k) /\ CurrentRuns(k)
    /\ Placed(k) = Thread

\* A thread asleep in a call is on the queue of the port its local variable
\* points to, and the port is there: port_destroy wakes all sleepers of both
\* queues, so only a thread that was woken before can miss it.
SleepersKnown ==
    \A t \in Thread, p \in Port :
        /\ k.waiting_on[t] = p => /\ pc[t] = "port_recv" /\ call[t].p = p
                                  /\ p \in live
        /\ k.waiting_on[t] = SendQ(p) => /\ pc[t] = "port_send" /\ call[t].p = p
                                         /\ p \in live

\* port_send waits in a loop, not once: a sender that was woken may find that
\* another took its place, and no port ever holds more than MAX_MSGCOUNT.
PortBounded == \A p \in Port : Len(msgs[p]) <= MaxMsgCount

\* The threads that were woken from their wait in a call and did not run yet.
Woken(at, p, o) ==
    {t \in Thread : pc[t] = at /\ call[t].p = p /\ k.waiting_on[t] # o}

\* "If a thread is sleeping on the destination, wake it up": while receivers
\* sleep, for every message in the port a receiver is on its way.  Not so if a
\* message came in by a sender that slept while the port was slaved.
NoReceiverForgotten ==
    \A p \in live : k.queue[p] # <<>> /\ p \notin passed =>
        Len(msgs[p]) <= Cardinality(Woken("port_recv", p, p))

\* While senders sleep, for every free place in the port a sender is on its
\* way: port_recv wakes one for every message it takes, full port or not.  Not so
\* if a sender was woken whose message does not fit.
NoSenderForgotten ==
    \A p \in live : k.queue[SendQ(p)] # <<>> /\ SendQ(p) \notin passed =>
        MaxMsgCount - Len(msgs[p]) <= Cardinality(Woken("port_send", p, SendQ(p)))

\* A master outlives its slaves and counts at least them, so port_option never
\* panics with "master port not found?" and port_send always finds the master.
MasterKept ==
    \A p \in live :
        /\ slaved[p] # NULL => slaved[p] \in live
        /\ refcount[p] >= 1 + Cardinality({q \in live : slaved[q] = p})

\* port_send and port_recv return ERR_RESOURCE if the port does not exist
\* (doc/openblt.html): a call that waited for a port that is destroyed
\* meanwhile does not go on with it.
GonePortIsTold == k.stop # "wild"

\* A message does not stay in a port on which a receiver sleeps, unless the
\* receivers of the port were passed by.
MessageReachesSleeper ==
    \A t \in Thread, p \in Port :
        k.waiting_on[t] = p /\ p \in live /\ msgs[p] # <<>>
            ~> \/ k.waiting_on[t] # p \/ msgs[p] = <<>> \/ k.stop # "no"
               \/ p \in passed

\* Nor does a place in a port stay free on which a sender sleeps.
PlaceReachesSleeper ==
    \A t \in Thread, p \in Port :
        k.waiting_on[t] = SendQ(p) /\ Len(msgs[p]) < MaxMsgCount
            ~> \/ k.waiting_on[t] # SendQ(p) \/ Len(msgs[p]) >= MaxMsgCount
               \/ k.stop # "no" \/ SendQ(p) \in passed

\* Each port is a bounded first-in first-out queue: however senders and
\* receivers sleep, wake and overtake one another, no message is lost,
\* duplicated or reordered on its way to whoever receives it.
Promise == INSTANCE PortSpec WITH
    chan <- [p \in Port |-> IF p \in live THEN msgs[p] ELSE <<>>],
    got <- res

PortsKeepPromise == Promise!Spec

\* port_send, port_recv and port_destroy leave the scheduler whole, and know each
\* thread that sleeps in them and each message that waits.
WaitersKept == TypeOK /\ SchedulerConsistent /\ SleepersKnown /\ PortBounded

\* Neither side of a port sleeps while the other side left something for it that
\* nobody is on the way to take (port_send, port_recv); it takes one of the two
\* wake-ups that port_send loses, see SendLoop.
NobodyForgotten == NoReceiverForgotten /\ NoSenderForgotten

\* And what it waits for reaches it in the end.
WaitersReached == MessageReachesSleeper /\ PlaceReachesSleeper
=============================================================================
