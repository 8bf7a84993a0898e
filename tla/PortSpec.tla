------------------------------ MODULE PortSpec ------------------------------
(***************************************************************************)
(* What the ports of the kernel promise, with no scheduler in sight: each   *)
(* port is a bounded first-in first-out queue of messages; a send appends   *)
(* one message or none, a receive takes the oldest.  Ports implements it.   *)
(***************************************************************************)
EXTENDS Naturals, Sequences

CONSTANTS
    Thread,      \* those who send and receive
    Port,
    Message,
    Error,       \* the ways a call fails
    MaxMsgCount,
    NULL         \* no message

VARIABLES
    live,        \* the ports that exist
    chan,        \* the messages sent to a port and not received yet
    got          \* the call that returned last: whose, and what

vars == <<live, chan, got>>

Answer(t, code, m) == [t |-> t, code |-> code, m |-> m]

Init ==
    /\ live = {}
    /\ chan = [p \in Port |-> <<>>]
    /\ got = Answer(NULL, "NONE", NULL)

Create(p) ==
    /\ p \notin live
    /\ live' = live \cup {p} /\ chan' = [chan EXCEPT ![p] = <<>>]
    /\ UNCHANGED got

\* What was sent and not received goes with the port.
Destroy(p) ==
    /\ p \in live
    /\ live' = live \ {p} /\ chan' = [chan EXCEPT ![p] = <<>>]
    /\ UNCHANGED got

Send(t, p, m) ==
    /\ p \in live /\ Len(chan[p]) < MaxMsgCount
    /\ chan' = [chan EXCEPT ![p] = Append(@, m)]
    /\ got' = Answer(t, "SENT", NULL)
    /\ UNCHANGED live

Receive(t, p) ==
    /\ p \in live /\ chan[p] # <<>>
    /\ got' = Answer(t, "RECEIVED", Head(chan[p]))
    /\ chan' = [chan EXCEPT ![p] = Tail(@)]
    /\ UNCHANGED live

\* A call that fails changes no port.
Fail(t) ==
    /\ \E e \in Error : got' = Answer(t, e, NULL)
    /\ UNCHANGED <<live, chan>>

Next ==
    \/ \E p \in Port : Create(p) \/ Destroy(p)
    \/ \E t \in Thread, p \in Port : \/ \E m \in Message : Send(t, p, m)
                                     \/ Receive(t, p)
    \/ \E t \in Thread : Fail(t)

Spec == Init /\ [][Next]_vars
=============================================================================
