------------------------------- MODULE SemSpec -------------------------------
(***************************************************************************)
(* What the counting semaphores of the kernel promise to the threads that   *)
(* use them, with no scheduler in sight.  Threads implements it.            *)
(***************************************************************************)
EXTENDS Naturals, Sequences

CONSTANTS
    Thread,      \* those who acquire and release
    Sem,         \* the semaphores
    InitCounts   \* what a semaphore may start with

VARIABLES
    live,        \* the semaphores that exist
    avail,       \* the units that can be taken without waiting
    waiters,     \* who sleeps on a semaphore, first come first
    granted,     \* sleepers that were handed a unit and do not know it yet
    refused,     \* sleepers whose semaphore was destroyed
    answer       \* what the last acquire of a thread answered

vars == <<live, avail, waiters, granted, refused, answer>>

Init ==
    /\ live = {} /\ granted = {} /\ refused = {}
    /\ avail = [s \in Sem |-> 0]
    /\ waiters = [s \in Sem |-> <<>>]
    /\ answer = [t \in Thread |-> "NONE"]

Create(s, n) ==
    /\ s \notin live
    /\ live' = live \cup {s}
    /\ avail' = [avail EXCEPT ![s] = n]
    /\ UNCHANGED <<waiters, granted, refused, answer>>

\* A thread that asks for a unit of a semaphore that does not exist.
Miss(t, s) ==
    /\ s \notin live
    /\ answer' = [answer EXCEPT ![t] = "RESOURCE"]
    /\ UNCHANGED <<live, avail, waiters, granted, refused>>

Take(t, s) ==
    /\ s \in live /\ avail[s] > 0
    /\ avail' = [avail EXCEPT ![s] = @ - 1]
    /\ answer' = [answer EXCEPT ![t] = "NONE"]
    /\ UNCHANGED <<live, waiters, granted, refused>>

Wait(t, s) ==
    /\ s \in live /\ avail[s] = 0
    /\ waiters' = [waiters EXCEPT ![s] = Append(@, t)]
    /\ UNCHANGED <<live, avail, granted, refused, answer>>

\* The unit goes to the first sleeper; nobody can take it on the way.
Release(s) ==
    /\ s \in live
    /\ IF waiters[s] = <<>>
       THEN avail' = [avail EXCEPT ![s] = @ + 1] /\ UNCHANGED <<waiters, granted>>
       ELSE /\ granted' = granted \cup {Head(waiters[s])}
            /\ waiters' = [waiters EXCEPT ![s] = Tail(@)]
            /\ UNCHANGED avail
    /\ UNCHANGED <<live, refused, answer>>

Destroy(s) ==
    /\ s \in live
    /\ live' = live \ {s}
    /\ avail' = [avail EXCEPT ![s] = 0]
    /\ refused' = refused \cup {waiters[s][i] : i \in DOMAIN waiters[s]}
    /\ waiters' = [waiters EXCEPT ![s] = <<>>]
    /\ UNCHANGED <<granted, answer>>

\* The sleeper learns how its wait ended.
Answer(t) ==
    /\ \/ t \in granted /\ answer' = [answer EXCEPT ![t] = "NONE"]
       \/ t \in refused /\ answer' = [answer EXCEPT ![t] = "RESOURCE"]
    /\ granted' = granted \ {t}
    /\ refused' = refused \ {t}
    /\ UNCHANGED <<live, avail, waiters>>

Next ==
    \/ \E s \in Sem : \/ \E n \in InitCounts : Create(s, n)
                      \/ \E t \in Thread : Miss(t, s) \/ Take(t, s) \/ Wait(t, s)
                      \/ Release(s) \/ Destroy(s)
    \/ \E t \in Thread : Answer(t)

Spec == Init /\ [][Next]_vars
=============================================================================
