------------------------------- MODULE Namer -------------------------------
(***************************************************************************)
(* Services and who looks for them: Connection (lib/libblt/Connection.cpp), *)
(* the calls of the namer (lib/libblt/namer.cpp) and the namer              *)
(* (srv/namer/namer.cpp), over ports whose numbers the kernel hands out     *)
(* again, last one freed first.                                             *)
(***************************************************************************)
EXTENDS Integers, Sequences, FiniteSets, SequencesExt

CONSTANTS
    Program,      \* single threaded programs that offer or look for a service
    Name,         \* the names of services
    Ports,        \* how many ports there are, after the namer's
    MaxConns      \* bound: connections one program keeps

ASSUME NamerAssumption == Ports \in Nat

NAMER_PORT == 1
Gone == -1        \* no port, and the namer's answer when there is none

VARIABLES
    entries,      \* the namer's list, first first
    namer,        \* what the namer is at: the message, and its reply port
    pool,         \* numbers of ports not in use, the next one first
    queue,        \* messages at each port
    prog          \* the state of each program

namerVars == <<entries, namer, pool, queue, prog>>

PortId == 1..Ports + 1

Idle2 == [pc |-> "idle", op |-> "find", name |-> "namer", local |-> Gone,
          call |-> Gone, res |-> Gone, conns |-> <<>>]

NamerInit ==
    /\ entries = <<[name |-> "namer", port |-> NAMER_PORT]>>
    /\ namer = [pc |-> "recv"]
    /\ pool = [i \in 1..Ports |-> i + 1]
    /\ queue = [p \in PortId |-> <<>>]
    /\ prog = [c \in Program |-> Idle2]

Used == PortId \ ToSet(pool)
PortCreate(p) == pool # <<>> /\ p = Head(pool) /\ pool' = Tail(pool)
PortDestroy(p) == pool' = <<p>> \o pool /\ queue' = [queue EXCEPT ![p] = <<>>]
Step(c, r) == prog' = [prog EXCEPT ![c] = r]

-----------------------------------------------------------------------------
\* CreateService(name): the connection of the service, with its port, is made
\* before it is registered.
CreateService(c, n) ==
    /\ prog[c].pc = "idle" /\ Len(prog[c].conns) < MaxConns
    /\ \E p \in PortId :
        /\ PortCreate(p)
        /\ Step(c, [prog[c] EXCEPT !.pc = "connect", !.op = "register", !.name = n, !.local = p])
    /\ UNCHANGED <<entries, namer, queue>>

FindService(c, n) ==
    /\ prog[c].pc = "idle" /\ Len(prog[c].conns) < MaxConns
    /\ Step(c, [prog[c] EXCEPT !.pc = "connect", !.op = "find", !.name = n])
    /\ UNCHANGED <<entries, namer, pool, queue>>

\* namer_register and namer_find make a connection to the namer for one call.
Connect(c) ==
    /\ prog[c].pc = "connect"
    /\ \E p \in PortId :
        /\ PortCreate(p)
        /\ Step(c, [prog[c] EXCEPT !.pc = "send", !.call = p])
    /\ UNCHANGED <<entries, namer, queue>>

Send(c) ==
    /\ prog[c].pc = "send"
    /\ queue' = [queue EXCEPT ![NAMER_PORT] =
           Append(@, [op |-> prog[c].op, name |-> prog[c].name, port |-> prog[c].local,
                      src |-> prog[c].call, by |-> c])]
    /\ Step(c, [prog[c] EXCEPT !.pc = "wait"])
    /\ UNCHANGED <<entries, namer, pool>>

\* Slip: the call does not wait for its answer.
AnsweredEarly(c) ==
    LET r == prog[c]
    IN  /\ r.pc = "wait"
        /\ PortDestroy(r.call)
        /\ Step(c, [r EXCEPT !.pc = r.op, !.call = Gone,
                     !.res = IF queue[r.call] = <<>> THEN Gone ELSE Head(queue[r.call]).res])
        /\ UNCHANGED <<entries, namer>>

\* Recv, then `delete cnxn'.
Answered(c) ==
    LET r == prog[c]
    IN  /\ r.pc = "wait" /\ queue[r.call] # <<>>
        /\ PortDestroy(r.call)
        /\ Step(c, [r EXCEPT !.pc = r.op, !.call = Gone, !.res = Head(queue[r.call]).res])
        /\ UNCHANGED <<entries, namer>>

\* Slip: a refused connection is not deleted.
RegisteredLeak(c) ==
    LET r == prog[c]
    IN  /\ r.pc = "register"
        /\ Step(c, [Idle2 EXCEPT !.conns = IF r.res # 0 THEN r.conns ELSE
                Append(r.conns, [kind |-> "service", name |-> r.name,
                                 local |-> r.local, remote |-> Gone])])
        /\ UNCHANGED <<entries, namer, pool, queue>>

\* The end of CreateService: the service is there, or its connection is deleted.
Registered(c) ==
    LET r == prog[c]
    IN  /\ r.pc = "register"
        /\ IF r.res = 0
           THEN /\ Step(c, [Idle2 EXCEPT !.conns =
                       Append(r.conns, [kind |-> "service", name |-> r.name,
                                        local |-> r.local, remote |-> Gone])])
                /\ UNCHANGED <<pool, queue>>
           ELSE /\ PortDestroy(r.local)
                /\ Step(c, [Idle2 EXCEPT !.conns = r.conns])
        /\ UNCHANGED <<entries, namer>>

\* The end of FindService: a connection of its own to the port that was found.
Found(c) ==
    LET r == prog[c]
    IN  /\ r.pc = "find"
        /\ IF r.res < 1
           THEN Step(c, [Idle2 EXCEPT !.conns = r.conns]) /\ UNCHANGED pool
           ELSE \E p \in PortId :
                  /\ PortCreate(p)
                  /\ Step(c, [Idle2 EXCEPT !.conns =
                         Append(r.conns, [kind |-> "client", name |-> r.name,
                                          local |-> p, remote |-> r.res])])
        /\ UNCHANGED <<entries, namer, queue>>

\* ~Connection.  What the namer knows of a service stays.
Delete(c, i) ==
    /\ prog[c].pc = "idle"
    /\ PortDestroy(prog[c].conns[i].local)
    /\ Step(c, [prog[c] EXCEPT !.conns = RemoveAt(@, i)])
    /\ UNCHANGED <<entries, namer>>

-----------------------------------------------------------------------------
Lookup(n) ==
    LET hits == {i \in DOMAIN entries : entries[i].name = n}
    IN  IF hits = {} THEN Gone ELSE entries[CHOOSE i \in hits : \A j \in hits : i <= j].port

\* Slip: a name may be registered again.
NamerHandleAgain ==
    /\ namer.pc = "recv" /\ queue[NAMER_PORT] # <<>>
    /\ LET q == Head(queue[NAMER_PORT])
       IN  /\ entries' = IF q.op = "register" THEN <<[name |-> q.name, port |-> q.port]>> \o entries
                         ELSE entries
           /\ namer' = [pc |-> "reply", to |-> q.src, by |-> q.by,
                        res |-> IF q.op = "find" THEN Lookup(q.name) ELSE 0]
    /\ queue' = [queue EXCEPT ![NAMER_PORT] = Tail(@)]
    /\ UNCHANGED <<pool, prog>>

NamerHandle ==
    /\ namer.pc = "recv" /\ queue[NAMER_PORT] # <<>>
    /\ LET q == Head(queue[NAMER_PORT])
           new == q.op = "register" /\ q.port >= 1 /\ Lookup(q.name) = Gone
       IN  /\ entries' = IF new THEN <<[name |-> q.name, port |-> q.port]>> \o entries
                         ELSE entries
           /\ namer' = [pc |-> "reply", to |-> q.src, by |-> q.by,
                        res |-> IF q.op = "find" THEN Lookup(q.name)
                                ELSE IF new THEN 0 ELSE -1]
    /\ queue' = [queue EXCEPT ![NAMER_PORT] = Tail(@)]
    /\ UNCHANGED <<pool, prog>>

\* Message::Reply makes a port to send from, and gives it back.
ReplyPort ==
    /\ namer.pc = "reply"
    /\ \E p \in PortId :
        /\ PortCreate(p)
        /\ namer' = [pc |-> "send", to |-> namer.to, by |-> namer.by, res |-> namer.res, port |-> p]
    /\ UNCHANGED <<entries, queue, prog>>

ReplySend ==
    /\ namer.pc = "send"
    /\ queue' = IF namer.to \in Used
                THEN [queue EXCEPT ![namer.to] = Append(@, [res |-> namer.res, by |-> namer.by])]
                ELSE queue
    /\ namer' = [pc |-> "close", port |-> namer.port]
    /\ UNCHANGED <<entries, pool, prog>>

ReplyClose ==
    /\ namer.pc = "close"
    /\ PortDestroy(namer.port)
    /\ namer' = [pc |-> "recv"]
    /\ UNCHANGED <<entries, prog>>

NamerNext ==
    \/ \E c \in Program, n \in Name : CreateService(c, n) \/ FindService(c, n)
    \/ \E c \in Program : Connect(c) \/ Send(c) \/ Answered(c) \/ Registered(c) \/ Found(c)
    \/ \E c \in Program : \E i \in DOMAIN prog[c].conns : Delete(c, i)
    \/ NamerHandle \/ ReplyPort \/ ReplySend \/ ReplyClose

NamerSpec == NamerInit /\ [][NamerNext]_namerVars
-----------------------------------------------------------------------------
PortOf(c) == {prog[c].local, prog[c].call} \cup {prog[c].conns[i].local : i \in DOMAIN prog[c].conns}

\* Every port that is in use is the namer's or belongs to one connection of one
\* program: no answer, and no refused registration, leaves one behind or gives
\* one back twice.
PortsAccounted ==
    /\ IsInjective(pool)
    /\ \A c, d \in Program : c # d => PortOf(c) \cap PortOf(d) \subseteq {Gone}
    /\ Used = {NAMER_PORT} \cup ((UNION {PortOf(c) : c \in Program}) \ {Gone})
                  \cup (IF namer.pc \in {"send", "close"} THEN {namer.port} ELSE {})

\* Where the question of a waiting program is: on its way to the namer, in the
\* namer's hands, or answered at the port of the call.
Asks(c) == \E i \in DOMAIN queue[NAMER_PORT] : queue[NAMER_PORT][i].by = c
Handles(c) == namer.pc \in {"reply", "send"} /\ namer.by = c
Heard(c) == queue[prog[c].call] # <<>>

\* The numbers of call ports are used again with every call, and still a program
\* that waits gets the answer to its own question, once.
AnswersFit ==
    \A c \in Program : prog[c].pc = "wait" =>
        LET due == queue[NAMER_PORT]
            at  == queue[prog[c].call]
        IN  /\ \A i, j \in DOMAIN due : due[i].by = c /\ due[j].by = c => i = j
            /\ Len(at) <= 1 /\ \A i \in DOMAIN at : at[i].by = c
            /\ Asks(c) \/ Handles(c) \/ Heard(c)
            /\ ~(Asks(c) /\ Handles(c)) /\ ~(Heard(c) /\ (Asks(c) \/ Handles(c)))
            /\ Handles(c) => namer.to = prog[c].call

\* A name leads to one port for good, and a service that came about is found
\* under its name.
ServiceIsFound ==
    /\ \A i, j \in DOMAIN entries : entries[i].name = entries[j].name => i = j
    /\ \A c \in Program : \A i \in DOMAIN prog[c].conns :
         prog[c].conns[i].kind = "service" => Lookup(prog[c].conns[i].name) = prog[c].conns[i].local

\* FindService, CreateService and Call: ports, answers and names each belong to
\* who asked for them.
CallsFit == PortsAccounted /\ AnswersFit /\ ServiceIsFound
=============================================================================
