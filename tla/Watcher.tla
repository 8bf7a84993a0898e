------------------------------- MODULE Watcher -------------------------------
(***************************************************************************)
(* The proxy: it accepts connections, makes one to its destination for each *)
(* and copies between the two, from the callbacks of the event loop.        *)
(* src/utils/watcher.c on src/utils/fdevent.c, which the Makefile builds    *)
(* with HAVE_EPOLL.                                                         *)
(*                                                                         *)
(* The other ends, and the sockets between, are the environment.  A byte is *)
(* its number in what its sender sent.                                      *)
(***************************************************************************)
EXTENDS Integers, Sequences, FiniteSets, FiniteSetsExt, SequencesExt

CONSTANTS
    Stream,     \* the descriptors streams can get, numbers above Listener
    Listener,   \* the descriptor connections come in on
    NULL,
    BufSize,    \* the size of astream.buf, 4096
    SockSize,   \* what fits into a socket until its other end reads
    FirstBytes, \* bound of the model on the bytes the client on the lowest descriptor sends
    OtherBytes, \* and on those any other end sends
    MaxConns    \* bound of the model on the connections

ASSUME WatcherAssumption ==
    /\ Stream \subseteq Nat /\ IsFiniteSet(Stream) /\ Listener \notin Stream
    /\ NULL \notin Stream \cup {Listener}
    /\ BufSize \in Nat \ {0} /\ SockSize \in Nat \ {0} /\ MaxConns \in Nat

MaxBytes(s) == IF s = Min(Stream) THEN FirstBytes ELSE OtherBytes

-----------------------------------------------------------------------------
(* The event loop, on its state d: what every descriptor is watched for, and *)
(* the list of those with a callback due.                                    *)

\* The fdevents; each watches the descriptor of its number.
Fde == Stream \cup {Listener}

Event == {"READ", "WRITE", "ERROR"}

\* active, pending: FDE_ACTIVE, FDE_PENDING; wanted: state & FDE_EVENTMASK;
\* events: what was reported since the last callback.
FdeState == [active : BOOLEAN, pending : BOOLEAN,
             wanted : SUBSET Event, events : SUBSET Event]
NoFde == [active |-> FALSE, pending |-> FALSE, wanted |-> {}, events |-> {}]

Dispatcher == [fde : [Fde -> FdeState], plist : Seq(Fde)]

Without(q, x) == RemoveAt(q, CHOOSE i \in DOMAIN q : q[i] = x)

Install(e, x) == [e EXCEPT !.fde[x] = [NoFde EXCEPT !.active = TRUE]]

\* Slip: an fdevent that is due stays on the list when it is removed.
FdeRemoveOnly(e, x) == [e EXCEPT !.fde[x] = NoFde]

FdeRemove(e, x) ==
    [ fde   |-> [e.fde EXCEPT ![x] = NoFde],
      plist |-> IF e.fde[x].pending THEN Without(e.plist, x) ELSE e.plist ]

\* fdevent_set.  Of a callback that is due it keeps, by its `~', the events that
\* are NOT wanted from now on; epoll reports the others again.
FdeSet(e, x, wanted) ==
    LET k == e.fde[x]
        kept == k.events \ wanted
    IN  IF k.wanted = wanted THEN e
        ELSE IF ~k.pending THEN [e EXCEPT !.fde[x].wanted = wanted]
        ELSE [ fde   |-> [e.fde EXCEPT ![x] =
                             [k EXCEPT !.wanted = wanted, !.events = kept,
                                       !.pending = kept # {}]],
               plist |-> IF kept = {} THEN Without(e.plist, x) ELSE e.plist ]

FdeAdd(e, x, events) == FdeSet(e, x, e.fde[x].wanted \cup events)
FdeDel(e, x, events) == FdeSet(e, x, e.fde[x].wanted \ events)

\* fdevent_process: epoll_wait reported ready[x] for x; q is the order in which it
\* came to those that are not on the list yet.
Process(e, q, ready) ==
    [ fde   |-> [x \in Fde |-> IF ready[x] = {} THEN e.fde[x]
                   ELSE [e.fde[x] EXCEPT !.events = @ \cup ready[x], !.pending = TRUE]],
      plist |-> e.plist \o q ]

\* What fdevent_loop does before it calls the first on the list.
Dequeue(e) ==
    [ fde   |-> [e.fde EXCEPT ![Head(e.plist)] =
                    [@ EXCEPT !.events = {}, !.pending = FALSE]],
      plist |-> Tail(e.plist) ]

\* The list holds each fdevent that is marked pending, once, and no other; all
\* of them are installed and have something to report.
PendingListed(e) ==
    /\ \A i, j \in DOMAIN e.plist : e.plist[i] = e.plist[j] => i = j
    /\ \A x \in Fde : e.fde[x].pending <=> \E i \in DOMAIN e.plist : e.plist[i] = x
    /\ \A x \in Fde : e.fde[x].pending => e.fde[x].active /\ e.fde[x].events # {}

VARIABLES
    d,         \* the dispatcher
    peer,      \* astream.peer
    buf,       \* what a stream has to write: astream.count bytes from ptr on
    sock,      \* the socket of a stream, see NoSock
    backlog,   \* connections accept did not take yet
    conns,     \* how many there have been
    cut,       \* streams left with a rest by a peer whose read failed
    up,        \* the process runs
    late       \* what callbacks did to memory that was freed, see Late

vars == <<d, peer, buf, sock, backlog, conns, cut, up, late>>

\* in: to be read; out: written, not yet taken by the other end; sent, got: the
\* bytes the other end sent and took; eof, err: it ended, it broke off.
NoSock == [in |-> <<>>, out |-> <<>>, sent |-> 0, got |-> 0, eof |-> FALSE, err |-> FALSE]

Live(s) == d.fde[s].active

Init ==
    /\ d = FdeSet(Install([fde |-> [x \in Fde |-> NoFde], plist |-> <<>>], Listener),
                  Listener, {"READ"})
    /\ peer = [s \in Stream |-> NULL]
    /\ buf = [s \in Stream |-> <<>>]
    /\ sock = [s \in Stream |-> NoSock]
    /\ backlog = 0 /\ conns = 0 /\ cut = {} /\ up = TRUE /\ late = {}

-----------------------------------------------------------------------------
(* The environment.                                                         *)

Connect ==
    /\ up /\ conns < MaxConns
    /\ conns' = conns + 1 /\ backlog' = backlog + 1
    /\ UNCHANGED <<d, peer, buf, sock, cut, up, late>>

Unbroken(s) == up /\ Live(s) /\ ~sock[s].err

RemoteSend(s) ==
    /\ Unbroken(s) /\ ~sock[s].eof /\ sock[s].sent < MaxBytes(s)
    /\ sock' = [sock EXCEPT ![s].sent = @ + 1, ![s].in = Append(@, sock[s].sent + 1)]
    /\ UNCHANGED <<d, peer, buf, backlog, conns, cut, up, late>>

RemoteRead(s) ==
    /\ Unbroken(s) /\ sock[s].out # <<>>
    /\ sock' = [sock EXCEPT ![s].out = Tail(@), ![s].got = @ + 1]
    /\ UNCHANGED <<d, peer, buf, backlog, conns, cut, up, late>>

RemoteEof(s) ==
    /\ Unbroken(s) /\ ~sock[s].eof
    /\ sock' = [sock EXCEPT ![s].eof = TRUE]
    /\ UNCHANGED <<d, peer, buf, backlog, conns, cut, up, late>>

RemoteReset(s) ==
    /\ Unbroken(s)
    /\ sock' = [sock EXCEPT ![s].err = TRUE]
    /\ UNCHANGED <<d, peer, buf, backlog, conns, cut, up, late>>

-----------------------------------------------------------------------------
(* The loop.                                                                *)

\* What epoll reports: errors always, the rest if it is wanted, at every call.
Ready(x) ==
    IF x = Listener THEN IF backlog > 0 THEN {"READ"} ELSE {}
    ELSE LET k == sock[x]
         IN  (IF k.in # <<>> \/ k.eof \/ k.err THEN d.fde[x].wanted \cap {"READ"} ELSE {})
             \cup (IF Len(k.out) < SockSize \/ k.err
                   THEN d.fde[x].wanted \cap {"WRITE"} ELSE {})
             \cup (IF k.err THEN {"ERROR"} ELSE {})

Poll ==
    /\ up /\ d.plist = <<>>
    /\ LET ready == [x \in Fde |-> IF d.fde[x].active THEN Ready(x) ELSE {}]
           some == {x \in Fde : ready[x] # {}}
       IN  /\ some # {}
           /\ \E q \in SetToSeqs({x \in some : ~d.fde[x].pending}) : d' = Process(d, q, ready)
    /\ UNCHANGED <<peer, buf, sock, backlog, conns, cut, up, late>>

\* cnxn_sock_cb: accept takes the lowest descriptor and the connection to the
\* destination, if it can be made, the next.  Without a descriptor for the one
\* the connection stays where it is, without one for the other it is closed.
Accept(connects) ==
    LET free == {s \in Stream : ~Live(s)}
        a == Min(free)
        b == Min(free \ {a})
        wanted == {"READ", "ERROR"}
    IN  /\ up /\ d.plist # <<>> /\ Head(d.plist) = Listener
        /\ backlog' = backlog - (IF free = {} THEN 0 ELSE 1)
        /\ IF connects /\ Cardinality(free) >= 2
           THEN /\ d' = FdeSet(FdeSet(Install(Install(Dequeue(d), a), b), a, wanted), b, wanted)
                /\ peer' = [peer EXCEPT ![a] = b, ![b] = a]
           ELSE d' = Dequeue(d) /\ UNCHANGED peer
        /\ UNCHANGED <<buf, sock, conns, cut, up, late>>

(* astream_io_cb, on w: the dispatcher, the peers, the buffers, the sockets *)
(* and cut.  A part of it goes on, returns or tears down.                   *)

Unwatch(w, s, event) == [w EXCEPT !.d = FdeDel(@, s, {event})]
Watch(w, s, event) == [w EXCEPT !.d = FdeAdd(@, s, {event})]
Then(w, then) == [w |-> w, then |-> then]

\* What read moves, before an end or an error, into the buffer of p.
Fill(w, s, p) ==
    LET n == Min({Len(w.sock[s].in), BufSize})
    IN  [w EXCEPT !.buf[p] = @ \o SubSeq(w.sock[s].in, 1, n),
                  !.sock[s].in = SubSeq(@, n + 1, Len(@))]

\* Slips: a full buffer is read into; the last bytes are not announced.
IoReadOver(w, s) ==
    IF w.peer[s] = NULL THEN Then(w, "teardown")
    ELSE Then(Watch(Fill(w, s, w.peer[s]), w.peer[s], "WRITE"),
              IF w.sock[s].eof THEN "teardown" ELSE "go")

IoReadSilent(w, s) ==
    LET p == w.peer[s]
    IN  IF p = NULL \/ w.buf[p] # <<>> THEN Then(Unwatch(w, s, "READ"), "go")
        ELSE IF w.sock[s].eof THEN Then(Fill(w, s, p), "teardown")
        ELSE Then(Watch(Fill(w, s, p), p, "WRITE"), "go")

\* The read loop fills the peer's buffer, until there is no more, an end or an
\* error.  After an error it does not make the peer want to write.
IoRead(w, s) ==
    LET p == w.peer[s]
        n == Len(w.sock[s].in)
        failed == n < BufSize /\ w.sock[s].err
        ended == n < BufSize /\ w.sock[s].eof
        got == Fill(w, s, p)
    IN  IF p = NULL
        THEN IF w.buf[s] # <<>> THEN Then(Unwatch(w, s, "READ"), "return")
                                ELSE Then(w, "teardown")
        ELSE IF w.buf[p] # <<>> THEN Then(Unwatch(w, s, "READ"), "go")
        ELSE Then(IF n = 0 THEN got
                  ELSE IF failed THEN [got EXCEPT !.cut = @ \cup {p}]
                  ELSE Watch(got, p, "WRITE"),
                  IF failed \/ ended THEN "teardown" ELSE "go")

\* What write moves from the buffer of s until its socket is full.
Drain(w, s) ==
    LET n == Min({Len(w.buf[s]), SockSize - Len(w.sock[s].out)})
    IN  [w EXCEPT !.buf[s] = SubSeq(@, n + 1, Len(@)),
                  !.sock[s].out = @ \o SubSeq(w.buf[s], 1, n)]

\* Slips: when all is written nobody reads again from the peer; a write that
\* took a part is taken for the whole.
IoWriteOnce(w, s) ==
    IF w.buf[s] = <<>> THEN Then(Unwatch(w, s, "WRITE"), "go")
    ELSE IF w.sock[s].err THEN Then(w, "teardown")
    ELSE Then(Drain(w, s), "go")

IoWriteAll(w, s) ==
    IF w.buf[s] = <<>> THEN Then(Unwatch(w, s, "WRITE"), "go")
    ELSE IF w.sock[s].err \/ w.peer[s] = NULL THEN Then(w, "teardown")
    ELSE Then(Watch([Drain(w, s) EXCEPT !.buf[s] = <<>>], w.peer[s], "READ"), "go")

\* A stream that wrote all lets its peer read again, or has nothing left to do.
IoWrite(w, s) ==
    LET put == Drain(w, s)
    IN  IF w.buf[s] = <<>> THEN Then(Unwatch(w, s, "WRITE"), "go")
        ELSE IF w.sock[s].err THEN Then(w, "teardown")
        ELSE IF put.buf[s] # <<>> THEN Then(put, "go")
        ELSE IF w.peer[s] = NULL THEN Then(put, "teardown")
        ELSE Then(Watch(put, w.peer[s], "READ"), "go")

\* fdevent_remove and free of s, and before of p if p is not NULL.
Drop(w, s, p) ==
    [ d    |-> FdeRemove(IF p = NULL THEN w.d ELSE FdeRemove(w.d, p), s),
      peer |-> [x \in Stream |-> IF x \in {s, p, w.peer[s]} THEN NULL ELSE w.peer[x]],
      buf  |-> [x \in Stream |-> IF x \in {s, p} THEN <<>> ELSE w.buf[x]],
      sock |-> [x \in Stream |-> IF x \in {s, p} THEN NoSock ELSE w.sock[x]],
      cut  |-> w.cut \ {s, p} ]

\* Slips: the peer goes too although it has a rest; it is not told.
DestroyBoth(w, s) == Drop(w, s, w.peer[s])

DestroyAlone(w, s) ==
    LET p == w.peer[s]
        idle == p # NULL /\ w.buf[p] = <<>>
        gone == Drop(w, s, IF idle THEN p ELSE NULL)
    IN  IF idle \/ p = NULL THEN gone ELSE [gone EXCEPT !.peer[p] = s]

\* astream_destroy: a peer with nothing to write goes too, another stays without
\* a peer.
FreesPeer(w, s) == w.peer[s] # NULL /\ w.buf[w.peer[s]] = <<>>
Destroy(w, s) == Drop(w, s, IF FreesPeer(w, s) THEN w.peer[s] ELSE NULL)

\* astream_io_cb up to its end: what reading and writing leave, and how they end.
Served(w, s, events) ==
    LET r1 == IF "READ" \in events THEN IoRead(w, s) ELSE Then(w, "go")
    IN  IF r1.then = "go" /\ "WRITE" \in events THEN IoWrite(r1.w, s) ELSE r1

Over(r, events) == r.then = "teardown" \/ (r.then = "go" /\ "ERROR" \in events)

Io(w, s, events) ==
    LET r == Served(w, s, events)
    IN  IF Over(r, events) THEN Destroy(r.w, s) ELSE r.w

\* Accesses to streams that were freed: astream_destroy clears the pointer of its
\* peer also when it has just freed that; and a callback whose stream still points
\* to one that is gone would use it.
Late(w, s, events) ==
    LET r == Served(w, s, events)
    IN  (IF Over(r, events) /\ FreesPeer(r.w, s) THEN {"clear"} ELSE {})
        \cup (IF w.peer[s] # NULL /\ ~w.d.fde[w.peer[s]].active THEN {"use"} ELSE {})

\* An access to memory that was freed, and perhaps given back to the system, may end
\* the process; else it changes nothing, as no stream is allocated in between.
Callback ==
    LET s == Head(d.plist)
        events == d.fde[s].events
        u == [d |-> Dequeue(d), peer |-> peer, buf |-> buf, sock |-> sock, cut |-> cut]
    IN  /\ up /\ d.plist # <<>> /\ s # Listener
        /\ \E w \in {Io(u, s, events)} :
            d' = w.d /\ peer' = w.peer /\ buf' = w.buf /\ sock' = w.sock /\ cut' = w.cut
        /\ late' = late \cup Late(u, s, events)
        /\ up' \in (IF Late(u, s, events) = {} THEN {TRUE} ELSE BOOLEAN)
        /\ UNCHANGED <<backlog, conns>>

\* fdevent_loop: epoll_wait when nobody is due, else one callback.
Loop == Poll \/ Callback \/ \E connects \in BOOLEAN : Accept(connects)

Next ==
    \/ Connect \/ Loop
    \/ \E s \in Stream : RemoteSend(s) \/ RemoteRead(s) \/ RemoteEof(s) \/ RemoteReset(s)

Spec == Init /\ [][Next]_vars

\* A callback is due, or epoll has something to report: when Loop is enabled.
Due == up /\ (d.plist # <<>> \/ \E x \in Fde : d.fde[x].active /\ Ready(x) # {})

\* The loop never stops (WF_vars(Loop), with its condition written out), and the
\* other ends read what is written to them.
FairSpec ==
    /\ Spec
    /\ []<>~Due \/ []<><<Loop>>_vars
    /\ \A s \in Stream : WF_vars(RemoteRead(s))

-----------------------------------------------------------------------------
(* Properties.                                                              *)

TypeOK ==
    /\ d \in Dispatcher
    /\ peer \in [Stream -> Stream \cup {NULL}]
    /\ \A s \in Stream : Len(buf[s]) <= BufSize /\ Len(sock[s].out) <= SockSize
    /\ backlog \in 0..MaxConns /\ conns \in 0..MaxConns /\ cut \subseteq Stream
    /\ up \in BOOLEAN /\ late \subseteq {"clear", "use"}

\* A callback that removes or changes other fdevents leaves the list of those
\* that are due sound: none is on it twice, none that is gone, none forgotten
\* (fdevent_loop, fdevent_remove, fdevent_set).
PendingSound == PendingListed(d)

\* A stream never points to a peer that was freed or that has another: what the next
\* callback finds there is live.  One without a peer has a rest to write.
PeersSound ==
    \A s \in Stream :
        /\ peer[s] # NULL => Live(s) /\ Live(peer[s]) /\ peer[peer[s]] = s
        /\ Live(s) /\ peer[s] = NULL => buf[s] # <<>>

\* No callback uses a stream that was freed; the one access to such a stream is that of
\* astream_destroy to the peer it has itself just freed, and nothing else can end the
\* process.
FreedLeftAlone == "use" \notin late /\ (up \/ "clear" \in late)

\* What one end sent reaches the other in its order, without gap or double:
\* the bytes in the socket, the buffer and the other socket follow on those the
\* other end took.
BytesInOrder ==
    \A s \in Stream : Live(s) =>
        LET after == IF peer[s] = NULL THEN <<>> ELSE sock[peer[s]].in
            way == sock[s].out \o buf[s] \o after
        IN  /\ \A i \in DOMAIN way : way[i] = sock[s].got + i
            /\ peer[s] # NULL => sock[s].got + Len(way) = sock[peer[s]].sent

\* The two sides take turns and neither waits for ever: who has something to
\* write is watched for room, and who can read into an empty buffer is watched
\* for data.  Not so a stream whose peer read some bytes and then an error.
TurnsKept ==
    \A s \in Stream : Live(s) =>
        /\ buf[s] # <<>> /\ s \notin cut => "WRITE" \in d.fde[s].wanted
        /\ peer[s] # NULL => (buf[peer[s]] = <<>> => "READ" \in d.fde[s].wanted)

\* No callback throws away what a stream has to write unless its own other end
\* ended or broke off.
RestKept ==
    [][\A s \in Stream :
         Live(s) /\ buf[s] # <<>> /\ ~Live(s)' => sock[s].eof \/ sock[s].err
                                                  \/ Len(buf[s]) + Len(sock[s].out) <= SockSize]_vars

\* Whoever ends is torn down in the end: no stream stays with a closed socket
\* (but for cut, see TurnsKept, and as long as the process runs).
EndedTornDown ==
    \A s \in Stream : (Live(s) /\ sock[s].eof) ~> (~Live(s) \/ s \in cut \/ ~up)

\* What was sent is read, or the stream is gone.
DataMoves ==
    \A s \in Stream : (Live(s) /\ sock[s].in # <<>>)
                        ~> (sock[s].in = <<>> \/ ~Live(s) \/ s \in cut \/ ~up)

\* A stream without a peer writes its rest and goes.
OrphanGoes ==
    \A s \in Stream : (Live(s) /\ peer[s] = NULL) ~> (~Live(s) \/ s \in cut \/ ~up)

\* Whatever callbacks do to each other's streams and fdevents, the loop calls only
\* live ones, each of them is watched for what it needs to go on, and memory that was
\* freed is left alone but for what astream_destroy itself does to it
\* (fdevent_loop, astream_io_cb, astream_destroy).
StreamsSound == TypeOK /\ PendingSound /\ PeersSound /\ TurnsKept /\ FreedLeftAlone

\* The proxy passes on what it reads, in order, and to the last byte.
BytesKept == []BytesInOrder /\ RestKept

\* And it does so in the end: data, ends and rests.
ProxyMoves == EndedTornDown /\ DataMoves /\ OrphanGoes
=============================================================================
