-------------------------------- MODULE Vfs --------------------------------
(***************************************************************************)
(* The VFS server (srv/vfs) and its clients (lib/libposix/vfs.c): requests  *)
(* over ports, the server's descriptors of each client, the root and boot   *)
(* file systems, and reads whose data follows the reply in several          *)
(* messages.                                                                *)
(***************************************************************************)
EXTENDS Integers, Sequences, FiniteSets, FiniteSetsExt, TLC

CONSTANTS
    VClient,      \* programs with one thread
    File,         \* the files of bootfs
    FileSize,     \* their sizes, in units of which CHUNK make 0x1000 bytes
    CHUNK,
    Counts,       \* how much a client asks for
    VFDS,         \* MAX_FDS, the server's descriptors of one client
    PortRoom,     \* MAX_MSGCOUNT
    MaxHandles    \* bound: what a client has open

CONSTANT NoFile     \* no descriptor, no connection, no name
Dirs == {"/", "/boot", "/dir"}
\* What a path names.  The longest mount point of which a path begins with the
\* letters is its file system, and the letter after it is not looked at: an alias
\* has another letter there than `/'.
Path == [kind : {"dir"}, at : Dirs] \cup [kind : {"file", "alias"}, at : File]

VARIABLES
    server,       \* what the server does, and for whom
    requests,     \* messages at the server's port, to which all others are slaved
    client,       \* the server's struct client, or NoFile: its descriptors
    inbox,        \* messages at each client's port
    user          \* each client: where it is, what it has open

vfsVars == <<server, requests, client, inbox, user>>

Slots == 0..VFDS - 1
NoFiles == [i \in Slots |-> NoFile]
Quiet == [pc |-> "openconn", open |-> <<>>, rest |-> NoFile, h |-> 0, path |-> NoFile,
          left |-> 0, eofs |-> 0]

VfsInit ==
    /\ server = [pc |-> "recv"]
    /\ requests = <<>>
    /\ client = [c \in VClient |-> NoFile]
    /\ inbox = [c \in VClient |-> <<>>]
    /\ user = [c \in VClient |-> Quiet]

-----------------------------------------------------------------------------
\* The server.  Each operator is the reply to a request q of the client c with
\* the descriptors f: [files, msgs], the new descriptors and what is sent.
Res(status, d) == [kind |-> "res", status |-> status, data |-> d]
Fails(f, e) == [files |-> f, msgs |-> <<Res(e, 0)>>]

\* walk in bootfs: what is after the mount point and one more letter.  After the
\* mount point itself that is what an older, longer name left in the area.
BootWalk(q) == IF q.path.kind = "dir" THEN q.rest ELSE q.path.at
InBoot(p) == p.kind # "dir" \/ p.at = "/boot"

FreeSlots(f) == {i \in Slots : f[i] = NoFile}
Opened(f, v) == [f EXCEPT ![Min(FreeSlots(f))] = [vnode |-> v, pos |-> 0, cookie |-> "live"]]

OpenConn == [files |-> NoFiles, msgs |-> <<Res("ok", 0)>>]

\* vfs_opendir fills a descriptor before the file system is asked, and leaves it
\* if that says ENOTDIR.  Of rootfs only the root is found: walk gets the name
\* without its first letter.
Opendir(f, q) ==
    LET v == q.path.at
    IN  IF FreeSlots(f) = {} THEN Fails(f, "EMFILE")
        ELSE IF v = "/dir" THEN Fails(f, "ENOENT")
        ELSE IF v \in File THEN Fails([f EXCEPT ![Min(FreeSlots(f))] =
                                  [vnode |-> v, pos |-> 0, cookie |-> "none"]], "ENOTDIR")
        ELSE [files |-> Opened(f, v), msgs |-> <<Res("ok", Min(FreeSlots(f)))>>]

\* Slip: the answer goes out with the descriptor of the next free place.
OpenNext(f, q) ==
    LET v == BootWalk(q)
    IN  IF FreeSlots(f) = {} THEN Fails(f, "EMFILE")
        ELSE IF ~InBoot(q.path) THEN Fails(f, "ENOSYS")
        ELSE IF v = NoFile THEN Fails(f, "ENOENT")
        ELSE [files |-> Opened(f, v), msgs |-> <<Res("ok", Min(FreeSlots(Opened(f, v)) \cup {VFDS - 1}))>>]

Open(f, q) ==
    LET v == BootWalk(q)
    IN  IF FreeSlots(f) = {} THEN Fails(f, "EMFILE")
        ELSE IF ~InBoot(q.path) THEN Fails(f, "ENOSYS")
        ELSE IF v = NoFile THEN Fails(f, "ENOENT")
        ELSE [files |-> Opened(f, v), msgs |-> <<Res("ok", Min(FreeSlots(f)))>>]

Closedir(f, q) ==
    IF f[q.fd] = NoFile THEN Fails(f, "EBADF")
    ELSE [files |-> [f EXCEPT ![q.fd] = NoFile], msgs |-> <<Res("ok", 0)>>]

\* vfs_close frees the cookie and keeps the descriptor that points to it.
Close(f, q) ==
    IF f[q.fd] = NoFile THEN Fails(f, "EBADF")
    ELSE [files |-> [f EXCEPT ![q.fd].cookie = "freed"], msgs |-> <<Res("ok", 0)>>]

\* The units from a to b - 1 in messages: all of it if it is less than CHUNK, else
\* CHUNK at a time, and what is left, which may be all of CHUNK.
Bytes(a, b) == [kind |-> "data", at |-> [i \in 1..b - a |-> a + i - 1]]
\* Slip: at a multiple of CHUNK the rest is sent although it is empty.
PiecesMore(a, n) ==
    LET m == IF n < CHUNK THEN 0 ELSE n \div CHUNK
    IN  [i \in 1..m + 1 |-> Bytes(a + (i - 1) * CHUNK, IF i <= m THEN a + i * CHUNK ELSE a + n)]

\* Slip: the server sends a unit at a time.
PiecesSmall(a, n) ==
    [i \in 1..n + 1 |-> Bytes(a + i - 1, IF i <= n THEN a + i ELSE a + n)]

Pieces(a, n) ==
    LET m == IF n < CHUNK THEN 0 ELSE (n - 1) \div CHUNK
    IN  [i \in 1..m + 1 |-> Bytes(a + (i - 1) * CHUNK, IF i <= m THEN a + i * CHUNK ELSE a + n)]

\* Slip: the position stays where it was.
ReadStays(f, q) ==
    LET o == f[q.fd]
        n == Min({q.count, FileSize[o.vnode] - o.pos})
    IN  IF o = NoFile THEN Fails(f, "EBADF")
        ELSE [files |-> f, msgs |-> <<Res("ok", n)>> \o Pieces(o.pos, n)]

Read(f, q) ==
    LET o == f[q.fd]
        n == Min({q.count, FileSize[o.vnode] - o.pos})
    IN  IF o = NoFile THEN Fails(f, "EBADF")
        ELSE [files |-> [f EXCEPT ![q.fd].pos = @ + n],
              msgs |-> <<Res("ok", n)>> \o Pieces(o.pos, n)]

Rstat(f, q) ==
    IF ~InBoot(q.path) THEN Fails(f, "ENOSYS")
    ELSE IF BootWalk(q) = NoFile THEN Fails(f, "ENOENT")
    ELSE [files |-> f, msgs |-> <<Res("ok", FileSize[BootWalk(q)])>>]

\* bootfs has no mkdir; rootfs makes any name, again and again.
Mkdir(f, q) == IF InBoot(q.path) THEN Fails(f, "ENOSYS") ELSE [files |-> f, msgs |-> <<Res("ok", 0)>>]

Handle(f, q) ==
    CASE q.cmd = "openconn" -> OpenConn
      [] q.cmd = "opendir"  -> Opendir(f, q)
      [] q.cmd = "open"     -> Open(f, q)
      [] q.cmd = "closedir" -> Closedir(f, q)
      [] q.cmd = "close"    -> Close(f, q)
      [] q.cmd = "read"     -> Read(f, q)
      [] q.cmd = "stat"     -> Rstat(f, q)
      [] q.cmd = "mkdir"    -> Mkdir(f, q)

VfsRequest ==
    /\ server.pc = "recv" /\ requests # <<>>
    /\ LET q == Head(requests)
           r == Handle(client[q.by], q)
       IN  /\ client' = [client EXCEPT ![q.by] = r.files]
           /\ server' = [pc |-> "send", to |-> q.by, msgs |-> r.msgs]
    /\ requests' = Tail(requests)
    /\ UNCHANGED <<inbox, user>>

\* Slip: the server does not wait for room.
VfsSendFull ==
    /\ server.pc = "send"
    /\ inbox' = [inbox EXCEPT ![server.to] = Append(@, Head(server.msgs))]
    /\ server' = IF Len(server.msgs) = 1 THEN [pc |-> "recv"]
                 ELSE [server EXCEPT !.msgs = Tail(@)]
    /\ UNCHANGED <<requests, client, user>>

\* old_port_send blocks while the client's port is full, and the server with it.
VfsSend ==
    /\ server.pc = "send" /\ Len(inbox[server.to]) < PortRoom
    /\ inbox' = [inbox EXCEPT ![server.to] = Append(@, Head(server.msgs))]
    /\ server' = IF Len(server.msgs) = 1 THEN [pc |-> "recv"]
                 ELSE [server EXCEPT !.msgs = Tail(@)]
    /\ UNCHANGED <<requests, client, user>>

-----------------------------------------------------------------------------
\* A call of libposix sends and then waits.  The name goes into the area the
\* client shares with the server; a path in bootfs reaches further than the others.
Ask(c, q, u) ==
    /\ requests' = Append(requests, q @@ [by |-> c])
    /\ user' = [user EXCEPT ![c] = u]
    /\ UNCHANGED <<server, client, inbox>>

VfsConnect(c) ==
    /\ user[c].pc = "openconn"
    /\ Ask(c, [cmd |-> "openconn"], [user[c] EXCEPT !.pc = "connecting"])

ByName(c, cmd, p) ==
    LET rest == IF p.kind = "dir" THEN user[c].rest ELSE p.at
    IN  /\ user[c].pc = "idle"
        /\ cmd \in {"open", "opendir"} => Len(user[c].open) < MaxHandles
        /\ Ask(c, [cmd |-> cmd, path |-> p, rest |-> rest],
               [user[c] EXCEPT !.pc = cmd, !.path = p, !.rest = rest])

ByHandle(c, h, cmd, n) ==
    /\ user[c].pc = "idle"
    /\ cmd = "closedir" <=> user[c].open[h].kind = "dir"
    /\ Ask(c, [cmd |-> cmd, fd |-> user[c].open[h].srv_fd, count |-> n],
           [user[c] EXCEPT !.pc = cmd, !.h = h])

Take1(c) == inbox' = [inbox EXCEPT ![c] = Tail(@)]
Without1(s, i) == SubSeq(s, 1, i - 1) \o SubSeq(s, i + 1, Len(s))

\* The reply.  A client that reads a message of an earlier call instead has its vr
\* from the stack; what it does then is not followed.
Reply(c) ==
    LET u == user[c]
        m == Head(inbox[c])
        done == [u EXCEPT !.pc = "idle", !.h = 0, !.path = NoFile]
    IN  /\ u.pc \notin {"openconn", "idle", "pieces", "lost"} /\ inbox[c] # <<>>
        /\ Take1(c)
        /\ user' = [user EXCEPT ![c] =
             IF m.kind # "res" THEN [Quiet EXCEPT !.pc = "lost", !.eofs = u.eofs]
             ELSE IF u.pc \in {"open", "opendir"} /\ m.status = "ok" THEN
               [done EXCEPT !.open = Append(@,
                   [kind |-> IF u.pc = "open" THEN "file" ELSE "dir", path |-> u.path,
                    srv_fd |-> m.data, read |-> <<>>])]
             ELSE IF u.pc \in {"close", "closedir"} THEN
               [done EXCEPT !.open = Without1(@, u.h)]
             ELSE IF u.pc = "read" /\ m.data > 0 THEN
               [u EXCEPT !.pc = "pieces", !.left = m.data]
             ELSE IF u.pc = "read" THEN [done EXCEPT !.eofs = @ + 1]
             ELSE done]
        /\ UNCHANGED <<server, requests, client>>

\* _vfs_read takes CHUNK at a time while more than that is left, and then the rest.
Piece(c) ==
    LET u == user[c]
        n == IF u.left > CHUNK THEN CHUNK ELSE u.left
        m == Head(inbox[c])
    IN  /\ u.pc = "pieces" /\ inbox[c] # <<>>
        /\ Take1(c)
        /\ user' = [user EXCEPT ![c] =
             [u EXCEPT !.open[u.h].read = @ \o SubSeq(m.at, 1, Min({n, Len(m.at)})),
                       !.left = u.left - n,
                       !.h = IF u.left > CHUNK THEN @ ELSE 0,
                       !.pc = IF u.left > CHUNK THEN "pieces" ELSE "idle"]]
        /\ UNCHANGED <<server, requests, client>>

VfsNext ==
    \/ VfsRequest \/ VfsSend
    \/ \E c \in VClient :
        \/ VfsConnect(c) \/ Reply(c) \/ Piece(c)
        \/ \E p \in Path, cmd \in {"open", "opendir", "stat", "mkdir"} : ByName(c, cmd, p)
        \/ \E h \in DOMAIN user[c].open :
             \/ \E cmd \in {"close", "closedir"} : ByHandle(c, h, cmd, 0)
             \/ \E n \in Counts : ByHandle(c, h, "read", n)

VfsSpec == VfsInit /\ [][VfsNext]_vfsVars
-----------------------------------------------------------------------------
Status == {"ok", "EMFILE", "ENOENT", "ENOTDIR", "ENOSYS", "EBADF"}

\* The server's descriptors and the clients' handles are of their kinds.
VfsTypeOK ==
    /\ server.pc = "send" => server.msgs # <<>>
    /\ \A c \in VClient :
         /\ client[c] = NoFile \/ \A i \in Slots : client[c][i] = NoFile \/
                client[c][i] \in [vnode : File \cup Dirs, pos : Nat, cookie : {"live", "freed", "none"}]
         /\ Len(inbox[c]) <= PortRoom
         /\ \A i \in DOMAIN inbox[c] : inbox[c][i].kind = "res" => inbox[c][i].status \in Status
         /\ Len(user[c].open) <= MaxHandles /\ user[c].eofs \in 0..1

\* What a client has open is open in the server: each handle has a descriptor of
\* its own, of the file that was named, whose cookie was not freed, although
\* close, failed opens and other clients leave descriptors behind.
HandlesFit ==
    \A c \in VClient : \A i \in DOMAIN user[c].open :
        LET h == user[c].open[i]
            o == client[c][h.srv_fd]
        IN  (user[c].pc \notin {"close", "closedir"} \/ user[c].h # i) =>
            /\ h.srv_fd \in Slots /\ o # NoFile /\ o.cookie = "live"
            /\ h.path.kind # "dir" => o.vnode = h.path.at
            /\ \A j \in DOMAIN user[c].open : user[c].open[j].srv_fd = h.srv_fd => i = j

\* What a client read of a file is the file from its beginning, nothing twice and
\* nothing left out, however the reads were cut into messages.
DataInOrder ==
    \A c \in VClient : \A i \in DOMAIN user[c].open :
        LET b == user[c].open[i].read IN \A k \in DOMAIN b : b[k] = k - 1

\* Server and client agree on how many messages a call has, so that every call
\* finds its own reply: except after a read at the end of a file, whose empty
\* message the client does not take.
InStep ==
    \A c \in VClient :
        /\ user[c].pc = "lost" => user[c].eofs > 0
        /\ user[c].pc = "idle" /\ user[c].eofs = 0 =>
              inbox[c] = <<>> /\ ~(server.pc = "send" /\ server.to = c)

\* When the server waits for room in a client's port, that client takes messages:
\* nobody waits for a server that waits for somebody who asks nothing.
ServerServes ==
    server.pc = "send" /\ Len(inbox[server.to]) = PortRoom => user[server.to].pc # "idle"

\* vfs.c and its clients: what was opened is open, what is read is the file, every
\* call gets its own reply, and the server does not wait for the idle.
FilesServed == VfsTypeOK /\ HandlesFit /\ DataInOrder /\ InStep /\ ServerServes
=============================================================================
