-------------------------------- MODULE Disk --------------------------------
(***************************************************************************)
(* From a file to the sectors of a disk: the FFS driver of the VFS server     *)
(* (srv/vfs/drivers/ffs) on the block devices of libblt (blkdev.c, disk.c),   *)
(* whose requests the server srv/ide answers one after the other.  A sector   *)
(* holds one byte of a file, one directory entry, one inode or one block      *)
(* number; PerBlk of them are a block of the file system.                     *)
(***************************************************************************)
EXTENDS Integers, Sequences, FiniteSets, FiniteSetsExt, SequencesExt

CONSTANTS
    Parts,        \* what the disk's first sectors say: fdisk entries, with BSD slices
    Image,        \* the sectors of the disk: a function to tuples
    PerBlk,       \* BLKSIZE / blksize; the code has 16
    NDADDR,       \* direct blocks of an inode; 12
    NINDIR,       \* block numbers in an indirect block
    Heads, Secs,  \* geometry of the disk
    FfsName,      \* the partition the file system is mounted from
    RawNames,     \* partitions another program opens
    Paths,        \* what is looked up
    ReadAt, ReadLen,   \* where and how much is read
    MaxCalls      \* bound: calls of the driver, and of the other program

VARIABLES
    idePort,      \* requests at the port of the server
    ideTxn,       \* the request it works on, or NoTxn
    ideOffset,    \* `offset' of ide_main, from one request to the next
    blkReply,     \* for each client the answer at its own port
    blk,          \* for each client its device and its call of blk_read
    ffs,          \* the driver: what it does, and the read's variables
    vnodes,       \* how many vnodes there are
    calls

diskVars == <<idePort, ideTxn, ideOffset, blkReply, blk, ffs, vnodes, calls>>

BlkClient == {"ffs", "raw"}
NoTxn == [from |-> "none", part |-> "", block |-> 0]
NoAnswer == <<>>

-----------------------------------------------------------------------------
\* disk_alloc: the fdisk partitions first, then the slices, whose starts count from
\* the first sector of the disk.
disk_alloc ==
    [i \in DOMAIN Parts |-> [name |-> Parts[i].name, start |-> Parts[i].start]] \o
    FlattenSeq([i \in DOMAIN Parts |-> Parts[i].slices])

\* The sector at which a device begins.  A name that is not there is as good as raw.
PartStart(part) ==
    LET named == {i \in DOMAIN disk_alloc : disk_alloc[i].name = part}
    IN  IF named = {} THEN 0 ELSE disk_alloc[Max(named)].start

ide_btochs(block) ==
    [cyl |-> block \div (Heads * Secs), head |-> (block % (Heads * Secs)) \div Secs,
     sect |-> (block % (Heads * Secs)) % Secs]

\* ide_disk_read: the drive finds the sector, counted from 1, by its geometry.
ide_disk_read(block) ==
    LET at == ide_btochs(block)
    IN  Image[(at.cyl * Heads + at.head) * Secs + at.sect]

\* Slip: the offset of the request before counts for a device without partition.
OffsetKept(txn) == IF txn.part = "raw" THEN ideOffset ELSE PartStart(txn.part)

OffsetOf(txn) == IF txn.part = "raw" THEN 0 ELSE PartStart(txn.part)

IdeRecv ==
    /\ ideTxn = NoTxn /\ idePort # <<>>
    /\ ideTxn' = Head(idePort) /\ idePort' = Tail(idePort)
    /\ ideOffset' = OffsetOf(Head(idePort))
    /\ UNCHANGED <<blkReply, blk, ffs, vnodes, calls>>

IdeReply ==
    /\ ideTxn # NoTxn
    /\ blkReply' = [blkReply EXCEPT ![ideTxn.from] = ide_disk_read(ideTxn.block + ideOffset)]
    /\ ideTxn' = NoTxn
    /\ UNCHANGED <<idePort, ideOffset, blk, ffs, vnodes, calls>>

-----------------------------------------------------------------------------
\* _blk_read, a sector at a time: the request, and the answer.
BlkSend(c) ==
    /\ blk[c].pc = "send"
    /\ idePort' = Append(idePort, [from |-> c, part |-> blk[c].part, block |-> blk[c].at])
    /\ blk' = [blk EXCEPT ![c].pc = "wait"]
    /\ UNCHANGED <<ideTxn, ideOffset, blkReply, ffs, vnodes, calls>>

BlkRecv(c) ==
    /\ blk[c].pc = "wait" /\ blkReply[c] # NoAnswer
    /\ blk' = [blk EXCEPT ![c].got = Append(@, blkReply[c]), ![c].at = @ + 1, ![c].left = @ - 1,
                          ![c].pc = IF blk[c].left = 1 THEN "done" ELSE "send"]
    /\ blkReply' = [blkReply EXCEPT ![c] = NoAnswer]
    /\ UNCHANGED <<idePort, ideTxn, ideOffset, ffs, vnodes, calls>>

\* blk_read(dev, buf, block, count) begins; with nothing to read it does nothing.
BlkRead(c, block, count) ==
    blk' = [blk EXCEPT ![c].pc = "send", ![c].at = block, ![c].left = count, ![c].got = <<>>]

\* Another program opens a device, and reads a sector.
RawRead(part, block) ==
    /\ calls.raw < MaxCalls /\ blk["raw"].pc \in {"idle", "done"}
    /\ blk' = [blk EXCEPT !["raw"] = [pc |-> "send", part |-> part, at |-> block,
                                      left |-> 1, got |-> <<>>]]
    /\ calls' = [calls EXCEPT !.raw = @ + 1]
    /\ UNCHANGED <<idePort, ideTxn, ideOffset, blkReply, ffs, vnodes>>

-----------------------------------------------------------------------------
\* The driver.  Blocks of the file system are read whole, and inodes are in its
\* blocks from 2 on.
ROOTINO == 2
NoInode == [kind |-> "free", size |-> 0, db |-> <<>>, ib |-> 0]
FsBlock(b) == BlkRead("ffs", b * PerBlk, PerBlk)
Got(pc) == ffs.pc = pc /\ blk["ffs"].pc = "done"
Temp == blk["ffs"].got

DiskInit ==
    /\ idePort = <<>> /\ ideTxn = NoTxn /\ ideOffset = 0
    /\ blkReply = [c \in BlkClient |-> NoAnswer]
    /\ blk = [c \in BlkClient |-> [pc |-> "idle", part |-> FfsName, at |-> 0, left |-> 0, got |-> <<>>]]
    /\ ffs = [pc |-> "mount", root |-> NoInode, ino |-> ROOTINO, inode |-> NoInode, path |-> <<>>,
              asked |-> <<>>, i |-> 0, from |-> 0, pos |-> 0, count |-> 0, num |-> 0, phase |-> "none",
              buf |-> <<>>, list |-> <<>>]
    /\ vnodes = 0
    /\ calls = [raw |-> 0, ffs |-> 0]

\* vget with ffs_read_vnode.
Vget(ino, state) ==
    /\ FsBlock(2 + ino \div PerBlk)
    /\ ffs' = [state EXCEPT !.pc = "vnode", !.ino = ino]
InodeAt(e) == [kind |-> e[1], size |-> e[2], db |-> e[3], ib |-> e[4]]
InodeRead == InodeAt(Temp[(ffs.ino % PerBlk) + 1])

\* ffs_mount: the superblock, and a vnode of the root.
Mount ==
    /\ ffs.pc = "mount"
    /\ FsBlock(1) /\ ffs' = [ffs EXCEPT !.pc = "super"]
    /\ UNCHANGED <<idePort, ideTxn, ideOffset, blkReply, vnodes, calls>>

Mounted ==
    /\ Got("super")
    /\ Vget(ROOTINO, ffs)
    /\ vnodes' = vnodes + 1
    /\ UNCHANGED <<idePort, ideTxn, ideOffset, blkReply, calls>>

\* Slip: the first block that is 0 ends the directory.
NextDirBlockStops(state, i, end) ==
    IF i + 1 > NDADDR \/ state.inode.db[Min({i + 1, NDADDR})] = 0
    THEN ffs' = [state EXCEPT !.pc = end] /\ UNCHANGED blk
    ELSE ffs' = [state EXCEPT !.i = i + 1] /\ FsBlock(state.inode.db[i + 1])

\* The next direct block of a directory after the i-th: blocks with number 0 are
\* passed over, and so are the indirect ones.
NextDirBlock(state, i, end) ==
    LET more == {j \in i + 1..NDADDR : state.inode.db[j] # 0}
    IN  IF more = {} THEN ffs' = [state EXCEPT !.pc = end] /\ UNCHANGED blk
        ELSE ffs' = [state EXCEPT !.i = Min(more)] /\ FsBlock(state.inode.db[Min(more)])

\* The vnode is there: the walk is over, or goes on in this directory.
GotVnode ==
    /\ Got("vnode")
    /\ LET at == [ffs EXCEPT !.inode = InodeRead, !.root = IF ffs.root = NoInode THEN InodeRead ELSE @]
       IN  IF ffs.path = <<>> THEN ffs' = [at EXCEPT !.pc = "ready"] /\ UNCHANGED blk
           ELSE NextDirBlock([at EXCEPT !.pc = "walk"], 0, "not found")
    /\ UNCHANGED <<idePort, ideTxn, ideOffset, blkReply, vnodes, calls>>

Call == ffs.pc = "ready" /\ calls.ffs < MaxCalls /\ calls' = [calls EXCEPT !.ffs = @ + 1]

\* ffs_walk, from the root.
Walk(path) ==
    /\ Call /\ ffs.ino = ROOTINO
    /\ NextDirBlock([ffs EXCEPT !.pc = "walk", !.path = path, !.asked = path], 0, "not found")
    /\ UNCHANGED <<idePort, ideTxn, ideOffset, blkReply, vnodes>>

\* Slip: a directory that was gone through is kept.
PutBehindKept == vnodes

\* vput of the directory behind, unless it is the one that the walk began at.
PutBehind == IF ffs.ino = ROOTINO THEN vnodes ELSE vnodes - 1

\* Slip: a block is searched only up to a free entry, as ffs_opendir does.
WalkOneUpToFree ==
    LET free  == {k \in 1..PerBlk : Temp[k][3] = 0}
        match == {k \in 1..PerBlk : Temp[k][2] = Head(ffs.path) /\ \A f \in free : k < f}
    IN  /\ Got("walk")
        /\ IF match = {} THEN NextDirBlock(ffs, ffs.i, "not found") /\ UNCHANGED vnodes
           ELSE /\ Vget(Temp[Min(match)][3], [ffs EXCEPT !.path = Tail(@)])
                /\ vnodes' = PutBehind + 1
        /\ UNCHANGED <<idePort, ideTxn, ideOffset, blkReply, calls>>

\* ffs_walk_one: the first entry of that name, also one that is free.
WalkOne ==
    LET match == {k \in 1..PerBlk : Temp[k][2] = Head(ffs.path)}
    IN  /\ Got("walk")
        /\ IF match = {} THEN NextDirBlock(ffs, ffs.i, "not found") /\ UNCHANGED vnodes
           ELSE /\ Vget(Temp[Min(match)][3], [ffs EXCEPT !.path = Tail(@)])
                /\ vnodes' = PutBehind + 1
        /\ UNCHANGED <<idePort, ideTxn, ideOffset, blkReply, calls>>

\* NULL is returned, or looked into if there is more of the path.
WalkFails ==
    /\ ffs.pc = "not found"
    /\ ffs' = IF Len(ffs.path) > 1 THEN [ffs EXCEPT !.pc = "crash"]
              ELSE [ffs EXCEPT !.pc = "ready", !.ino = ROOTINO, !.inode = ffs.root]
    /\ vnodes' = PutBehind
    /\ UNCHANGED <<idePort, ideTxn, ideOffset, blkReply, blk, calls>>

\* ffs_opendir: of every block the entries up to a free one.
OpenDir ==
    /\ Call /\ ffs.inode.kind = "dir"
    /\ NextDirBlock([ffs EXCEPT !.pc = "list", !.list = <<>>], 0, "listed")
    /\ UNCHANGED <<idePort, ideTxn, ideOffset, blkReply, vnodes>>

ListBlock ==
    LET free == {k \in 1..PerBlk : Temp[k][3] = 0}
        upto == IF free = {} THEN PerBlk ELSE Min(free) - 1
    IN  /\ Got("list")
        /\ NextDirBlock([ffs EXCEPT !.list = @ \o [k \in 1..upto |-> Temp[k][2]]], ffs.i, "listed")
        /\ UNCHANGED <<idePort, ideTxn, ideOffset, blkReply, vnodes, calls>>

\* vput, of what a walk found, and the end of a read and of a list.
Done ==
    /\ ffs.pc \in {"listed", "read"} \/ (ffs.pc = "ready" /\ ffs.ino # ROOTINO)
    /\ IF ffs.pc = "ready" THEN /\ ffs' = [ffs EXCEPT !.ino = ROOTINO, !.inode = ffs.root, !.asked = <<>>]
            /\ vnodes' = vnodes - 1
       ELSE ffs' = [ffs EXCEPT !.pc = "ready"] /\ UNCHANGED vnodes
    /\ UNCHANGED <<idePort, ideTxn, ideOffset, blkReply, blk, calls>>

-----------------------------------------------------------------------------
\* ffs_fbtofsb and the read of a block: the number is in the inode, in its indirect
\* block, or, of blocks beyond, 0.
FileBlock(state) ==
    LET fb == state.pos \div PerBlk
    IN  IF fb < NDADDR THEN ffs' = [state EXCEPT !.pc = "data"] /\ FsBlock(state.inode.db[fb + 1])
        ELSE IF fb - NDADDR < NINDIR THEN ffs' = [state EXCEPT !.pc = "indirect"] /\ FsBlock(state.inode.ib)
        ELSE ffs' = [state EXCEPT !.pc = "data"] /\ FsBlock(0)

Indirect ==
    /\ Got("indirect")
    /\ ffs' = [ffs EXCEPT !.pc = "data"]
    /\ FsBlock(Temp[(ffs.pos \div PerBlk) - NDADDR + 1][2])
    /\ UNCHANGED <<idePort, ideTxn, ideOffset, blkReply, vnodes, calls>>

\* How many whole blocks are left: the loop asks it again after every block.
WholeLeft(state) == (state.count - state.num) \div PerBlk

\* The three parts of ffs_read: up to a block's end, whole blocks, and the rest.
NextPart(state) ==
    IF state.num = state.count THEN ffs' = [state EXCEPT !.pc = "read"] /\ UNCHANGED blk
    ELSE IF state.i < WholeLeft(state) THEN FileBlock([state EXCEPT !.phase = "whole"])
    ELSE FileBlock([state EXCEPT !.phase = "last"])

Read(from, count) ==
    LET n == IF from + count > ffs.inode.size THEN ffs.inode.size - from ELSE count
        state == [ffs EXCEPT !.from = from, !.pos = from, !.num = 0, !.i = 0, !.buf = <<>>, !.count = n]
    IN  /\ Call /\ ffs.inode.kind = "file"
        /\ IF from >= ffs.inode.size THEN ffs' = [state EXCEPT !.count = 0, !.pc = "read"] /\ UNCHANGED blk
           ELSE IF from % PerBlk # 0 THEN FileBlock([state EXCEPT !.phase = "first"])
           ELSE NextPart(state)
        /\ UNCHANGED <<idePort, ideTxn, ideOffset, blkReply, vnodes>>

\* Slip: the first part starts at the beginning of the block.
CopyFront(skip, len) == [k \in 1..len |-> IF k \in DOMAIN Temp THEN Temp[k] ELSE <<"beyond">>]

\* memcpy from temp, which may go beyond its end.
Copy(skip, len) == [k \in 1..len |-> IF skip + k \in DOMAIN Temp THEN Temp[skip + k] ELSE <<"beyond">>]

GotData ==
    LET skip == ffs.pos % PerBlk
        rest == ffs.count - ffs.num
        len  == CASE ffs.phase = "first" -> Min({rest, PerBlk - skip})
                  [] ffs.phase = "whole" -> PerBlk
                  [] OTHER -> rest
    IN  /\ Got("data")
        /\ NextPart([ffs EXCEPT !.buf = @ \o Copy(skip, len), !.num = @ + len, !.pos = @ + len,
                                !.i = IF ffs.phase = "whole" THEN @ + 1 ELSE @])
        /\ UNCHANGED <<idePort, ideTxn, ideOffset, blkReply, vnodes, calls>>

DiskNext ==
    \/ IdeRecv \/ IdeReply
    \/ \E c \in BlkClient : BlkSend(c) \/ BlkRecv(c)
    \/ \E part \in RawNames, block \in 0..1 : RawRead(part, block)
    \/ Mount \/ Mounted \/ GotVnode \/ WalkOne \/ WalkFails \/ Done
    \/ \E path \in Paths : Walk(path)
    \/ OpenDir \/ ListBlock
    \/ \E from \in ReadAt, count \in ReadLen : Read(from, count)
    \/ Indirect \/ GotData

DiskSpec == DiskInit /\ [][DiskNext]_diskVars
-----------------------------------------------------------------------------
\* Every client gets the sector that it asked for, of its own device, whatever the
\* other one asks for in between.
AnswersOwn ==
    \A c \in BlkClient : blkReply[c] # NoAnswer =>
        blkReply[c] = Image[blk[c].at + IF blk[c].part = "raw" THEN 0 ELSE PartStart(blk[c].part)]

\* The driver has the vnode of the root, and one more while a walk's result is used:
\* a walk puts all it went through, whether it finds the name or not.
VnodesBalanced == ffs.pc = "ready" => vnodes = IF ffs.ino = ROOTINO THEN 1 ELSE 2

\* The reference for walks: the entries of all direct blocks of a directory.
InodeOf(ino) == InodeAt(Image[PartStart(FfsName) + 2 * PerBlk + ino])
DirEntries(inode) ==
    {Image[PartStart(FfsName) + b * PerBlk + k] :
        b \in {inode.db[j] : j \in 1..NDADDR} \ {0}, k \in 0..PerBlk - 1}
Named(ino, name) == {e[3] : e \in {x \in DirEntries(InodeOf(ino)) : x[2] = name /\ x[3] # 0}}

\* A walk ends at the inode that each name in turn says, in whatever direct block of
\* the directory it stands, and at none if the last name is nowhere.  (At inode 0 it
\* ends if the name is that of an entry that was made free.)
WalkFindsFile ==
    ffs.pc = "ready" /\ ffs.asked # <<>> /\ ffs.ino # 0 =>
        LET dir == IF Len(ffs.asked) = 1 THEN {ROOTINO} ELSE Named(ROOTINO, ffs.asked[1])
            found == UNION {Named(d, Last(ffs.asked)) : d \in dir}
        IN  IF found = {} THEN ffs.ino = ROOTINO
            ELSE ffs.ino \in found /\ ffs.inode = InodeOf(ffs.ino)

\* A directory without an entry that was made free is listed completely.
ListComplete ==
    ffs.pc = "listed" /\ (\A e \in DirEntries(ffs.inode) : e[3] # 0) =>
        /\ Range(ffs.list) = {e[2] : e \in DirEntries(ffs.inode)}
        /\ Len(ffs.list) = Cardinality(DirEntries(ffs.inode))

\* What a read of a file returns, byte for byte.
Right == ffs.buf = [k \in 1..ffs.count |-> <<"byte", ffs.ino, ffs.from + k - 1>>]

\* A read gets the bytes that were asked for, across the ends of blocks and from
\* the indirect block, if at most two blocks are left after the first part.
ReadIsRight ==
    LET first == IF ffs.from % PerBlk = 0 THEN 0 ELSE PerBlk - (ffs.from % PerBlk)
    IN  ffs.pc = "read" /\ ffs.count - first <= 2 * PerBlk
            /\ ffs.from + ffs.count <= (NDADDR + NINDIR) * PerBlk => Right

\* ffs_read reads whole blocks `until we have less than a full block to go', so that
\* the last part never copies beyond its one block.
ReadsUntilLess == ffs.pc = "read" => <<"beyond">> \notin Range(ffs.buf)

\* From ffs_walk, ffs_opendir and ffs_read down to the sectors another program asks
\* for at the same time.
DiskReadsRight ==
    /\ AnswersOwn
    /\ VnodesBalanced
    /\ WalkFindsFile
    /\ ListComplete
    /\ ReadIsRight
=============================================================================
