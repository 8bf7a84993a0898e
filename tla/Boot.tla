-------------------------------- MODULE Boot --------------------------------
(***************************************************************************)
(* From the files of a boot image to the programs that run: bootmaker.c lays  *)
(* the image out, boot.c maps the kernel of it, kernel.c starts the teams,    *)
(* init.c what rc.boot and rc list, and bootfs.c of the VFS server serves it. *)
(***************************************************************************)
EXTENDS Integers, Sequences, FiniteSets, SequencesExt

CONSTANTS
    BPage,        \* bytes of a page, 4096
    MaxEntries,   \* BOOTDIR_MAX_ENTRIES, 64
    InisOf,       \* the .ini files that bootmaker may be given: sequences of files,
                  \* a file a sequence of lines and whether the last one is cut off
    BytesOf,      \* the files that exist, and their size
    ScriptOf,     \* what the rc files say, line by line: a program's name, or ""
    Elves,        \* the files that begin with ELF_MAGIC
    ReadFrom, ReadBytes,   \* offsets and counts that clients read with
    MaxAnswers    \* bound: calls of the file system

VARIABLES
    stage,        \* how far the system is
    ini,          \* the files that bootmaker was given
    sections,     \* what it understood
    image,        \* the boot_dir, and the pages behind it
    kmap,         \* the kernel's pages: virtual page to page of the image
    teams,        \* what go_kernel started
    init,         \* what init does, and the programs it started
    mounts,       \* the inode lists of the mounted bootfs, and inode_max
    answer, answers   \* the last answer of the VFS server, and how many there were

bootVars == <<stage, ini, sections, image, kmap, teams, init, mounts, answer, answers>>

\* A byte of a file, or of what fills its last page.
ByteOf(f, at) == IF at < BytesOf[f] THEN <<f, at>> ELSE <<"fill", 0>>
FileBytes(f) == [i \in 1..BytesOf[f] |-> <<f, i - 1>>]
PagesFor(bytes) == (bytes + BPage - 1) \div BPage
PageOfFile(f, n) == [b \in 0..BPage - 1 |-> ByteOf(f, n * BPage + b)]

NoEntry == [name |-> "", type |-> "NONE", offset |-> 0, size |-> 0, vsize |-> 0]
NoImage == [dir |-> [c \in 0..MaxEntries - 1 |-> NoEntry], pages |-> <<>>]

-----------------------------------------------------------------------------
\* bootmaker.

\* Slip: what was said first counts.
ReadLineFirst(acc, line) ==
    IF acc.open THEN IF line.kind # "header" THEN acc
                     ELSE [secs |-> Append(acc.secs, [name |-> "odd", nv |-> <<>>]), open |-> FALSE]
    ELSE CASE line.kind = "header" -> [acc EXCEPT !.secs = Append(@, [name |-> line.name, nv |-> <<>>])]
           [] line.kind = "pair" -> [acc EXCEPT !.secs[Len(acc.secs)].nv = Append(@, <<line.lhs, line.rhs>>)]
           [] line.kind = "open" -> [acc EXCEPT !.open = TRUE]
           [] OTHER -> acc

\* A line of load_ini: a section goes to the end, a value to the front of the last one.
\* A name without its bracket goes on to the next one; notes, blank lines, and lines
\* without "=" say nothing.
ReadLine(acc, line) ==
    IF acc.open THEN IF line.kind # "header" THEN acc
                     ELSE [secs |-> Append(acc.secs, [name |-> "odd", nv |-> <<>>]), open |-> FALSE]
    ELSE CASE line.kind = "header" -> [acc EXCEPT !.secs = Append(@, [name |-> line.name, nv |-> <<>>])]
           [] line.kind = "pair" -> [acc EXCEPT !.secs[Len(acc.secs)].nv = <<<<line.lhs, line.rhs>>>> \o @]
           [] line.kind = "open" -> [acc EXCEPT !.open = TRUE]
           [] OTHER -> acc

\* A value that no newline ends is not taken.
LoadIni(secs, file) ==
    LET last == Len(file.lines)
        said == IF file.cut /\ file.lines[last].kind = "pair" THEN Front(file.lines) ELSE file.lines
    IN  FoldLeft(ReadLine, [secs |-> secs, open |-> FALSE], said).secs

GetVal(sec, name, default) ==
    LET at == {i \in DOMAIN sec.nv : sec.nv[i][1] = name}
    IN  IF at = {} THEN default ELSE sec.nv[CHOOSE i \in at : \A j \in at : i <= j][2]

\* Slip: a last page that is not full is forgotten.
PagesDown(bytes) == bytes \div BPage

\* be_size.
EntrySize(bytes) == PagesFor(bytes)

\* makeboot, section by section: next is the page where the next object goes.
AddEntry(acc, sec) ==
    LET file == GetVal(sec, "file", "")
        type == GetVal(sec, "type", "NONE")
        size == EntrySize(BytesOf[file])
        entry == [name |-> sec.name, type |-> type, offset |-> acc.next, size |-> size,
                  vsize |-> IF BytesOf[file] < size THEN size ELSE BytesOf[file]]
    IN  IF acc.died THEN acc
        ELSE IF file \notin DOMAIN BytesOf \/ type \notin {"boot", "code", "data", "elf32"}
                \/ acc.c + 1 = MaxEntries
        THEN [acc EXCEPT !.died = TRUE]
        ELSE [acc EXCEPT !.c = acc.c + 1, !.next = acc.next + size, !.dir[acc.c] = entry,
                         !.pages = @ \o [n \in 1..PagesFor(BytesOf[file]) |-> PageOfFile(file, n - 1)]]

MakeBoot(secs) ==
    LET self == [NoEntry EXCEPT !.name = "SBBB/Directory", !.type = "DIRECTORY", !.size = 1, !.vsize = 1]
    IN  FoldLeft(AddEntry, [died |-> secs = <<>>, c |-> 1, next |-> 1, pages |-> <<>>,
                            dir |-> [NoImage.dir EXCEPT ![0] = self]], secs)

\* A page of the image, from where it was loaded; the directory is page 0.
ImagePage(p) == IF p \in DOMAIN image.pages THEN image.pages[p] ELSE [b \in 0..BPage - 1 |-> <<"other", p>>]
BytesAt(page, count) ==
    [i \in 1..count |-> ImagePage(page + (i - 1) \div BPage)[(i - 1) % BPage]]

-----------------------------------------------------------------------------
BootInit ==
    /\ stage = "off" /\ ini \in InisOf /\ sections = <<>> /\ image = NoImage
    /\ kmap = <<>> /\ teams = {}
    /\ init = [at |-> 1, waits |-> FALSE, from |-> "rc.boot", started |-> <<>>]
    /\ mounts = [lists |-> <<>>, next |-> 0]
    /\ answer = [op |-> "none"] /\ answers = 0

BootMaker ==
    /\ stage = "off"
    /\ sections' = FoldLeft(LoadIni, <<>>, ini)
    /\ LET made == MakeBoot(sections')
       IN  /\ stage' = IF made.died THEN "died" ELSE "image"
           /\ image' = IF made.died THEN NoImage ELSE [dir |-> made.dir, pages |-> made.pages]
    /\ UNCHANGED <<ini, kmap, teams, init, mounts, answer, answers>>

\* bootstrap, of an image whose second object is the kernel: one page more is mapped.
Bootstrap ==
    /\ stage = "image" /\ image.dir[2].type # "NONE"
    /\ kmap' = [i \in 0..image.dir[2].size |-> image.dir[2].offset + i]
    /\ stage' = "kernel"
    /\ UNCHANGED <<ini, sections, image, teams, init, mounts, answer, answers>>

\* The entries up to the first that is empty, if there is one: beyond the directory
\* lies the first object.
Listed(first) ==
    {c \in first..MaxEntries - 1 : \A d \in first..c : image.dir[d].type # "NONE"}

\* go_kernel: each object to run gets a team, its pages as text and a heap behind.
GoKernel ==
    /\ stage = "kernel"
    /\ teams' = {[name |-> image.dir[c].name, at |-> c,
                  text |-> [n \in 0..image.dir[c].size - 1 |-> image.dir[c].offset + n],
                  heap |-> 1 + image.dir[c].size] : c \in {d \in Listed(3) : image.dir[d].type = "code"}}
    /\ stage' = "up"
    /\ UNCHANGED <<ini, sections, image, kmap, init, mounts, answer, answers>>

-----------------------------------------------------------------------------
\* init.

BootGetNum(name) ==
    LET at == {c \in 0..MaxEntries - 1 : image.dir[c].name = name}
    IN  IF at = {} THEN -1 ELSE CHOOSE c \in at : \A d \in at : c <= d

\* The lines that it runs: notes and empty ones are passed over.
Lines(file) == SelectSeq(ScriptOf[file], LAMBDA word : word # "")
HasScript == BootGetNum("rc.boot") >= 0

\* From rc.boot: the program is copied out of the image into a new team.
InitSpawns ==
    /\ stage = "up" /\ ~init.waits /\ init.from = "rc.boot" /\ HasScript
    /\ init.at <= Len(Lines("rc.boot"))
    /\ LET prog == BootGetNum(Lines("rc.boot")[init.at])
       IN  /\ prog >= 0
           /\ init' = [init EXCEPT !.waits = TRUE,
                          !.started = Append(@, [name |-> image.dir[prog].name,
                                                 bytes |-> BytesAt(image.dir[prog].offset, image.dir[prog].vsize)])]
    /\ UNCHANGED <<stage, ini, sections, image, kmap, teams, mounts, answer, answers>>

\* It ended, or went on in a thread of its own: thr_wait returns.
InitGoesOn ==
    /\ init.waits /\ init' = [init EXCEPT !.waits = FALSE, !.at = @ + 1]
    /\ UNCHANGED <<stage, ini, sections, image, kmap, teams, mounts, answer, answers>>

\* Then rc is read and its programs run through the VFS server.
InitReadsRc ==
    /\ stage = "up" /\ ~init.waits /\ init.from = "rc.boot"
    /\ HasScript => init.at > Len(Lines("rc.boot"))
    /\ init' = [init EXCEPT !.from = "rc", !.at = 1]
    /\ UNCHANGED <<stage, ini, sections, image, kmap, teams, mounts, answer, answers>>

Inode(ino, name, offset, size) == [ino |-> ino, name |-> name, offset |-> offset, size |-> size]

\* bootfs_mount, when the VFS server starts and by mount again: the newest in front.
MountBoot ==
    /\ stage = "up" /\ \E i \in DOMAIN init.started : init.started[i].name = "vfs"
    /\ Len(mounts.lists) < 2
    /\ LET base == mounts.next
           own == SelectSeq([k \in 1..MaxEntries |-> k - 1],
                            LAMBDA c : image.dir[c].type # "NONE" /\ image.dir[c].name # "SBBB/Directory")
           New(k) == Inode(base + 1 + k, image.dir[own[k]].name, image.dir[own[k]].offset, image.dir[own[k]].vsize)
       IN  mounts' = [lists |-> Append(mounts.lists,
                                  Reverse([k \in DOMAIN own |-> New(k)])
                                  \o <<Inode(base, ".", 0, 0), Inode(base + 1, "..", 0, 0)>>),
                      next |-> base + 2 + Len(own)]
    /\ UNCHANGED <<stage, ini, sections, image, kmap, teams, init, answer, answers>>

\* Slip: the end of the file is where the count says.
ReadPast(inode, from, count) == count

\* How much bootfs_read copies.
ReadCount(inode, from, count) ==
    IF from >= inode.size THEN 0 ELSE IF count <= inode.size - from THEN count ELSE inode.size - from

\* bootfs_walk, from the root.
Sibling(m, name) == SelectSeq(mounts.lists[m], LAMBDA n : n.name = name)

\* execve, of a line of rc: the file is read through the VFS server, and runs if it is one
\* that can; if not, init says so and goes on.
InitExecs ==
    /\ stage = "up" /\ ~init.waits /\ init.from = "rc" /\ mounts.lists # <<>>
    /\ Sibling(1, "rc") # <<>> /\ init.at <= Len(Lines("rc"))
    /\ LET found == Sibling(1, Lines("rc")[init.at])
           bytes == BytesAt(found[1].offset, found[1].size)
       IN  init' = IF found # <<>> /\ bytes # <<>> /\ bytes[1][1] \in Elves
                   THEN [init EXCEPT !.waits = TRUE, !.started = Append(@, [name |-> found[1].name, bytes |-> bytes])]
                   ELSE [init EXCEPT !.at = @ + 1]
    /\ UNCHANGED <<stage, ini, sections, image, kmap, teams, mounts, answer, answers>>

\* bootfs_walk, bootfs_open, bootfs_read, for a client of the server.
Serve(m) ==
    /\ answers < MaxAnswers /\ answers' = answers + 1
    /\ \E name \in {sections[i].name : i \in DOMAIN sections} \cup {"none"}, from \in ReadFrom, count \in ReadBytes :
         LET found == Sibling(m, name)
             inode == found[1]
         IN  answer' = IF found = <<>> THEN [op |-> "missing", name |-> name]
                       ELSE [op |-> "read", name |-> name, from |-> from, count |-> count,
                             got |-> LET n == ReadCount(inode, from, count)
                                     IN  SubSeq(BytesAt(inode.offset, from + n), from + 1, from + n)]
    /\ UNCHANGED <<stage, ini, sections, image, kmap, teams, init, mounts>>

\* bootfs_opendir, bootfs_readdir: each inode once, the oldest first.
ReadDir(m) ==
    /\ answers < MaxAnswers /\ answers' = answers + 1
    /\ answer' = [op |-> "readdir", names |-> [k \in DOMAIN mounts.lists[m] |-> Reverse(mounts.lists[m])[k].name]]
    /\ UNCHANGED <<stage, ini, sections, image, kmap, teams, init, mounts>>

BootNext ==
    \/ BootMaker \/ Bootstrap \/ GoKernel
    \/ InitSpawns \/ InitGoesOn \/ InitReadsRc \/ InitExecs
    \/ MountBoot \/ \E m \in DOMAIN mounts.lists : Serve(m) \/ ReadDir(m)

BootSpec == BootInit /\ [][BootNext]_bootVars
-----------------------------------------------------------------------------
\* What the .ini files mean, line by line: the sections by their headers, and of a value
\* the last line before the next header.
Meant ==
    LET lines   == FlattenSeq([i \in DOMAIN ini |-> ini[i].lines])
        headers == {i \in DOMAIN lines : lines[i].kind = "header"}
        SaidIn(h, key) ==
            LET at == {i \in DOMAIN lines : /\ i > h /\ lines[i].kind = "pair" /\ lines[i].lhs = key
                                            /\ \A j \in headers : ~(h < j /\ j <= i)}
            IN  IF at = {} THEN "" ELSE lines[CHOOSE i \in at : \A j \in at : j <= i].rhs
    IN  {[name |-> lines[h].name, file |-> SaidIn(h, "file"), type |-> SaidIn(h, "type"),
          at |-> Cardinality({j \in headers : j <= h})] : h \in headers}
Plain == \A i \in DOMAIN ini : ~ini[i].cut /\ \A j \in DOMAIN ini[i].lines : ini[i].lines[j].kind # "open"
Latest(meant, name) == CHOOSE o \in meant : o.name = name /\ \A p \in meant : p.name = name => p.at <= o.at
First(meant, name) == CHOOSE o \in meant : o.name = name /\ \A p \in meant : p.name = name => p.at >= o.at
Nth(meant, c) == CHOOSE o \in meant : o.at = c

\* Every object of the image is in pages of its own, whole, where its entry says, and an
\* empty entry ends the directory.
LaidOut(meant) ==
    /\ \A o \in meant : /\ image.dir[o.at].name = o.name /\ image.dir[o.at].type = o.type
                        /\ BytesAt(image.dir[o.at].offset, BytesOf[o.file]) = FileBytes(o.file)
    /\ \A c, d \in Listed(0) : c < d => image.dir[c].offset + image.dir[c].size <= image.dir[d].offset
    /\ Listed(0) = 0..Cardinality(meant) /\ Cardinality(meant) < MaxEntries - 1

\* The kernel is mapped whole; each object to run, from the third on, has a team with its
\* bytes as text and a heap that does not begin in them.
Runs(meant) ==
    /\ LET f == Nth(meant, 2).file
       IN  \A b \in 0..BytesOf[f] - 1 : /\ b \div BPage \in DOMAIN kmap
                                         /\ ImagePage(kmap[b \div BPage])[b % BPage] = <<f, b>>
    /\ {t.at : t \in teams} = {o.at : o \in {p \in meant : p.type = "code" /\ p.at >= 3}}
    /\ \A t \in teams : LET f == Nth(meant, t.at).file
                        IN  \A b \in 0..BytesOf[f] - 1 :
                                /\ ImagePage(t.text[b \div BPage])[b % BPage] = <<f, b>>
                                /\ t.heap > 1 + b \div BPage

\* init starts what rc.boot lists, and then what rc lists and can be run, in that order,
\* each with its whole file.
Started(meant) ==
    LET runs(name) == name \in {o.name : o \in meant} /\ Latest(meant, name).file \in Elves
        first  == [k \in DOMAIN Lines("rc.boot") |-> <<Lines("rc.boot")[k], First(meant, Lines("rc.boot")[k]).file>>]
        second == SelectSeq(Lines("rc"), runs)
        wanted == (IF HasScript THEN first ELSE <<>>)
                  \o [k \in DOMAIN second |-> <<second[k], Latest(meant, second[k]).file>>]
    IN  /\ Len(init.started) <= Len(wanted)
        /\ \A i \in DOMAIN init.started :
             init.started[i] = [name |-> wanted[i][1], bytes |-> FileBytes(wanted[i][2])]

\* What the VFS server reads from /boot are the bytes of the file that the .ini named, and
\* everything that is there is found and listed.
Served(meant) ==
    LET names == {o.name : o \in meant}
    IN  /\ answer.op = "missing" => answer.name \notin names
        /\ answer.op = "read" =>
             /\ answer.name \in names
             /\ LET bytes == FileBytes(Latest(meant, answer.name).file)
                IN  answer.got = SubSeq(bytes, answer.from + 1, IF answer.from + answer.count < Len(bytes)
                                                                THEN answer.from + answer.count ELSE Len(bytes))
        /\ answer.op = "readdir" => /\ ToSet(answer.names) = names \cup {".", ".."}
                                    /\ Len(answer.names) = Cardinality(meant) + 2

\* From the .ini files to what runs and what is read, nothing is lost or mixed up.
BootIsWhole ==
    Plain => LET meant == Meant
             IN  /\ stage \notin {"off", "died"} => LaidOut(meant)
                 /\ stage = "up" => Runs(meant)
                 /\ Started(meant) /\ Served(meant)
=============================================================================
