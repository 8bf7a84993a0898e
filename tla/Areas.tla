-------------------------------- MODULE Areas --------------------------------
(***************************************************************************)
(* Identifiers, physical pages, address spaces and the areas mapped in them *)
(* of single-threaded teams.  src/openblt/kernel/{resource,aspace,team}.c,  *)
(* getpage and putpage of memory.c, thr_spawn and task_destroy of task.c.   *)
(*                                                                         *)
(* Blocks of kmalloc are left to Kmem; pages it takes leave the free list   *)
(* by Taken.  The state is one record s, as handlers run without a break.   *)
(***************************************************************************)
EXTENDS Integers, FiniteSetsExt, SequencesExt

CONSTANTS
    Team,      \* the team_t's there can be
    Boot,      \* the team go_kernel makes
    MaxId,     \* rmax - 1
    MaxPage,   \* physical pages are 1 to MaxPage; devices are behind them
    Span,      \* entries of a page table, 1024
    Half,      \* the "2mb line", 512
    Group,     \* the pagegroup_t's there can be
    Sizes,     \* the sizes, in pages, areas are created with
    Breaks,    \* the pages brk is called for
    MaxTaken,  \* bound of the model on the pages kmalloc takes
    MaxCalls   \* bound of the model on the calls

Id == 1..MaxId
Page == 1..MaxPage
Device == MaxPage + 1

ASSUME AreasAssumption ==
    /\ Boot \in Team /\ MaxId \in Nat /\ MaxPage \in Nat
    /\ Span \in Nat /\ Half \in 1..(Span - 1)
    /\ Sizes \subseteq Nat \ {0} /\ Breaks \subseteq Nat

VARIABLES
    s,         \* the kernel's tables, see Empty
    left       \* how many calls are still made

areasVars == <<s, left>>

NoTeam == [live |-> FALSE, tables |-> <<>>, kstack |-> 0, ptab |-> [v \in 0..(Span - 1) |-> 0],
           areas |-> <<>>, heap |-> 0, aspace |-> 0, team |-> 0, task |-> 0]
NoArea == [team |-> Boot, group |-> CHOOSE g \in Group : TRUE, virt |-> 0, length |-> 0]
NoGroup == [refcount |-> 0, physmap |-> FALSE, pages |-> <<>>]

Panic(x) == [x EXCEPT !.stop = "panic"]
Ok(x) == x.stop = "no"

-----------------------------------------------------------------------------
(* Identifiers: the table rmap, its free list last in first out.            *)

Bind(x, type) ==
    IF x.rfree = <<>> THEN Panic(x)
    ELSE [x EXCEPT !.rfree = Tail(@), !.type[Head(x.rfree)] = type]

\* What the next rsrc_bind gives; 0 is never an identifier.
NextId(x) == IF x.rfree = <<>> THEN 0 ELSE Head(x.rfree)

RsrcRelease(x, id) == [x EXCEPT !.rfree = <<id>> \o @, !.type[id] = "none"]

RsrcFind(x, type, id) == id \in Id /\ x.type[id] = type

-----------------------------------------------------------------------------
(* Physical pages: a stack.                                                 *)

Getpages(x, n) ==
    IF Len(x.free) < n THEN Panic(x) ELSE [x EXCEPT !.free = SubSeq(@, n + 1, Len(@))]

Nextpages(x, n) == SubSeq(x.free, 1, Min({n, Len(x.free)}))

\* The pages of q in their order: the last is the next to be used.
Putpages(x, q) == [x EXCEPT !.free = Reverse(q) \o @]

-----------------------------------------------------------------------------
(* Address spaces.                                                          *)

\* Where locate_span begins to look.
From(start) == IF start \in 1..(Span - 1) THEN start ELSE Half

FreeRun(ptab, i, len) == i + len <= Span /\ \A v \in i..(i + len - 1) : ptab[v] = 0

\* Slip: the run is not tested at its end.
LocateSpanShort(ptab, start, len) ==
    LET from == From(start)
    IN  IF \E i \in from..(Span - 1) : ptab[i] = 0
        THEN Min({i \in from..(Span - 1) : ptab[i] = 0}) ELSE 0

\* The first run that is long enough; if there is none, what is left at the
\* end, though it is too short; 0 if nothing is.
LocateSpan(ptab, start, len) ==
    LET from == From(start)
        fit == {i \in from..(Span - 1) : FreeRun(ptab, i, len)}
        rest == {i \in from..(Span - 1) : FreeRun(ptab, i, Span - i)}
    IN  IF len = 0 THEN 0
        ELSE IF fit # {} THEN Min(fit)
        ELSE IF rest # {} THEN Min(rest)
        ELSE 0

\* aspace_map of the pages of q; beyond the page table it writes anywhere.
Map(x, t, at, q) ==
    IF at + Len(q) > Span THEN [x EXCEPT !.stop = "wild"]
    ELSE [x EXCEPT !.team[t].ptab =
             [v \in DOMAIN @ |-> IF v \in at..(at + Len(q) - 1) THEN q[v - at + 1] ELSE @[v]]]

Clear(x, t, at, len) ==
    [x EXCEPT !.team[t].ptab = [v \in DOMAIN @ |-> IF v \in at..(at + len - 1) THEN 0 ELSE @[v]]]

\* A new area of t at `at', of the pages q of group g.
Attach(x, t, g, at, q) ==
    LET id == NextId(x)
        y == Bind(Map(x, t, at, q), "area")
    IN  IF ~Ok(y) THEN y
        ELSE [y EXCEPT !.area[id] = [team |-> t, group |-> g, virt |-> at, length |-> Len(q)],
                       !.team[t].areas = Append(@, id),
                       !.group[g].refcount = @ + 1]

FreeGroup(x) == CHOOSE g \in Group : x.group[g].refcount = 0

AreaCreate(x, t, size, virt, physmap) ==
    LET at == LocateSpan(x.team[t].ptab, virt, size)
        g == FreeGroup(x)
        q == IF physmap THEN [i \in 1..size |-> Device] ELSE Nextpages(x, size)
        y == IF physmap THEN x ELSE Getpages(x, size)
    IN  IF at = 0 THEN x
        ELSE IF ~Ok(y) THEN y
        ELSE Attach([y EXCEPT !.group[g] = [NoGroup EXCEPT !.physmap = physmap, !.pages = q]],
                    t, g, at, q)

\* Slip: the clone does not count.
AreaCloneFree(x, t, id, virt) ==
    LET a == x.area[id]
        at == LocateSpan(x.team[t].ptab, virt, a.length)
        y == Attach(x, t, a.group, at, SubSeq(x.group[a.group].pages, 1, a.length))
    IN  IF ~RsrcFind(x, "area", id) \/ at = 0 THEN x
        ELSE IF Ok(y) THEN [y EXCEPT !.group[a.group].refcount = @ - 1] ELSE y

\* Any team may clone any area ("xxx : check perm").
AreaClone(x, t, id, virt) ==
    LET a == x.area[id]
        at == LocateSpan(x.team[t].ptab, virt, a.length)
    IN  IF ~RsrcFind(x, "area", id) \/ at = 0 THEN x
        ELSE Attach(x, t, a.group, at, SubSeq(x.group[a.group].pages, 1, a.length))

\* Slips: the pages of a device are given back too; or none are.
DetachDevice(x, t, id) ==
    LET a == x.area[id]
        g == a.group
        y == RsrcRelease([Clear(x, t, a.virt, a.length) EXCEPT
                             !.team[t].areas = SelectSeq(@, LAMBDA i : i # id),
                             !.area[id] = NoArea, !.group[g].refcount = @ - 1], id)
    IN  IF y.group[g].refcount > 0 THEN y
        ELSE [Putpages(y, y.group[g].pages) EXCEPT !.group[g] = NoGroup]

DetachKeep(x, t, id) ==
    LET a == x.area[id]
        y == RsrcRelease([Clear(x, t, a.virt, a.length) EXCEPT
                             !.team[t].areas = SelectSeq(@, LAMBDA i : i # id),
                             !.area[id] = NoArea, !.group[a.group].refcount = @ - 1], id)
    IN  IF y.group[a.group].refcount > 0 THEN y ELSE [y EXCEPT !.group[a.group] = NoGroup]

\* The last area of a group gives its pages back, but not those of a device.
Detach(x, t, id) ==
    LET a == x.area[id]
        g == a.group
        y == RsrcRelease([Clear(x, t, a.virt, a.length) EXCEPT
                             !.team[t].areas = SelectSeq(@, LAMBDA i : i # id),
                             !.area[id] = NoArea, !.group[g].refcount = @ - 1], id)
    IN  IF y.group[g].refcount > 0 THEN y
        ELSE IF y.group[g].physmap THEN [y EXCEPT !.group[g] = NoGroup]
        ELSE [Putpages(y, y.group[g].pages) EXCEPT !.group[g] = NoGroup]

\* Slip: the areas of others are not told apart.
AreaDestroyForeign(x, t, id) ==
    IF ~RsrcFind(x, "area", id) THEN x ELSE Detach(x, t, id)

AreaDestroy(x, t, id) ==
    IF ~RsrcFind(x, "area", id) \/ ~Contains(x.team[t].areas, id) THEN x
    ELSE Detach(x, t, id)

\* area_resize to size pages: it adds those the group lacks behind the area,
\* in the address space of the caller.
AreaResize(x, t, id, size) ==
    LET a == x.area[id]
        n == Len(x.group[a.group].pages)
        more == size - n
        at == LocateSpan(x.team[t].ptab, a.virt + n, more)
        q == Nextpages(x, more)
        y == Map(Getpages(x, more), t, at, q)
    IN  IF ~RsrcFind(x, "area", id) \/ more <= 0 \/ at # a.virt + n THEN x
        ELSE IF ~Ok(y) THEN y
        ELSE [y EXCEPT !.area[id].length = @ + more, !.group[a.group].pages = @ \o q]

-----------------------------------------------------------------------------
(* Teams.                                                                   *)

\* aspace_create takes its two pages, then binds; the team binds after it.
TeamCreate(x, t) ==
    LET y == Getpages(x, 2)
        z == Bind(y, "aspace")
        w == Bind(z, "team")
    IN  IF ~Ok(y) \/ ~Ok(z) \/ ~Ok(w) THEN Panic(x)
        ELSE [w EXCEPT !.team[t] = [NoTeam EXCEPT !.live = TRUE, !.tables = Nextpages(x, 2),
                                       !.aspace = NextId(y), !.team = NextId(z)]]

\* task_create and the rsrc_bind of its callers.
TaskCreate(x, t) ==
    LET y == Getpages(x, 1)
        z == Bind(y, "task")
    IN  IF ~Ok(x) \/ ~Ok(y) \/ ~Ok(z) THEN Panic(x)
        ELSE [z EXCEPT !.team[t].kstack = Head(x.free), !.team[t].task = NextId(y)]

\* thr_spawn: the new team begins with clones of the areas of code and stack;
\* the first is its heap.
ThrSpawn(x, t, area0, vaddr0, area1, vaddr1) ==
    LET y == TaskCreate(TeamCreate(x, t), t)
        heap == NextId(y)
        z == AreaClone(y, t, area0, vaddr0)
        w == AreaClone([z EXCEPT !.team[t].heap = heap], t, area1, vaddr1)
    IN  IF ~Ok(y) THEN y ELSE IF ~Ok(z) THEN z ELSE w

\* task_destroy of the only thread, and with it team_destroy: aspace_destroy
\* destroys the areas from the head of its list.
Reap(x, t) ==
    LET y == RsrcRelease(Putpages(x, <<x.team[t].kstack>>), x.team[t].task)
        z == FoldLeft(LAMBDA acc, id : AreaDestroy(acc, t, id), y, y.team[t].areas)
        w == Putpages(RsrcRelease(z, x.team[t].aspace), x.team[t].tables)
    IN  [RsrcRelease(w, x.team[t].team) EXCEPT !.team[t] = NoTeam]

-----------------------------------------------------------------------------
\* Everything free; then go_kernel made the first team, with a page of text
\* that boot loaded, a stack and a heap.
Empty ==
    [ stop |-> "no", rfree |-> [i \in 1..MaxId |-> i], type |-> [i \in Id |-> "none"],
      free |-> [i \in 1..MaxPage |-> i], taken |-> {},
      team |-> [t \in Team |-> NoTeam], area |-> [i \in Id |-> NoArea],
      group |-> [g \in Group |-> NoGroup] ]

Booted ==
    LET y == TeamCreate(Empty, Boot)
        z == TaskCreate(AreaCreate(y, Boot, 1, Span - 1, FALSE), Boot)
        w == AreaCreate(z, Boot, 1, 1, TRUE)
    IN  AreaCreate([w EXCEPT !.team[Boot].heap = NextId(w)], Boot, 2, 2, FALSE)

AreasInit == s = Booted /\ left = MaxCalls

Live(t) == s.stop = "no" /\ s.team[t].live
Becomes(x) == left > 0 /\ s' = x /\ left' = left - 1

HasGroup == \E g \in Group : s.group[g].refcount = 0

Create(t) ==
    /\ Live(t) /\ HasGroup
    /\ \E size \in Sizes, physmap \in BOOLEAN : Becomes(AreaCreate(s, t, size, 0, physmap))

Clone(t) == Live(t) /\ \E id \in Id : Becomes(AreaClone(s, t, id, 0))

\* Any area of the team's own, or of others, or none.  No program destroys its
\* heap: team_t.heap_id would go stale, and brk grow what has the identifier.
Destroy(t) ==
    Live(t) /\ \E id \in Id \ {s.team[t].heap} : Becomes(AreaDestroy(s, t, id))

\* brk(addr) asks for 0x1000 + ((addr - virt_addr) & 0xFFFFF000) bytes where
\* virt_addr is a page number: as many pages as addr lies above 0, not above
\* the heap.
Brk(t) == Live(t) /\ \E page \in Breaks : Becomes(AreaResize(s, t, s.team[t].heap, page))

\* exec: code and stack are areas of memory made for it, not shared so far.
Fresh(id) == s.type[id] = "area" /\ s.group[s.area[id].group].refcount = 1
             /\ ~s.group[s.area[id].group].physmap

Spawn(t) ==
    /\ Live(t)
    /\ \E u \in Team : /\ ~s.team[u].live
                       /\ \E code, stack \in Id :
                            /\ code # stack /\ {code, stack} \subseteq Range(s.team[t].areas)
                            /\ code # s.team[t].heap /\ Fresh(code) /\ Fresh(stack)
                            /\ Becomes(ThrSpawn(s, u, code, 1, stack, Span - 1))

Exit(t) == Live(t) /\ Becomes(Reap(s, t))

\* kmalloc takes a page for one of its pools and keeps it.
Taken ==
    /\ s.stop = "no" /\ Cardinality(s.taken) < MaxTaken
    /\ s' = [Getpages(s, 1) EXCEPT !.taken = @ \cup Range(Nextpages(s, 1))]
    /\ UNCHANGED left

AreasStopped == s.stop # "no" /\ UNCHANGED areasVars

AreasNext ==
    \/ \E t \in Team : Create(t) \/ Clone(t) \/ Destroy(t) \/ Brk(t) \/ Spawn(t) \/ Exit(t)
    \/ Taken \/ AreasStopped

AreasSpec == AreasInit /\ [][AreasNext]_areasVars

-----------------------------------------------------------------------------
(* Properties.                                                              *)

AreasTypeOK ==
    /\ s.stop \in {"no", "panic", "wild"}
    /\ s.type \in [Id -> {"none", "area", "aspace", "team", "task"}]
    /\ s.rfree \in Seq(Id) /\ s.free \in Seq(Page) /\ s.taken \subseteq Page
    /\ \A t \in Team : s.team[t].ptab \in [0..(Span - 1) -> 0..Device]
    /\ \A i \in Id : s.area[i].group \in Group /\ s.area[i].team \in Team
    /\ \A g \in Group : s.group[g].refcount \in Nat

\* How often page p is in use, by whom it may be.
Uses(p) ==
    Cardinality({i \in DOMAIN s.free : s.free[i] = p})
    + Cardinality({<<t, i>> \in Team \X {1, 2} : s.team[t].live /\ s.team[t].tables[i] = p})
    + Cardinality({t \in Team : s.team[t].live /\ s.team[t].kstack = p})
    + Cardinality(UNION {{<<g, i>> : i \in {j \in DOMAIN s.group[g].pages : s.group[g].pages[j] = p}}
                         : g \in Group})
    + (IF p \in s.taken THEN 1 ELSE 0)

\* Over any sequence of create, clone, destroy, brk, spawn and exit a page is
\* free once or used for one thing: none is lost (getpage would panic in the
\* end), none is freed twice or given out twice (putpage, area_destroy).
PagesApart == Ok(s) => \A p \in Page : Uses(p) = 1

Covers(id, v) == v \in s.area[id].virt..(s.area[id].virt + s.area[id].length - 1)

\* A page table maps exactly what the areas of its team say: each entry belongs
\* to one area and leads to that area's page, so none leads to a page that was
\* freed (area_destroy of a shared area, brk of a heap that is shared with the
\* team that spawned it).
TablesMatchAreas ==
    Ok(s) => \A t \in Team, v \in 0..(Span - 1) :
        LET at == {i \in DOMAIN s.team[t].areas : Covers(s.team[t].areas[i], v)}
        IN  IF s.team[t].ptab[v] = 0 THEN at = {}
            ELSE /\ Cardinality(at) = 1
                 /\ \A i \in at : LET a == s.area[s.team[t].areas[i]]
                                  IN  s.team[t].ptab[v] = s.group[a.group].pages[v - a.virt + 1]

\* A group is kept while an area shows it and counts exactly those.
GroupsCounted ==
    Ok(s) => \A g \in Group :
        s.group[g].refcount = Cardinality({i \in Id : s.type[i] = "area" /\ s.area[i].group = g})

\* An identifier is free once or names one thing, of the type rsrc_find asks
\* for; each area is on the list of its team and of no other.
IdsApart ==
    Ok(s) => /\ \A i \in Id : Cardinality({j \in DOMAIN s.rfree : s.rfree[j] = i})
                                = IF s.type[i] = "none" THEN 1 ELSE 0
             /\ \A i \in Id, t \in Team :
                    Contains(s.team[t].areas, i) <=> s.type[i] = "area" /\ s.area[i].team = t
             /\ \A t \in Team : s.team[t].live =>
                    /\ s.type[s.team[t].aspace] = "aspace" /\ s.type[s.team[t].team] = "team"
                    /\ s.type[s.team[t].task] = "task"

\* area_create, clone, destroy and brk keep the pages apart and the page tables
\* true; what is shared and what is named is counted once for each that has it
\* (page groups, rmap).
AreasKept == AreasTypeOK /\ PagesApart /\ TablesMatchAreas /\ GroupsCounted /\ IdsApart
=============================================================================
