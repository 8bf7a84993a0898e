-------------------------------- MODULE Kmem --------------------------------
(***************************************************************************)
(* The kernel's own memory: physical pages, the kernel's virtual pages and  *)
(* the pools kmalloc serves, which call each other: a page that is freed    *)
(* takes a block for its list node, and the last fresh block takes a page.  *)
(* src/openblt/kernel/memory.c                                              *)
(***************************************************************************)
EXTENDS Integers, FiniteSetsExt, SequencesExt

CONSTANTS
    KPages,    \* physical pages are 1 to KPages
    VTop,      \* virtual pages are given from VTop - 1 downwards
    VLow,      \* where the kernel's virtual space ends, 0x80050
    Pool,      \* KM16 to KM256
    Node,      \* the pool of node_t
    PerPage,   \* blocks of a pool in a page
    MaxHeld    \* bound of the model on what the rest of the kernel holds

KPage == 1..KPages
VPage == (VLow - 1)..(VTop - 1)

ASSUME KmemAssumption ==
    /\ KPages \in Nat /\ VTop \in Nat /\ VLow \in 1..VTop
    /\ Node \in Pool /\ DOMAIN PerPage = Pool /\ IsFiniteSet(Pool)
    /\ Cardinality(Pool) <= KPages /\ Cardinality(Pool) <= VTop - VLow
    /\ \A c \in Pool : PerPage[c] \in Nat \ {0, 1}

\* A block is its page and its place in it.
Block == [v : VPage, i : Nat]

\* free, freev: the lists freepage and freevpagelist (a virtual page and the
\* node it hangs on); high: the kernel's page table; nextmem; chain, fresh,
\* fresh_count: of each pool; pages, vpages, blocks: what was given out.
VARIABLE kmem

\* Each pool starts with one of the topmost pages.
KmemInit ==
    LET first == VTop - Cardinality(Pool)
        top == first..(VTop - 1)
    IN  \E page \in [Pool -> top] :
          /\ \A v \in top : \E c \in Pool : page[c] = v
          /\ \A c, d \in Pool : page[c] = page[d] => c = d
          /\ kmem =
               [ stop |-> "no",
                 free |-> [i \in 1..(KPages - Cardinality(Pool)) |-> i + Cardinality(Pool)],
                 high |-> [v \in VPage |-> IF v >= first THEN VTop - v ELSE 0],
                 freev |-> <<>>, nextmem |-> first,
                 chain |-> [c \in Pool |-> <<>>],
                 fresh |-> [c \in Pool |-> [v |-> page[c], i |-> 0]],
                 fresh_count |-> [c \in Pool |-> PerPage[c]],
                 pools |-> [c \in Pool |-> {page[c]}],
                 pages |-> {}, vpages |-> {}, blocks |-> [c \in Pool |-> {}] ]

-----------------------------------------------------------------------------
(* The functions: they return the state and what the C function returns.    *)

Ret(x, value) == [m |-> x, ret |-> value]
Running(r) == r.m.stop = "no"

Getpage(x) ==
    IF x.free = <<>> THEN Ret([x EXCEPT !.stop = "panic"], 0)
    ELSE Ret([x EXCEPT !.free = Tail(@)], Head(x.free))

Putpage(x, p) == [x EXCEPT !.free = <<p>> \o @]

KfreeP(x, c, b) == [x EXCEPT !.chain[c] = <<b>> \o @]

\* Slip: the node of the page that is used again is not freed.
KgetpageKeep(x) ==
    LET g == Getpage(x)
        n == Head(g.m.freev)
    IN  IF ~Running(g) \/ g.m.nextmem < VLow THEN Ret([g.m EXCEPT !.stop = "panic"], 0)
        ELSE IF g.m.freev = <<>>
        THEN Ret([g.m EXCEPT !.nextmem = @ - 1, !.high[g.m.nextmem - 1] = g.ret],
                 g.m.nextmem - 1)
        ELSE IF g.m.high[n.v] # 0 THEN Ret([g.m EXCEPT !.stop = "collision"], 0)
        ELSE Ret([g.m EXCEPT !.freev = Tail(@), !.high[n.v] = g.ret], n.v)

\* A virtual page that was freed is used first, and its node is freed.
Kgetpage(x) ==
    LET g == Getpage(x)
        n == Head(g.m.freev)
    IN  IF ~Running(g) \/ g.m.nextmem < VLow THEN Ret([g.m EXCEPT !.stop = "panic"], 0)
        ELSE IF g.m.freev = <<>>
        THEN Ret([g.m EXCEPT !.nextmem = @ - 1, !.high[g.m.nextmem - 1] = g.ret],
                 g.m.nextmem - 1)
        ELSE IF g.m.high[n.v] # 0 THEN Ret([g.m EXCEPT !.stop = "collision"], 0)
        ELSE Ret([KfreeP([g.m EXCEPT !.freev = Tail(@)], Node, n.node)
                     EXCEPT !.high[n.v] = g.ret], n.v)

\* Slip: the fresh page is filled to one block too many.
KmallocOver(x, c) ==
    LET b == x.fresh[c]
        y == [x EXCEPT !.fresh_count[c] = @ - 1]
        r == Kgetpage(y)
    IN  IF x.chain[c] # <<>> THEN Ret([x EXCEPT !.chain[c] = Tail(@)], Head(x.chain[c]))
        ELSE IF x.fresh_count[c] > 0 THEN Ret([y EXCEPT !.fresh[c].i = @ + 1], b)
        ELSE IF ~Running(r) THEN Ret(r.m, b)
        ELSE Ret([r.m EXCEPT !.fresh[c] = [v |-> r.ret, i |-> 0],
                             !.fresh_count[c] = PerPage[c], !.pools[c] = @ \cup {r.ret}], b)

\* A freed block, or a fresh one; with the last of a page comes the next page.
KmallocP(x, c) ==
    LET b == x.fresh[c]
        y == [x EXCEPT !.fresh_count[c] = @ - 1]
        r == Kgetpage(y)
    IN  IF x.chain[c] # <<>> THEN Ret([x EXCEPT !.chain[c] = Tail(@)], Head(x.chain[c]))
        ELSE IF x.fresh_count[c] > 1 THEN Ret([y EXCEPT !.fresh[c].i = @ + 1], b)
        ELSE IF ~Running(r) THEN Ret(r.m, b)
        ELSE Ret([r.m EXCEPT !.fresh[c] = [v |-> r.ret, i |-> 0],
                             !.fresh_count[c] = PerPage[c], !.pools[c] = @ \cup {r.ret}], b)

\* Slips: the node is allocated while the page is still mapped; the page is
\* put on the list before its node is there.
KfreepageMapped(x, v) ==
    LET r == KmallocP(Putpage(x, x.high[v]), Node)
    IN  [r.m EXCEPT !.freev = <<[v |-> v, node |-> r.ret]>> \o @]

KfreepageOld(x, v) ==
    LET r == KmallocP([Putpage(x, x.high[v]) EXCEPT !.high[v] = 0], Node)
    IN  [r.m EXCEPT !.freev = <<[v |-> v, node |-> r.ret]>> \o x.freev]

\* kfreepage: the node for the list may take a page in turn, even this one.
Kfreepage(x, v) ==
    LET r == KmallocP([Putpage(x, x.high[v]) EXCEPT !.high[v] = 0], Node)
    IN  IF x.high[v] = 0 THEN [x EXCEPT !.stop = "unmapped"]
        ELSE [r.m EXCEPT !.freev = <<[v |-> v, node |-> r.ret]>> \o @]

-----------------------------------------------------------------------------
(* The rest of the kernel takes what it needs and gives back what it has.   *)

TakePage ==
    /\ kmem.stop = "no" /\ Cardinality(kmem.pages) < MaxHeld
    /\ LET r == Getpage(kmem) IN kmem' = [r.m EXCEPT !.pages = @ \cup {r.ret}]

GivePage == kmem.stop = "no" /\ \E p \in kmem.pages : kmem' = [Putpage(kmem, p) EXCEPT !.pages = @ \ {p}]

TakeKpage ==
    /\ kmem.stop = "no" /\ Cardinality(kmem.vpages) < MaxHeld
    /\ LET r == Kgetpage(kmem) IN kmem' = [r.m EXCEPT !.vpages = @ \cup {r.ret}]

GiveKpage ==
    kmem.stop = "no" /\ \E v \in kmem.vpages : kmem' = [Kfreepage(kmem, v) EXCEPT !.vpages = @ \ {v}]

TakeBlock(c) ==
    /\ kmem.stop = "no" /\ Cardinality(kmem.blocks[c]) < MaxHeld
    /\ LET r == KmallocP(kmem, c) IN kmem' = [r.m EXCEPT !.blocks[c] = @ \cup {r.ret}]

GiveBlock(c) ==
    kmem.stop = "no" /\ \E b \in kmem.blocks[c] : kmem' = [KfreeP(kmem, c, b) EXCEPT !.blocks[c] = @ \ {b}]

KmemStopped == kmem.stop # "no" /\ UNCHANGED kmem

KmemNext ==
    \/ TakePage \/ GivePage \/ TakeKpage \/ GiveKpage
    \/ \E c \in Pool : TakeBlock(c) \/ GiveBlock(c)
    \/ KmemStopped

KmemSpec == KmemInit /\ [][KmemNext]_kmem

-----------------------------------------------------------------------------
(* Properties.                                                              *)

KmemRuns == kmem.stop = "no"

OnFreev(v) == {i \in DOMAIN kmem.freev : kmem.freev[i].v = v}
GivenPages == kmem.nextmem..(VTop - 1)
One(S) == S # {} /\ \A a, b \in S : a = b

KmemTypeOK ==
    /\ kmem.stop \in {"no", "panic", "collision", "unmapped"}
    /\ kmem.free \in Seq(KPage) /\ kmem.high \in [VPage -> 0..KPages]
    /\ KmemRuns => \A c \in Pool : /\ \A i \in DOMAIN kmem.chain[c] : kmem.chain[c][i].i < PerPage[c]
                                   /\ kmem.fresh_count[c] \in 1..PerPage[c]
                                   /\ kmem.fresh[c].i + kmem.fresh_count[c] = PerPage[c]

\* A physical page is free, behind one virtual page, or with whoever took it:
\* never two of them, though kfreepage frees the page and may take it again
\* for the node it then puts the virtual page on (memory.c, kfreepage).
FrameUses(p) ==
    {<<"free", i>> : i \in {i \in DOMAIN kmem.free : kmem.free[i] = p}}
    \cup {<<"mapped", v>> : v \in {v \in VPage : kmem.high[v] = p}}
    \cup {<<"taken", q>> : q \in kmem.pages \cap {p}}

FramesApart == KmemRuns => \A p \in KPage : One(FrameUses(p))

\* A virtual page below the top was given to somebody, to a pool, or is on the
\* free list, once; it is mapped unless it is on that list.
PageUses(v) ==
    {<<"freev", i>> : i \in OnFreev(v)}
    \cup {<<"pool", c>> : c \in {c \in Pool : v \in kmem.pools[c]}}
    \cup {<<"given", w>> : w \in kmem.vpages \cap {v}}

VirtualApart ==
    KmemRuns => \A v \in GivenPages :
        One(PageUses(v)) /\ (kmem.high[v] = 0 <=> OnFreev(v) # {})

\* What a block of pool c is in use for.
BlockUses(c, b) ==
    {<<"chain", i>> : i \in {i \in DOMAIN kmem.chain[c] : kmem.chain[c][i] = b}}
    \cup {<<"held", h>> : h \in kmem.blocks[c] \cap {b}}
    \cup {<<"node", i>> : i \in {i \in DOMAIN kmem.freev : c = Node /\ kmem.freev[i].node = b}}
    \cup {<<"fresh", f>> : f \in {f \in {kmem.fresh[c]} : b.v = f.v /\ b.i >= f.i}}

\* Each block of each page of a pool is free, fresh or with one holder, over
\* any order of the calls: none overlaps another, none is lost.
BlocksApart ==
    KmemRuns => \A c \in Pool : \A v \in kmem.pools[c], i \in 0..(PerPage[c] - 1) :
        One(BlockUses(c, [v |-> v, i |-> i]))

\* The two DEBUGGER()s of kfreepage and kgetpage, "unmapped already?!" and
\* "page collision", are never reached.
NoDebugger == kmem.stop \notin {"collision", "unmapped"}

\* kgetpage, kfreepage, kmalloc and kfree, which call each other in the middle of
\* their work, give each page and block to one holder.
PoolsKept == KmemTypeOK /\ FramesApart /\ VirtualApart /\ BlocksApart /\ NoDebugger
=============================================================================
