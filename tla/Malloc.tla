------------------------------- MODULE Malloc -------------------------------
(***************************************************************************)
(* malloc, free, realloc and memalign of src/openblt/lib/libc/malloc.c over *)
(* the sbrk of memory.c, under sem_malloc, so one call at a time.  Sizes and *)
(* addresses are those of the code, in bytes.  A chunk is known by its       *)
(* address; the header of one that was merged into another is forgotten.    *)
(***************************************************************************)
EXTENDS Integers, FiniteSetsExt, SequencesExt, Functions, TLC

CONSTANTS
    Tob,         \* the break at the start, a multiple of Pagesz
    Pagesz,      \* malloc_getpagesize
    Threshold,   \* trim_threshold
    Requests,    \* the sizes programs ask for
    Alignments,  \* and the alignments of memalign
    MaxMallocs   \* bound of the model on the calls

MINSIZE == 16
SIZE_SZ == 4

ASSUME MallocAssumption ==
    /\ Pagesz \in Nat \ {0} /\ Pagesz % 8 = 0 /\ Tob % Pagesz = 0 /\ Tob > 0
    /\ Threshold \in Nat /\ Requests \subseteq Nat /\ Alignments \subseteq Nat

\* h.head: of each chunk its size, whether the one before it is in use, and
\* prev_size, which is that one's user data if it is; h.bins: from first to
\* last; h.rest: last_remainder; h.binblocks: the blocks marked; h.top: 0 at
\* first; h.cur, h.max: of sbrk; h.sbrked: sbrked_mem; h.base: sbrk_base.
\* held: the blocks the program has, what it asked for and what malloc was.
VARIABLES h, held, mallocs

mallocVars == <<h, held, mallocs>>

Junk == -1
Null == 0

\* Slip: the word a chunk keeps to itself is forgotten.
request2sizeTight(req) ==
    IF req < MINSIZE THEN MINSIZE ELSE ((req + 7) \div 8) * 8

request2size(req) ==
    IF req + SIZE_SZ + 7 < MINSIZE + 7 THEN MINSIZE ELSE ((req + SIZE_SZ + 7) \div 8) * 8

bin_index(sz) ==
    LET k == sz \div 512
    IN  IF k = 0 THEN sz \div 8 ELSE IF k <= 4 THEN 56 + sz \div 64
        ELSE IF k <= 20 THEN 91 + sz \div 512 ELSE IF k <= 84 THEN 110 + sz \div 4096
        ELSE IF k <= 340 THEN 119 + sz \div 32768 ELSE IF k <= 1364 THEN 124 + sz \div 262144
        ELSE 126

is_small_request(nb) == nb < 504
BlockOf(idx) == idx \div 4

Size(x, p) == x.head[p].size
Next_chunk(x, p) == p + Size(x, p)
Inuse(x, p) == x.head[Next_chunk(x, p)].pinuse
TopSize(x) == IF x.top = Null THEN 0 ELSE Size(x, x.top)

\* set_head: the chunk covers what it covers, and no other begins in there.
SetHead(x, p, size, pinuse) ==
    LET foot == IF p \in DOMAIN x.head THEN x.head[p].foot ELSE Junk
        rest == {a \in DOMAIN x.head : a <= p \/ a >= p + size}
    IN  [x EXCEPT !.head = (p :> [size |-> size, pinuse |-> pinuse, foot |-> foot])
                               @@ Restrict(@, rest)]

SetSize(x, p, size) == SetHead(x, p, size, x.head[p].pinuse)
SetInuse(x, p, used) == [x EXCEPT !.head[Next_chunk(x, p)].pinuse = used]

-----------------------------------------------------------------------------
(* Lists of free chunks.                                                    *)

\* Slip: a bin that was empty is not marked.
FrontlinkUnmarked(x, p) ==
    LET idx == bin_index(Size(x, p))
        bigger == SelectSeq(x.bins[idx], LAMBDA q : Size(x, p) < Size(x, q))
    IN  [x EXCEPT !.bins[idx] = bigger \o <<p>> \o SubSeq(@, Len(bigger) + 1, Len(@)),
                  !.binblocks = IF x.bins[idx] = <<>> THEN @ ELSE @ \cup {BlockOf(idx)}]

\* frontlink: by size, the largest first, ahead of those of the same size.
Frontlink(x, p) ==
    LET idx == bin_index(Size(x, p))
        bigger == SelectSeq(x.bins[idx], LAMBDA q : Size(x, p) < Size(x, q))
    IN  [x EXCEPT !.bins[idx] = bigger \o <<p>> \o SubSeq(@, Len(bigger) + 1, Len(@)),
                  !.binblocks = @ \cup {BlockOf(idx)}]

\* Slip: last_remainder keeps what it had.
UnlinkBin(x, p) ==
    [x EXCEPT !.bins[bin_index(Size(x, p))] = SelectSeq(@, LAMBDA q : q # p)]

Unlink(x, p) ==
    IF p \in Range(x.rest) THEN [x EXCEPT !.rest = <<>>]
    ELSE [x EXCEPT !.bins[bin_index(Size(x, p))] = SelectSeq(@, LAMBDA q : q # p)]

-----------------------------------------------------------------------------
(* sbrk, malloc_trim and free.                                              *)

\* sbrk as it is: a negative size is subtracted, so it moves the break up, and
\* the break it had is returned; os_brk's failures are not looked at.
Sbrk(x, size) ==
    LET cur == IF size < 0 THEN x.cur - size ELSE x.cur + size
    IN  [x EXCEPT !.cur = cur, !.max = IF size < 0 THEN @ ELSE Max({@, cur})]

TrimBy(x, extra) ==
    [SetHead(Sbrk(x, -extra), x.top, TopSize(x) - extra, TRUE) EXCEPT !.sbrked = @ - extra]

Trim(x) ==
    LET extra == ((TopSize(x) - MINSIZE + Pagesz - 1) \div Pagesz - 1) * Pagesz
    IN  IF extra < Pagesz \/ x.cur # x.top + TopSize(x) THEN x ELSE TrimBy(x, extra)

\* A chunk joins the top.
IntoTop(x, at) == [SetHead(x, at, x.top + TopSize(x) - at, TRUE) EXCEPT !.top = at]
TrimLarge(x) == IF TopSize(x) >= Threshold THEN Trim(x) ELSE x

\* x, without neighbours that were free: the chunk from `at' to `end' is free,
\* last_remainder if `islr', and in its bin if not.
Freed(x, at, end, islr) ==
    LET y == [SetHead(x, at, end - at, TRUE) EXCEPT !.head[end].pinuse = FALSE, !.head[end].foot = end - at]
    IN  IF islr THEN [y EXCEPT !.rest = <<at>>] ELSE Frontlink(y, at)

Behind(x, p) == IF x.head[p].pinuse THEN p ELSE p - x.head[p].foot
WithoutBack(x, p) == IF x.head[p].pinuse THEN x ELSE Unlink(x, Behind(x, p))
WithoutNext(x, next) == IF Inuse(x, next) THEN x ELSE Unlink(x, next)

\* Slip: the chunk that follows is not looked at.
FreeBack(x, p) ==
    Freed(WithoutBack(x, p), Behind(x, p), Next_chunk(x, p), x.rest # WithoutBack(x, p).rest)

\* free: a chunk at the top joins it; another joins its free neighbours and
\* goes to its bin, or stays last_remainder if one of them was that.
Free(x, p) ==
    LET next == Next_chunk(x, p)
        end == IF Inuse(x, next) THEN next ELSE Next_chunk(x, next)
        z == WithoutNext(WithoutBack(x, p), next)
    IN  IF next = x.top THEN TrimLarge(IntoTop(WithoutBack(x, p), Behind(x, p)))
        ELSE Freed(z, Behind(x, p), end, z.rest # x.rest)

-----------------------------------------------------------------------------
(* malloc.                                                                  *)

\* The old top, behind which somebody else's memory begins, ends in two fences.
Fenced(x, t) ==
    LET size == ((Size(x, t) - 3 * SIZE_SZ) \div 8) * 8
        y == IF size = 0 THEN x ELSE SetSize(x, t, size)
        z == SetHead(SetHead(y, t + size, SIZE_SZ, TRUE), t + size + SIZE_SZ, SIZE_SZ, TRUE)
    IN  IF size >= MINSIZE THEN Free(z, t) ELSE z

\* malloc_extend_top: at the first call, or when somebody else moved the break,
\* the top begins anew at the old break.
NewTop(x, y, size) ==
    IF x.base = Null THEN SetHead(y, y.top, size, TRUE)
    ELSE IF TopSize(x) < MINSIZE THEN SetHead(y, y.top, 0, TRUE)
    ELSE Fenced(SetHead(y, y.top, size, TRUE), x.top)

ExtendTop(x, nb) ==
    LET first == x.base = Null
        need == nb + MINSIZE
        size == IF first THEN need ELSE ((need + Pagesz - 1) \div Pagesz) * Pagesz
        end == x.top + TopSize(x)
        correction == Pagesz - ((x.cur + size) % Pagesz)
    IN  IF x.cur < end /\ ~first THEN Sbrk(x, size)
        ELSE IF x.cur = end
        THEN SetHead([Sbrk(x, size) EXCEPT !.sbrked = @ + size], x.top, size + TopSize(x), TRUE)
        ELSE NewTop(x, [Sbrk(Sbrk(x, size), correction) EXCEPT
                           !.sbrked = @ + size + correction + (IF first THEN 0 ELSE x.cur - end),
                           !.base = IF first THEN x.cur ELSE @, !.top = x.cur], size + correction)

Got(x, p) == [h |-> x, p |-> p]

\* A chunk from its list, whole if the rest would be less than MINSIZE; else
\* the rest is last_remainder.
Take(x, p) == Got(SetInuse(Unlink(x, p), p, TRUE), p)

Cut(x, p, nb) ==
    LET r == p + nb
        size == Size(x, p) - nb
        y == SetHead(SetHead(Unlink(x, p), p, nb, TRUE), r, size, TRUE)
    IN  Got([y EXCEPT !.rest = <<r>>, !.head[r + size].foot = size], p)

TakeOrCut(x, p, nb) == IF Size(x, p) - nb >= MINSIZE THEN Cut(x, p, nb) ELSE Take(x, p)

CutTop(x, nb) ==
    LET size == TopSize(x) - nb
        y == [SetHead(x, x.top, nb, TRUE) EXCEPT !.top = @ + nb]
    IN  IF size < MINSIZE THEN Got(x, Null) ELSE Got(SetHead(y, x.top + nb, size, TRUE), x.top)

FromTop(x, nb) == CutTop(IF TopSize(x) - nb < MINSIZE THEN ExtendTop(x, nb) ELSE x, nb)

Empties(x, bins) == \A i \in bins \cap DOMAIN x.bins : x.bins[i] = <<>>

\* Slip: a block is cleared though bins before the first that was searched are
\* not empty.
SearchBinsHasty(x, idx, nb) ==
    LET full == {i \in DOMAIN x.bins : i >= idx /\ BlockOf(i) \in x.binblocks /\ x.bins[i] # <<>>}
        idle == {b \in x.binblocks : b >= BlockOf(idx) /\ \A i \in full : b < BlockOf(i)}
        y == [x EXCEPT !.binblocks = @ \ idle]
        bin == x.bins[Min(full)]
    IN  IF full = {} THEN FromTop(y, nb)
        ELSE TakeOrCut(y, bin[Max({i \in DOMAIN bin : Size(x, bin[i]) >= nb})], nb)

\* The marked blocks from that of idx upwards: the smallest chunk of the first
\* bin that has any, as all of them are large enough; blocks found empty on the
\* way are cleared, the first one only if its bins before idx are empty too.
SearchBins(x, idx, nb) ==
    LET full == {i \in DOMAIN x.bins : i >= idx /\ BlockOf(i) \in x.binblocks /\ x.bins[i] # <<>>}
        idle == {b \in x.binblocks : /\ b >= BlockOf(idx) /\ \A i \in full : b < BlockOf(i)
                                     /\ Empties(x, (4 * b)..(4 * b + 3))}
        y == [x EXCEPT !.binblocks = @ \ idle]
        bin == x.bins[Min(full)]
    IN  IF full = {} THEN FromTop(y, nb)
        ELSE TakeOrCut(y, bin[Max({i \in DOMAIN bin : Size(x, bin[i]) >= nb})], nb)

\* last_remainder is cut or taken if it is large enough, else it goes to its bin.
FromRest(x, idx, nb) ==
    IF x.rest # <<>> /\ Size(x, x.rest[1]) >= nb THEN TakeOrCut(x, x.rest[1], nb)
    ELSE SearchBins(IF x.rest = <<>> THEN x ELSE Frontlink([x EXCEPT !.rest = <<>>], x.rest[1]), idx, nb)

\* malloc: a chunk that fits exactly, or nearly, comes first.
Alloc(x, bytes) ==
    LET nb == request2size(bytes)
        idx == bin_index(nb)
        near == {i \in {idx, idx + 1} : x.bins[i] # <<>>}
        bin == x.bins[idx]
        large == {i \in DOMAIN bin : Size(x, bin[i]) >= nb}
        small == is_small_request(nb)
    IN  IF small /\ near # {} THEN Take(x, Last(x.bins[Min(near)]))
        ELSE IF ~small /\ large # {} /\ Size(x, bin[Max(large)]) - nb < MINSIZE
        THEN Take(x, bin[Max(large)])
        ELSE FromRest(x, IF small THEN idx + 2 ELSE IF large = {} THEN idx + 1 ELSE idx, nb)

-----------------------------------------------------------------------------
(* realloc and memalign.                                                    *)

\* Slip: the chunk after the one that grew is not told.
SplitQuiet(x, p, newsize, nb) ==
    LET r == p + nb
    IN  IF newsize - nb < MINSIZE THEN Got(SetSize(x, p, newsize), p)
        ELSE Got(Free(SetInuse(SetHead(SetSize(x, p, nb), r, newsize - nb, TRUE), r, TRUE), r), p)

\* split: what is not needed is freed.
Split(x, p, newsize, nb) ==
    LET r == p + nb
    IN  IF newsize - nb < MINSIZE THEN Got(SetInuse(SetSize(x, p, newsize), p, TRUE), p)
        ELSE Got(Free(SetInuse(SetHead(SetSize(x, p, nb), r, newsize - nb, TRUE), r, TRUE), r), p)

ShrinkTop(x, p, newsize, nb) ==
    Got(SetHead([SetSize(x, p, nb) EXCEPT !.top = p + nb], p + nb, newsize - nb, TRUE), p)

\* From `at' up to the end of the chunk that follows p: the top, or a free one.
Grown(x, p, at, size, nb) ==
    IF Next_chunk(x, p) = x.top THEN ShrinkTop(x, at, size, nb)
    ELSE Split(Unlink(x, Next_chunk(x, p)), at, size, nb)

\* Where malloc found new room: right behind the chunk, or somewhere else.
Moved(m, p, next, old, nb) ==
    IF m.p = Null THEN m
    ELSE IF m.p = next THEN Split(m.h, p, old + Size(m.h, next), nb)
    ELSE Got(Free(m.h, p), m.p)

Realloc(x, p, bytes) ==
    LET nb == request2size(bytes)
        old == Size(x, p)
        next == Next_chunk(x, p)
        istop == next = x.top
        fwd == IF istop \/ ~Inuse(x, next) THEN Size(x, next) ELSE 0
        back == p - Behind(x, p)
        room == nb + (IF istop THEN MINSIZE ELSE 0)
    IN  IF old >= nb THEN Split(x, p, old, nb)
        ELSE IF fwd > 0 /\ old + fwd >= room THEN Grown(x, p, p, old + fwd, nb)
        ELSE IF back > 0 /\ fwd > 0 /\ back + old + fwd >= room
        THEN Grown(WithoutBack(x, p), p, Behind(x, p), back + old + fwd, nb)
        ELSE IF back > 0 /\ back + old >= nb
        THEN Split(WithoutBack(x, p), Behind(x, p), back + old, nb)
        ELSE Moved(Alloc(x, bytes), p, next, old, nb)

\* memalign: malloc with room to find the alignment in; what lies before the
\* aligned place and behind the block is freed.
Aligned(p, al) ==
    LET spot == ((p + 8 + al - 1) \div al) * al - 8
    IN  IF (p + 8) % al = 0 THEN p ELSE IF spot - p < MINSIZE THEN spot + al ELSE spot

CutFront(x, p, q) ==
    IF q = p THEN x
    ELSE Free(SetInuse(SetHead(SetSize(x, p, q - p), q, p + Size(x, p) - q, TRUE), q, TRUE), p)

CutBack(x, q, nb) ==
    IF Size(x, q) - nb < MINSIZE THEN Got(x, q)
    ELSE Got(Free(SetHead(SetSize(x, q, nb), q + nb, Size(x, q) - nb, TRUE), q + nb), q)

AlignIn(m, al, nb) ==
    IF m.p = Null THEN m ELSE CutBack(CutFront(m.h, m.p, Aligned(m.p, al)), Aligned(m.p, al), nb)

Memalign(x, alignment, bytes) ==
    LET al == Max({alignment, MINSIZE})
    IN  IF alignment <= 8 THEN Alloc(x, bytes)
        ELSE AlignIn(Alloc(x, request2size(bytes) + al + MINSIZE), al, request2size(bytes))

-----------------------------------------------------------------------------
MallocInit ==
    /\ h = [ head |-> <<>>, bins |-> [i \in 2..127 |-> <<>>], rest |-> <<>>, binblocks |-> {},
             top |-> Null, cur |-> Tob, max |-> Tob, sbrked |-> 0, base |-> Null ]
    /\ held = <<>>
    /\ mallocs = 0

\* The program has block p now, instead of `old'; its data reaches into the
\* prev_size of the chunk behind it.
Hands(r, old, bytes, need) ==
    /\ mallocs < MaxMallocs /\ mallocs' = mallocs + 1
    /\ IF r.p = Null THEN h' = r.h /\ UNCHANGED held
       ELSE /\ h' = [r.h EXCEPT !.head[Next_chunk(r.h, r.p)].foot = Junk]
            /\ held' = (r.p :> [bytes |-> bytes, need |-> need])
                           @@ Restrict(held, DOMAIN held \ {old})

\* calloc too: but for the zeroes it stores it is malloc.
MallocCall == \E b \in Requests : Hands(Alloc(h, b), Null, b, request2size(b))

ReallocCall ==
    \E p \in DOMAIN held, b \in Requests : Hands(Realloc(h, p, b), p, b, request2size(b))

\* valloc and pvalloc ask for the alignment of a page.
MemalignCall ==
    \E a \in Alignments, b \in Requests :
        Hands(Memalign(h, a, b), Null, b, request2size(request2size(b) + Max({a, MINSIZE}) + MINSIZE))

FreeCall ==
    /\ mallocs < MaxMallocs /\ mallocs' = mallocs + 1
    /\ \E p \in DOMAIN held : h' = Free(h, p) /\ held' = Restrict(held, DOMAIN held \ {p})

MallocNext == MallocCall \/ ReallocCall \/ MemalignCall \/ FreeCall

MallocSpec == MallocInit /\ [][MallocNext]_mallocVars

-----------------------------------------------------------------------------
(* Properties: the checks of do_check_chunk and its kin, which the build does *)
(* without, and what they leave to be shown.                                *)

IsFence(p) == Size(h, p) = SIZE_SZ
Chunks == {p \in DOMAIN h.head : p # h.top /\ ~(p - SIZE_SZ \in DOMAIN h.head /\ IsFence(p - SIZE_SZ))}
FreeChunks == {p \in Chunks : ~Inuse(h, p)}
Listed == UNION {{i} \X DOMAIN h.bins[i] : i \in {b \in DOMAIN h.bins : h.bins[b] # <<>>}}

MallocTypeOK ==
    /\ h.binblocks \subseteq 0..31 /\ h.rest \in Seq(DOMAIN h.head)
    /\ \A i \in DOMAIN h.bins : h.bins[i] \in Seq(DOMAIN h.head)
    /\ h.top = Null \/ h.top \in DOMAIN h.head
    /\ h.sbrked \in Nat /\ h.cur >= Tob

\* The chunks lie one behind the other up to the top, which ends where the
\* memory sbrk gave ends; what a chunk says of the one before it is so, and
\* free finds its way back to a free one (do_check_chunk, do_check_free_chunk).
ChunksTile ==
    h.top # Null =>
        /\ \A p \in Chunks : Next_chunk(h, p) \in DOMAIN h.head
                             /\ \A q \in DOMAIN h.head : q > p => q >= Next_chunk(h, p)
        /\ TopSize(h) >= MINSIZE /\ h.top + TopSize(h) = h.base + h.sbrked
        /\ \A p \in FreeChunks : h.head[Next_chunk(h, p)].foot = Size(h, p)
        /\ \A p \in DOMAIN held : p \in Chunks \ FreeChunks

\* A block has room for what was asked for and is aligned; with ChunksTile no
\* two overlap, wherever realloc moved or memalign cut them.
BlocksFit ==
    \A p \in DOMAIN held : p \in DOMAIN h.head
        => p % 8 = 0 /\ Size(h, p) - SIZE_SZ >= held[p].bytes /\ Size(h, p) >= MINSIZE

\* Free memory is merged: no two free chunks are neighbours and none borders
\* the top ("... and is fully consolidated").
Consolidated ==
    \A p \in FreeChunks : h.head[p].pinuse /\ Next_chunk(h, p) \notin FreeChunks \cup {h.top}

\* A free chunk is on one list once, its bin's or last_remainder, and can be
\* found there: bins are sorted, and the block of one that is not empty is marked.
FreeListed ==
    /\ \A p \in FreeChunks : Cardinality({l \in Listed : h.bins[l[1]][l[2]] = p})
                               + (IF p \in Range(h.rest) THEN 1 ELSE 0) = 1
    /\ Range(h.rest) \subseteq FreeChunks
    /\ \A l \in Listed :
          LET p == h.bins[l[1]][l[2]]
          IN  /\ p \in FreeChunks /\ bin_index(Size(h, p)) = l[1] /\ BlockOf(l[1]) \in h.binblocks
              /\ l[2] > 1 => Size(h, h.bins[l[1]][l[2] - 1]) >= Size(h, p)

\* Memory is taken from the top only if no free chunk is large enough, however
\* stale the marks of blocks are.
TopComesLast ==
    [][\A p \in DOMAIN held' \ DOMAIN held :
          p >= h.top => \A q \in FreeChunks : Size(h, q) < held'[p].need]_mallocVars

\* malloc, realloc, memalign, free and malloc_trim leave a heap of chunks that lie
\* side by side, each as large as its holder was told; what was freed is merged,
\* listed, and found again before new memory is taken (frontlink, the search of the
\* bins, consolidation).
HeapKept == [](MallocTypeOK /\ ChunksTile /\ BlocksFit /\ Consolidated /\ FreeListed) /\ TopComesLast
=============================================================================
