------------------------------- MODULE Region -------------------------------
(***************************************************************************)
(* Regions of the window server, srv/window/Region.cpp: lists of rectangles   *)
(* that do not overlap, against the sets of points they stand for.  Edges     *)
(* belong to a rectangle.                                                     *)
(***************************************************************************)
EXTENDS Integers, Sequences, FiniteSets, SequencesExt

CONSTANTS
    Edge,         \* pairs of a first and last coordinate that rectangles have
    EdgeThin,     \* the same where rectangles may be a point wide
    CoordMax,     \* COORD_MAX
    RectAlloc,    \* kRectAllocSize: the array of a region has room for a multiple of it
    MaxOps        \* bound: operations on a region

VARIABLES
    rects,        \* fRects
    want,         \* the points that the operations together ask for
    thin,         \* whether coordinates are from EdgeThin
    dangling,     \* Exclude read a rectangle in an array that had been given back
    ops           \* operations so far

regionVars == <<rects, want, thin, dangling, ops>>

Lower(a, b) == IF a < b THEN a ELSE b
Upper(a, b) == IF a < b THEN b ELSE a
Box(l, t, r, b) == [left |-> l, top |-> t, right |-> r, bottom |-> b]
BoxesOf(edges) == {Box(h[1], v[1], h[2], v[2]) : h \in edges, v \in edges}
Everything == Box(-CoordMax, -CoordMax, CoordMax, CoordMax)

Valid(q) == q.right >= q.left /\ q.bottom >= q.top
Meet(p, q) == Box(Upper(p.left, q.left), Upper(p.top, q.top),
                  Lower(p.right, q.right), Lower(p.bottom, q.bottom))
Intersects(p, q) == Valid(Meet(p, q))
\* Unlike Intersects, not of pieces that are one point wide or high.
SplitTest(p, q) == LET m == Meet(p, q) IN m.left < m.right /\ m.top < m.bottom

\* The pieces of c, of which `which' says the columns and rows to take.
PiecesOf(c, columns, rows, which) ==
    LET Quad(i) == Box(columns[(i % 3) + 1][1], rows[(i \div 3) + 1][1],
                       columns[(i % 3) + 1][2], rows[(i \div 3) + 1][2])
        parts   == SelectSeq(which, LAMBDA i : SplitTest(c, Quad(i)))
    IN  [i \in DOMAIN parts |-> Meet(Quad(parts[i]), c)]

Columns(c, e) == <<<<c.left, e.left - 1>>, <<e.left, e.right>>, <<e.right + 1, c.right>>>>
Rows(c, e) == <<<<c.top, e.top - 1>>, <<e.top, e.bottom>>, <<e.bottom + 1, c.bottom>>>>

\* Slip: the rows begin with the rectangle that is excluded.
PiecesEarly(c, e) ==
    PiecesOf(c, Columns(c, e), [Rows(c, e) EXCEPT ![3] = <<e.bottom, c.bottom>>],
             <<0, 1, 2, 3, 5, 6, 7, 8>>)

\* Slip: the last piece is forgotten.
PiecesSeven(c, e) == PiecesOf(c, Columns(c, e), Rows(c, e), <<0, 1, 2, 3, 5, 6, 7>>)

\* What Exclude leaves of the rectangle c: up to eight pieces around e.
Pieces(c, e) == PiecesOf(c, Columns(c, e), Rows(c, e), <<0, 1, 2, 3, 5, 6, 7, 8>>)

\* Consolidate: the rectangle at j goes into the one at i, if their edges touch.
Joined(p, q) ==
    IF p.top = q.top /\ p.bottom = q.bottom
    THEN IF p.right + 1 = q.left THEN [p EXCEPT !.right = q.right]
         ELSE IF q.right + 1 = p.left THEN [p EXCEPT !.left = q.left] ELSE p
    ELSE IF p.left = q.left /\ p.right = q.right
    THEN IF p.top = q.bottom + 1 THEN [p EXCEPT !.top = q.top]
         ELSE IF p.bottom + 1 = q.top THEN [p EXCEPT !.bottom = q.bottom] ELSE p
    ELSE p

RECURSIVE Consolidate(_, _, _)
Consolidate(rs, i, j) ==
    IF i > Len(rs) THEN rs
    ELSE IF j <= i THEN Consolidate(rs, i + 1, Len(rs))
    ELSE IF Joined(rs[i], rs[j]) # rs[i]
    THEN Consolidate(RemoveAt([rs EXCEPT ![i] = Joined(rs[i], rs[j])], j), i, j - 1)
    ELSE Consolidate(rs, i, j - 1)

EndOperation(rs) == Consolidate(rs, 1, Len(rs))

\* Exclude(Rect) before it is consolidated: what was cut goes behind the others.
Hit(rs, e) == SelectSeq(rs, LAMBDA q : Intersects(e, q))
AllPieces(hit, e) == FlattenSeq([i \in DOMAIN hit |-> Pieces(hit[i], e)])
Carved(rs, e) == SelectSeq(rs, LAMBDA q : ~Intersects(e, q)) \o AllPieces(Hit(rs, e), e)

\* The rectangle that Exclude splits is a reference into the array that AddRect lets
\* grow: with a piece for which the array is full it goes elsewhere, and for each of
\* the pieces after it, up to the eighth, the rectangle is read where it was.
IsEighth(piece, e) == piece.left > e.right /\ piece.top > e.bottom
ReadsMoved(rs, e) ==
    LET hit == Hit(rs, e)
        Before(i) == Len(rs) + Len(AllPieces(SubSeq(hit, 1, i - 1), e)) - (i - 1)
    IN  \E i \in DOMAIN hit : \E p \in DOMAIN Pieces(hit[i], e) :
            /\ (Before(i) + p - 1) % RectAlloc = 0
            /\ ~IsEighth(Pieces(hit[i], e)[p], e)

ExcludeRect(rs, e) == EndOperation(Carved(rs, e))

\* Slip: only the first rectangle that is there is taken out of the new one.
IncludeRectOver(rs, q) ==
    EndOperation(rs \o IF rs = <<>> THEN <<q>> ELSE ExcludeRect(<<q>>, rs[1]))

\* Include(Rect): of the new rectangle what is not there yet.
IncludeRect(rs, q) ==
    EndOperation(rs \o FoldLeft(LAMBDA temp, r : ExcludeRect(temp, r), <<q>>, rs))

\* The same of the regions that Include and Invert make of one rectangle.
ReadsMovedFrom(q, rs) ==
    \E i \in DOMAIN rs :
        ReadsMoved(FoldLeft(LAMBDA temp, r : ExcludeRect(temp, r), <<q>>, SubSeq(rs, 1, i - 1)), rs[i])

ConstrainTo(rs, q) ==
    EndOperation(SelectSeq([i \in DOMAIN rs |-> Meet(rs[i], q)], Valid))

IntersectRegion(rs, others) ==
    EndOperation(FlattenSeq([i \in DOMAIN rs |->
        [k \in DOMAIN SelectSeq(others, LAMBDA o : Intersects(rs[i], o)) |->
            Meet(rs[i], SelectSeq(others, LAMBDA o : Intersects(rs[i], o))[k])]]))

Invert(rs) ==
    EndOperation(FoldLeft(LAMBDA temp, r : ExcludeRect(temp, r), <<Everything>>, rs))

ExcludeRegion(rs, others) == IntersectRegion(rs, Invert(others))

-----------------------------------------------------------------------------
PointsOf(q) == (q.left..q.right) \X (q.top..q.bottom)
Points(rs) == UNION {PointsOf(rs[i]) : i \in DOMAIN rs}

RegionInit == rects = <<>> /\ want = {} /\ thin \in BOOLEAN /\ dangling = FALSE /\ ops = 0

\* The array may also have stayed where it was.  If not, whatever was written there
\* since is taken for the rectangle, and nothing more is said of the region.
RegionIs(rs, points, moved) ==
    \/ rects' = rs /\ want' = points /\ UNCHANGED dangling
    \/ moved /\ dangling' = TRUE /\ UNCHANGED <<rects, want>>

RegionNext ==
    /\ ~dangling /\ ops < MaxOps /\ ops' = ops + 1 /\ UNCHANGED thin
    /\ \E q \in BoxesOf(IF thin THEN EdgeThin ELSE Edge) :
         \/ RegionIs(IncludeRect(rects, q), want \cup PointsOf(q), ReadsMovedFrom(q, rects))
         \/ RegionIs(ExcludeRect(rects, q), want \ PointsOf(q), ReadsMoved(rects, q))
         \/ RegionIs(ConstrainTo(rects, q), want \cap PointsOf(q), FALSE)
         \/ RegionIs(ExcludeRegion(rects, <<q>>), want \ PointsOf(q), ReadsMovedFrom(Everything, <<q>>))

RegionSpec == RegionInit /\ [][RegionNext]_regionVars
-----------------------------------------------------------------------------
\* No two rectangles of a region overlap: Exclude, and every drawing operation,
\* takes the rectangles one by one.
RectsApart ==
    /\ \A i \in DOMAIN rects : Valid(rects[i])
    /\ \A i, j \in DOMAIN rects : i # j => ~Intersects(rects[i], rects[j])

\* A region never has a point that it should not have: a window never draws over
\* another one.
NothingExtra == Points(rects) \subseteq want

\* And it has all of them, if no piece is ever a point wide or high: those that
\* are get lost when a rectangle is split.
AllWhenThick == ~thin => want \subseteq Points(rects)

\* IncludeRect and Exclude on a list of rectangles: as sets of points they are union
\* and difference, as long as no array moved in the middle of a split.
RegionExact == ~dangling => RectsApart /\ NothingExtra /\ AllWhenThick
=============================================================================
