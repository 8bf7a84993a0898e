------------------------------ MODULE Drawing ------------------------------
(***************************************************************************)
(* Drawing on the screen, srv/window/GraphicsContext.cpp, Renderer_8bpp.cpp   *)
(* and Renderer_vga.cpp, by the dispatch thread of WindowManager.cpp, while   *)
(* its mouse thread moves the cursor that lies in the same frame buffer.      *)
(***************************************************************************)
EXTENDS Region

CONSTANTS
    ScreenW, ScreenH,   \* BufferWidth, BufferBytesPerRow, and BufferHeight
    CursorSize,         \* 16
    CursorBits,         \* the points of the cursor that are not transparent
    Pens,               \* colours that clients draw with, CLEAR may be one of them
    GlyphW, GlyphH, Glyph,    \* an image of the font, 5 by 8: point to colour
    Clips,              \* regions that a window may draw on
    Fills, Segments,    \* rectangles and lines that clients ask for, as on the screen
    Copies,             \* from where, and by how much
    MouseMoves,         \* what a packet of the mouse adds
    MaxRequests, MaxPackets   \* bounds: requests, packets of the mouse

Place == 0..ScreenW * ScreenH - 1     \* a byte of the frame buffer
Spot == (0..CursorSize - 1) \X (0..CursorSize - 1)
CLEAR == 255                          \* the transparent colour, 0xff
ARROW == 63                           \* what the cursor is drawn in
BACKGROUND == 0

VARIABLES
    screen,       \* the frame buffer
    saved,        \* fSavedBackground
    cursor,       \* fCursorX, fCursorY
    draw,         \* the dispatch thread: its calls of the renderer to come, whether
                  \* they are made with the lock, and whether the cursor was erased
    mouse,        \* the mouse thread: fXPos, fYPos and what it does
    cursorLock,   \* who has fCursorLock
    asked,         \* what the requests together ask for, without the cursor
    torn,         \* something was drawn that cannot come out right
    requests, packets   \* so far

drawingVars == <<screen, saved, cursor, draw, mouse, cursorLock, asked, torn, requests, packets>>

At(p) == p[1] + p[2] * ScreenW
\* SetClipRegion.
DrawRegions == {ConstrainTo(c, Box(0, 0, ScreenW - 1, ScreenH - 1)) : c \in Clips}
PlacesOf(points) == {At(p) : p \in points}
Painted(scr, places, color) == [a \in DOMAIN scr |-> IF a \in places THEN color ELSE scr[a]]

-----------------------------------------------------------------------------
\* Lines.

\* A quotient of C, towards zero.
Quot(a, b) == LET q == (IF a < 0 THEN -a ELSE a) \div (IF b < 0 THEN -b ELSE b)
              IN  IF (a < 0) = (b < 0) THEN q ELSE -q

\* clipmask.
Beyond(p, q) ==
    {side \in {"left", "right", "top", "bottom"} :
        CASE side = "left" -> p[1] < q.left [] side = "right" -> p[1] > q.right
          [] side = "top" -> p[2] < q.top [] side = "bottom" -> p[2] > q.bottom}

\* Where the line meets the edge that one of its ends is beyond.
CutAt(a, b, q, sides) ==
    LET AtRow(y) == <<a[1] + Quot((b[1] - a[1]) * (y - a[2]), b[2] - a[2]), y>>
        AtColumn(x) == <<x, a[2] + Quot((b[2] - a[2]) * (x - a[1]), b[1] - a[1])>>
    IN  CASE "bottom" \in sides -> AtRow(q.bottom) [] "top" \in sides -> AtRow(q.top)
          [] "right" \in sides -> AtColumn(q.right) [] OTHER -> AtColumn(q.left)

\* The part of a line that is in a rectangle: its two ends, or nothing.
RECURSIVE ClipLine(_, _, _)
ClipLine(a, b, q) ==
    LET atA == Beyond(a, q)  atB == Beyond(b, q)
    IN  IF atA = {} /\ atB = {} THEN <<a, b>>
        ELSE IF atA \cap atB # {} THEN <<>>
        ELSE IF atA # {} THEN ClipLine(CutAt(a, b, q, atA), b, q)
        ELSE ClipLine(a, CutAt(a, b, q, atB), q)

\* The points of a line, from top to bottom: after k points along the major axis the
\* error that was added up came to this many along the minor one.
LinePoints(a, b) ==
    LET lo == IF a[2] > b[2] THEN b ELSE a
        hi == IF a[2] > b[2] THEN a ELSE b
        dX == IF hi[1] > lo[1] THEN hi[1] - lo[1] ELSE lo[1] - hi[1]
        dY == hi[2] - lo[2]
        dir == IF hi[1] > lo[1] THEN 1 ELSE -1
        Drift(k, minor, major) == IF k * minor = 0 THEN 0 ELSE (k * minor - 1) \div major
    IN  IF dX > dY THEN {<<lo[1] + dir * k, lo[2] + Drift(k, dY, dX)>> : k \in 0..dX}
        ELSE {<<lo[1] + dir * Drift(k, dX, dY), lo[2] + k>> : k \in 0..dY}

-----------------------------------------------------------------------------
\* The calls of the renderer that a GraphicsContext makes, one or none for each
\* rectangle of the region it draws on.
Displaced(q, by) == Box(q.left + by[1], q.top + by[2], q.right + by[1], q.bottom + by[2])
PerRect(region, Calls(_)) == FlattenSeq([i \in DOMAIN region |-> Calls(region[i])])

FillCall(q, color) == [op |-> "fill", box |-> q, color |-> color]

LineCalls(a, b, color, region) ==
    PerRect(region, LAMBDA q : LET c == ClipLine(a, b, q)
                               IN  IF c = <<>> THEN <<>> ELSE <<[op |-> "line", ends |-> c, color |-> color]>>)

FillCalls(box, color, region) ==
    PerRect(region, LAMBDA q : IF Intersects(box, q) THEN <<FillCall(Meet(box, q), color)>> ELSE <<>>)

GlyphBox(at) == Displaced(Box(0, 0, GlyphW - 1, GlyphH - 1), at)

BlitCalls(at, region) ==
    PerRect(region, LAMBDA q : IF Intersects(GlyphBox(at), q)
                               THEN <<[op |-> "blit", box |-> Meet(GlyphBox(at), q), at |-> at]>> ELSE <<>>)

\* CopyRect: what is copied is clean where it is and where it goes, in places of the
\* source; the rest of the region the window erases, and asks the client to paint.
CopyRegion(box, by, region) ==
    IntersectRegion([i \in DOMAIN ConstrainTo(region, Displaced(box, by)) |->
                        Displaced(ConstrainTo(region, Displaced(box, by))[i], <<-by[1], -by[2]>>)], region)
CopyCalls(box, by, region) ==
    LET copied == CopyRegion(box, by, region)
        rest   == IntersectRegion(Invert(copied), region)
    IN  [i \in DOMAIN copied |-> [op |-> "copy", box |-> copied[i], by |-> by]]
        \o [i \in DOMAIN rest |-> FillCall(rest[i], BACKGROUND)]

-----------------------------------------------------------------------------
\* What the renderer does to the frame buffer.

\* The order of CopyRect: backwards along an axis if that end of the source is
\* overwritten.
CopyOrder(box, by) ==
    LET cols == box.right - box.left + 1
        rows == box.bottom - box.top + 1
        dirX == IF by[1] > 0 /\ by[1] < cols - 1 THEN -1 ELSE 1
        up   == by[2] > 0 /\ by[2] < rows - 1
        from == At(<<IF dirX = -1 THEN box.right ELSE box.left, IF up THEN box.bottom ELSE box.top>>)
        Row(i) == from + i * (IF up THEN -ScreenW ELSE ScreenW + 2 * dirX)
    IN  [k \in 1..rows * cols |-> Row((k - 1) \div cols) + dirX * ((k - 1) % cols)]

CopyPixels(scr, box, by) ==
    LET One(acc, a) == IF a \in Place /\ a + At(by) \in Place THEN [acc EXCEPT ![a + At(by)] = acc[a]] ELSE acc
    IN  FoldLeft(One, scr, CopyOrder(box, by))

Rendered(scr, call) ==
    CASE call.op = "fill" -> Painted(scr, PlacesOf(PointsOf(call.box)), call.color)
      [] call.op = "line" -> Painted(scr, PlacesOf(LinePoints(call.ends[1], call.ends[2])), call.color)
      [] call.op = "copy" -> CopyPixels(scr, call.box, call.by)
      [] call.op = "blit" ->
           LET Ink(p) == Glyph[<<p[1] - call.at[1], p[2] - call.at[2]>>]
               inked  == {p \in PointsOf(call.box) : Ink(p) # CLEAR}
           IN  [a \in Place |-> IF \E p \in inked : At(p) = a
                                THEN Ink(CHOOSE p \in inked : At(p) = a) ELSE scr[a]]

\* Whether the cursor has to be out of the way.  Its rectangle is a point too wide.
CursorBox == Box(cursor[1], cursor[2], cursor[1] + CursorSize, cursor[2] + CursorSize)
OverCursor(call) ==
    CASE call.op = "line" -> ClipLine(call.ends[1], call.ends[2], CursorBox) # <<>>
      [] call.op = "copy" -> Intersects(CursorBox, call.box) \/ Intersects(CursorBox, Displaced(call.box, call.by))
      [] OTHER -> Intersects(call.box, CursorBox)

\* The points of the cursor that are on the screen.
CursorSpots(at) == {o \in Spot : at[1] + o[1] < ScreenW /\ at[2] + o[2] < ScreenH}
SpotAt(at, o) == At(<<at[1] + o[1], at[2] + o[2]>>)

\* EraseCursor, DrawCursor: a point that was not saved is marked as transparent.
Erased(scr, sv, at) ==
    LET spots == {o \in CursorSpots(at) : sv[o] # CLEAR}
    IN  [a \in Place |-> IF \E o \in spots : SpotAt(at, o) = a
                         THEN sv[CHOOSE o \in spots : SpotAt(at, o) = a] ELSE scr[a]]

SavedAt(scr, sv, at) ==
    [o \in Spot |-> IF o \notin CursorSpots(at) THEN sv[o]
                    ELSE IF o \in CursorBits THEN scr[SpotAt(at, o)] ELSE CLEAR]
CursorDrawn(scr, at) == Painted(scr, {SpotAt(at, o) : o \in CursorSpots(at) \cap CursorBits}, ARROW)

-----------------------------------------------------------------------------
IdleDraw == [todo |-> <<>>, locked |-> FALSE, step |-> "idle", erased |-> FALSE]

DrawingInit ==
    /\ cursor = <<ScreenW \div 2, ScreenH \div 2>>
    /\ asked = [a \in Place |-> BACKGROUND]
    /\ screen = CursorDrawn(asked, cursor)
    /\ saved = SavedAt(asked, [o \in Spot |-> BACKGROUND], cursor)
    /\ draw = IdleDraw
    /\ mouse = [at |-> <<(ScreenW - 1) \div 2, (ScreenH - 1) \div 2>>, step |-> "wait"]
    /\ cursorLock = "none" /\ torn = FALSE /\ requests = 0 /\ packets = 0

\* Slip: a request does not wait for the cursor.
TakesAnyway(locked) == TRUE

\* LockCursor, by the requests that take it: not those that show, hide, raise or destroy
\* a window or set its background, and draw that.
Takes(locked) == locked => cursorLock = "none"

\* A request of the dispatch thread.
Request(calls, locked, result, spoilt) ==
    /\ draw.step = "idle" /\ requests < MaxRequests /\ Takes(locked)
    /\ draw' = IF calls = <<>> THEN draw ELSE [todo |-> calls, locked |-> locked, step |-> "erase", erased |-> FALSE]
    /\ cursorLock' = IF locked /\ calls # <<>> THEN "draw" ELSE cursorLock
    /\ asked' = result /\ torn' = (torn \/ spoilt)
    /\ requests' = requests + 1
    /\ UNCHANGED <<screen, saved, cursor, mouse, packets>>

RequestFill == \E box \in Fills, color \in Pens, region \in DrawRegions :
    Request(FillCalls(box, color, region), TRUE,
            Painted(asked, PlacesOf(PointsOf(box) \cap Points(region)), color), FALSE)

\* Upright and level lines are known point by point; of others that they stay in the
\* region.
RequestLine == \E ends \in Segments, color \in Pens, region \in DrawRegions :
    LET a == ends[1]  b == ends[2]
        calls == LineCalls(a, b, color, region)
        level == PointsOf(Box(Lower(a[1], b[1]), Lower(a[2], b[2]), Upper(a[1], b[1]), Upper(a[2], b[2])))
        points == IF a[1] = b[1] \/ a[2] = b[2] THEN level
                  ELSE UNION {LinePoints(calls[i].ends[1], calls[i].ends[2]) : i \in DOMAIN calls}
    IN  Request(calls, TRUE, Painted(asked, PlacesOf(points \cap Points(region)), color), FALSE)

\* DrawString, of one letter.
RequestString == \E box \in Fills, region \in DrawRegions :
    LET at == <<box.left, box.top>>
        Ink(p) == Glyph[<<p[1] - at[1], p[2] - at[2]>>]
        inked  == {p \in PointsOf(GlyphBox(at)) \cap Points(region) : Ink(p) # CLEAR}
    IN  Request(BlitCalls(at, region), TRUE,
                [a \in Place |-> IF \E p \in inked : At(p) = a
                                 THEN Ink(CHOOSE p \in inked : At(p) = a) ELSE asked[a]], FALSE)

\* OP_COPY_RECT.  Copies of several rows that do not go backwards come out askew, those
\* of several rectangles may overwrite what is still to be copied, and of what was not
\* copied Region loses the pieces that are one point thin.
RequestCopy == \E copy \in Copies, region \in DrawRegions :
    LET box == copy.box  by == copy.by
        copied == CopyRegion(box, by, region)
        calls  == CopyCalls(box, by, region)
        Back(a) == a - At(by)
        inCopied(a) == a \in PlacesOf(Points(copied))
        Wiped(a) == \E i \in DOMAIN calls : calls[i].op = "fill" /\ a \in PlacesOf(PointsOf(calls[i].box))
        askew == \/ Len(copied) > 1
                 \/ \E a \in PlacesOf(Points(region)) : ~inCopied(a) /\ ~Wiped(a)
                 \/ \E i \in DOMAIN copied : LET rows == copied[i].bottom - copied[i].top + 1
                                             IN  rows > 1 /\ ~(by[2] > 0 /\ by[2] < rows - 1)
    IN  Request(calls, TRUE,
                [a \in Place |-> IF a \notin PlacesOf(Points(region)) THEN asked[a]
                                 ELSE IF ~inCopied(a) THEN BACKGROUND
                                 ELSE IF inCopied(Back(a)) THEN asked[Back(a)] ELSE asked[a]], askew)

\* The background of what comes into sight, without the lock.
RequestBackground == \E region \in DrawRegions :
    Request([i \in DOMAIN region |-> FillCall(region[i], BACKGROUND)], FALSE,
            Painted(asked, PlacesOf(Points(region)), BACKGROUND), mouse.step \notin {"wait", "lock"})

\* A line is looked for where it would cross the cursor, and its points may be beside that.
Grazes(call) ==
    /\ call.op = "line" /\ ~OverCursor(call)
    /\ \E o \in CursorSpots(cursor) : SpotAt(cursor, o) \in PlacesOf(LinePoints(call.ends[1], call.ends[2]))

\* Each call of Renderer_vga: the cursor is erased if it is in the way, the call is
\* made, the cursor is drawn again.
RenderErase ==
    /\ draw.step = "erase"
    /\ torn' = (torn \/ Grazes(Head(draw.todo)))
    /\ draw' = [draw EXCEPT !.step = "render", !.erased = OverCursor(Head(draw.todo))]
    /\ screen' = IF OverCursor(Head(draw.todo)) THEN Erased(screen, saved, cursor) ELSE screen
    /\ UNCHANGED <<saved, cursor, cursorLock>>

Render ==
    /\ draw.step = "render"
    /\ screen' = Rendered(screen, Head(draw.todo))
    /\ draw' = [draw EXCEPT !.step = "restore"]
    /\ UNCHANGED <<saved, cursor, cursorLock>>

RenderRestore ==
    /\ draw.step = "restore"
    /\ IF draw.erased
       THEN saved' = SavedAt(screen, saved, cursor) /\ screen' = CursorDrawn(screen, cursor)
       ELSE UNCHANGED <<saved, screen>>
    /\ draw' = IF Len(draw.todo) = 1 THEN IdleDraw ELSE [draw EXCEPT !.todo = Tail(@), !.step = "erase"]
    /\ cursorLock' = IF Len(draw.todo) = 1 /\ draw.locked THEN "none" ELSE cursorLock
    /\ UNCHANGED cursor

RenderStep ==
    /\ \/ RenderErase
       \/ (Render \/ RenderRestore) /\ UNCHANGED torn
    /\ UNCHANGED <<mouse, asked, requests, packets>>

\* GetPos: a packet of the mouse moves the position, which stays on the screen.
GetPos == \E by \in MouseMoves :
    /\ mouse.step = "wait" /\ packets < MaxPackets
    /\ LET at == <<Upper(0, Lower(mouse.at[1] + by[1], ScreenW - 1)),
                   Upper(0, Lower(mouse.at[2] + by[2], ScreenH - 1))>>
       IN  mouse' = [at |-> at, step |-> IF at = mouse.at THEN "wait" ELSE "lock"]
    /\ packets' = packets + 1
    /\ UNCHANGED <<screen, saved, cursor, draw, cursorLock, asked, torn, requests>>

\* SetCursorPosition: erase, move, draw, with the lock.
MouseErase ==
    /\ mouse.step = "lock" /\ cursorLock = "none" /\ cursorLock' = "mouse"
    /\ screen' = Erased(screen, saved, cursor)
    /\ mouse' = [mouse EXCEPT !.step = "move"]
    /\ torn' = (torn \/ draw.step # "idle")
    /\ UNCHANGED <<saved, cursor>>

MouseMove ==
    /\ mouse.step = "move" /\ cursor' = mouse.at
    /\ mouse' = [mouse EXCEPT !.step = "show"]
    /\ UNCHANGED <<screen, saved, cursorLock, torn>>

MouseShow ==
    /\ mouse.step = "show"
    /\ saved' = SavedAt(screen, saved, cursor) /\ screen' = CursorDrawn(screen, cursor)
    /\ mouse' = [mouse EXCEPT !.step = "wait"] /\ cursorLock' = "none"
    /\ UNCHANGED <<cursor, torn>>

MouseStep ==
    /\ MouseErase \/ MouseMove \/ MouseShow
    /\ UNCHANGED <<draw, asked, requests, packets>>

DrawingNext == ~torn /\
    \/ RequestFill \/ RequestLine \/ RequestString \/ RequestCopy \/ RequestBackground
    \/ RenderStep \/ GetPos \/ MouseStep

DrawingSpec == DrawingInit /\ [][DrawingNext]_drawingVars
-----------------------------------------------------------------------------
\* Nothing but what was asked for is on the screen, with the cursor over it: under the
\* cursor that is in fSavedBackground.  Only a point of the transparent colour cannot be saved.
DrawnRight == ~torn /\ draw.step = "idle" /\ mouse.step \in {"wait", "lock"} =>
    LET under == [o \in CursorSpots(cursor) \cap CursorBits |-> SpotAt(cursor, o)]
        covered == {under[o] : o \in DOMAIN under}
    IN  /\ \A a \in Place \ covered : asked[a] # CLEAR => screen[a] = asked[a]
        /\ \A o \in DOMAIN under : screen[under[o]] = ARROW
                                   /\ (asked[under[o]] # CLEAR => saved[o] = asked[under[o]])
=============================================================================
