------------------------------ MODULE Windows ------------------------------
(***************************************************************************)
(* The windows of the window server, srv/window/Window.cpp with the requests  *)
(* of WindowManager.cpp, and the painting of lib/libwin/Canvas.cpp: who is in *)
(* front of whom, what of a window may be drawn on, and what is yet to be     *)
(* painted.  A screen of one row; regions are sets of points, Region says why. *)
(***************************************************************************)
EXTENDS Integers, Sequences, FiniteSets, SequencesExt

CONSTANTS
    MaxWin,       \* bound: the windows that are ever created
    MaxAsks,      \* bound: requests but those for painting
    WinFrame,     \* frames that clients ask for: first and last point, in the parent
    ScreenPoints  \* the points of the screen

Win == 1..MaxWin     \* fID, which is not used twice
Root == 0
NoWin == -1          \* no window, 0 in the code

VARIABLES
    wins,         \* the windows: see NewWindow
    client,       \* what the client's thread does for a window
    broken,       \* freed memory, or a list through a stale pointer, was used
    asks          \* requests so far

windowsVars == <<wins, client, broken, asks>>

\* prev, fPreviousSibling, is a pointer to a pointer: to a window's first child or to
\* its next sibling.
AtHead(w) == <<"head", w>>
AtNext(w) == <<"next", w>>

NewWindow == [st |-> "none", parent |-> NoWin, head |-> NoWin, next |-> NoWin, prev |-> AtHead(NoWin),
              frame |-> <<0, 0>>, shown |-> FALSE, visible |-> {}, clip |-> {}, invalid |-> {},
              redraw |-> {}, inRedraw |-> FALSE, gc |-> {}, sent |-> FALSE, queued |-> FALSE, painted |-> {},
              wiped |-> {}]   \* wiped: what others filled of what it had painted, for the properties

WindowsInit ==
    /\ wins = [w \in Win \cup {Root} |->
                 IF w = Root THEN [NewWindow EXCEPT !.st = "live", !.shown = TRUE, !.clip = ScreenPoints,
                                      !.visible = ScreenPoints, !.gc = ScreenPoints]
                 ELSE NewWindow]
    /\ client = [w \in Win |-> "idle"] /\ broken = FALSE /\ asks = 0

-----------------------------------------------------------------------------
RECURSIVE ListFrom(_, _)
ListFrom(W, w) == IF w = NoWin THEN <<>> ELSE <<w>> \o ListFrom(W, W[w].next)
Children(W, w) == ListFrom(W, W[w].head)

\* LocalToScreen, of the left edge: along the parents as far as they are known.
RECURSIVE Origin(_, _)
Origin(W, w) == IF w = NoWin THEN 0 ELSE W[w].frame[1] + Origin(W, W[w].parent)
OnScreen(W, w, frame) == (Origin(W, w) + frame[1])..(Origin(W, w) + frame[2])

\* Invalidate: the background is drawn, and one message asks the client to paint.
Invalidate(W, w, region) ==
    [W EXCEPT ![w].invalid = @ \cup region, ![w].queued = @ \/ ~W[w].sent, ![w].sent = TRUE,
              ![w].painted = @ \ region, ![w].wiped = @ \ region]

\* Slip: what was visible before, though a child covered it, counts as drawn.
ExposedVisible(old, rest) == rest \ old.visible

\* What comes into the region that a window draws on.
Exposed(old, rest) == rest \ old.clip

\* Slip: a child may draw in its whole frame.
ShareAll(rest, f) == f

\* What a child sees of what is left, ConstrainTo its frame.
Share(rest, f) == rest \cap f

\* Slip: while it paints, a window keeps the region it began with.
DrawRegionKept(w) == IF w.inRedraw THEN w.redraw ELSE w.clip

\* What a window draws on when its clip region changed.
DrawRegion(w) == IF w.inRedraw THEN w.redraw \cap w.clip ELSE w.clip

\* UpdateClipRegion and SetVisibleRegion: from front to back each child gets what the
\* ones before it left, and the window what all of them left.
RECURSIVE UpdateClip(_, _)
SetVisible(W, w, region) ==
    LET V == UpdateClip([W EXCEPT ![w].visible = region], w)
    IN  [V EXCEPT ![w].gc = DrawRegion(V[w])]
UpdateClip(W, w) ==
    LET Next(acc, c) ==
            IF ~acc.w[c].shown THEN [acc EXCEPT !.w = SetVisible(acc.w, c, {})]
            ELSE LET f == OnScreen(W, w, W[c].frame)
                 IN  [w |-> SetVisible(acc.w, c, Share(acc.rest, f)), rest |-> acc.rest \ f]
        all  == FoldLeft(Next, [w |-> W, rest |-> W[w].visible], Children(W, w))
        new  == Exposed(W[w], all.rest)
        told == IF new = {} THEN all.w ELSE Invalidate(all.w, w, new)
    IN  [told EXCEPT ![w].clip = all.rest, ![w].gc = all.rest, ![w].painted = @ \cap all.rest,
                    ![w].wiped = @ \cap all.rest]

\* AddChild, as the first and frontmost.
AddChild(W, p, c) ==
    LET first == W[p].head
        V == [w \in DOMAIN W |->
                CASE w = c -> [W[c] EXCEPT !.next = first, !.prev = AtHead(p), !.parent = p]
                  [] w = p -> [W[p] EXCEPT !.head = c]
                  [] w = first -> [W[first] EXCEPT !.prev = AtNext(c)]
                  [] OTHER -> W[w]]
    IN  IF V[c].shown THEN UpdateClip(V, p) ELSE V

\* RemoveChild: the pointer to the window is set to its next one, whose own pointer
\* back is left; the parent forgets its parent, not the window its own.
Orphaned(W, c) ==
    LET to == W[c].prev
    IN  IF to[1] = "head" THEN [W EXCEPT ![to[2]].head = W[c].next]
        ELSE [W EXCEPT ![to[2]].next = W[c].next]
PointsTo(W, c) ==
    LET to == W[c].prev
    IN  W[to[2]].st = "live" /\ c = IF to[1] = "head" THEN W[to[2]].head ELSE W[to[2]].next
RemoveChild(W, p, c) == UpdateClip([Orphaned(W, c) EXCEPT ![p].parent = NoWin], p)

RECURSIVE Below(_, _, _)
Below(W, ws, n) == IF n = 0 THEN ws ELSE Below(W, ws \cup UNION {ToSet(Children(W, w)) : w \in ws}, n - 1)
InTree == Below(wins, {Root}, Cardinality(Win))
IsWindow(w) == wins[w].st = "live"
FreedIn(W, w) == W[w].st = "freed"

-----------------------------------------------------------------------------
\* Requests.  Where memory that was freed, or a stale pointer, is used nothing more
\* is said.
Break == broken' = TRUE /\ UNCHANGED wins

CreateWindow(p, w, frame) ==
    /\ IsWindow(p) /\ wins[w].st = "none" /\ \A v \in 1..w - 1 : wins[v].st # "none"
    /\ \E b \in BOOLEAN :          \* fInRedraw is not set by the constructor
         wins' = AddChild([wins EXCEPT ![w].st = "live", ![w].frame = frame, ![w].inRedraw = b], p, w)
    /\ UNCHANGED <<client, broken>>

ShowOrHide(w, shown) ==
    /\ IsWindow(w) /\ wins[w].shown # shown
    /\ IF wins[w].parent # NoWin /\ FreedIn(wins, wins[w].parent) THEN Break
       ELSE /\ wins' = LET W == [wins EXCEPT ![w].shown = shown]
                       IN  IF W[w].parent = NoWin THEN W ELSE UpdateClip(W, W[w].parent)
            /\ UNCHANGED broken
    /\ UNCHANGED client

MoveToFront(w) ==
    /\ IsWindow(w)
    /\ LET p == wins[w].parent
       IN  IF p = NoWin \/ FreedIn(wins, p) \/ ~PointsTo(wins, w) THEN Break
           ELSE /\ wins' = UpdateClip(AddChild(RemoveChild(wins, p, w), p, w), w)
                /\ UNCHANGED broken
    /\ UNCHANGED client

\* A window whose parent is not known stays in that one's list, and one with children
\* leaves them where they are.
DestroyWindow(w) ==
    /\ IsWindow(w)
    /\ LET p == wins[w].parent
       IN  IF p = NoWin \/ FreedIn(wins, p) \/ ~PointsTo(wins, w) THEN Break
           ELSE wins' = [RemoveChild(wins, p, w) EXCEPT ![w].st = "freed"] /\ UNCHANGED broken
    /\ client' = [client EXCEPT ![w] = "idle"]

\* Filled with the background of w, whosever the points are.
Fill(W, w, region) ==
    [v \in DOMAIN W |->
        IF v = w THEN W[v]
        ELSE [W[v] EXCEPT !.wiped = @ \cup (W[v].painted \cap region), !.painted = @ \ region]]

\* OP_INVALIDATE with a rectangle, or OP_SET_BG_COLOR: what is visible of the window
\* is filled, and what of it children show as well, which are not asked to paint again;
\* of the rectangle also what cannot be seen is remembered.
InvalidateRect(w) ==
    /\ IsWindow(w)
    /\ LET rect == OnScreen(wins, wins[w].parent, wins[w].frame)
       IN  wins' = Invalidate(Fill(wins, w, wins[w].visible \cap rect), w, rect)
    /\ UNCHANGED <<client, broken>>

\* The client's thread takes the message: HandleEvent, BeginPaint, Repaint, EndPaint.
TakePaint(w) ==
    /\ IsWindow(w) /\ client[w] = "idle" /\ wins[w].queued
    /\ wins' = [wins EXCEPT ![w].queued = FALSE]
    /\ client' = [client EXCEPT ![w] = "begin"]
    /\ UNCHANGED broken

\* Slip: the message counts as sent until the painting is over.
BeginPaintLate(w) ==
    /\ IsWindow(w) /\ client[w] = "begin"
    /\ wins' = [wins EXCEPT ![w].inRedraw = TRUE, ![w].redraw = wins[w].invalid,
                            ![w].invalid = {}, ![w].gc = wins[w].invalid \cap wins[w].clip]
    /\ client' = [client EXCEPT ![w] = "paint"]
    /\ UNCHANGED broken

BeginPaint(w) ==
    /\ IsWindow(w) /\ client[w] = "begin"
    /\ wins' = [wins EXCEPT ![w].sent = FALSE, ![w].inRedraw = TRUE, ![w].redraw = wins[w].invalid,
                            ![w].invalid = {}, ![w].gc = wins[w].invalid \cap wins[w].clip]
    /\ client' = [client EXCEPT ![w] = "paint"]
    /\ UNCHANGED broken

Repaint(w) ==
    /\ IsWindow(w) /\ client[w] = "paint"
    /\ wins' = [wins EXCEPT ![w].painted = (@ \cup wins[w].gc) \cap wins[w].clip,
                            ![w].wiped = @ \ wins[w].gc]
    /\ client' = [client EXCEPT ![w] = "drawn"]
    /\ UNCHANGED broken

EndPaint(w) ==
    /\ IsWindow(w) /\ client[w] = "drawn"
    /\ wins' = [wins EXCEPT ![w].inRedraw = FALSE, ![w].redraw = {}]
    /\ client' = [client EXCEPT ![w] = "idle"]
    /\ UNCHANGED broken

WindowsNext == ~broken /\ \E w \in Win :
    \/ /\ asks < MaxAsks /\ asks' = asks + 1
       /\ \/ \E p \in Win \cup {Root}, frame \in WinFrame : CreateWindow(p, w, frame)
          \/ \E shown \in BOOLEAN : ShowOrHide(w, shown)
          \/ MoveToFront(w) \/ DestroyWindow(w) \/ InvalidateRect(w)
    \/ /\ TakePaint(w) \/ BeginPaint(w) \/ Repaint(w) \/ EndPaint(w)
       /\ UNCHANGED asks

WindowsSpec == WindowsInit /\ [][WindowsNext]_windowsVars
-----------------------------------------------------------------------------
\* Windows never draw over each other: every point of the screen can be drawn on by
\* exactly one of the windows that are in the tree.
OneDrawsHere == ~broken =>
    \A x \in ScreenPoints : Cardinality({w \in InTree : x \in wins[w].clip}) = 1

\* A window draws on nothing but its own, also while it paints, and wherever it moved.
DrawsInside == ~broken => \A w \in InTree : wins[w].gc \subseteq wins[w].clip

\* What of a window can be seen was painted since it came into sight, or is known to
\* be invalid, or is being painted; but for what InvalidateRect wiped out again.
NothingUnpainted == ~broken =>
    \A w \in InTree \ {Root} : wins[w].clip \subseteq
        wins[w].painted \cup wins[w].invalid \cup wins[w].wiped \cup
        IF client[w] = "paint" THEN wins[w].gc ELSE {}

\* And that is no more than what is in the window that was invalidated: the region
\* that is visible of a window is shared by it and those in it, whatever was moved,
\* hidden or destroyed since it was handed down.
VisibleIsShared == ~broken =>
    \A w \in InTree : wins[w].visible =
        UNION {wins[v].clip : v \in Below(wins, {w}, Cardinality(Win))}

\* And what is invalid gets painted: the message that asks for it is on its way,
\* or the client has it and did not begin yet.
PaintIsAsked == ~broken =>
    \A w \in InTree \ {Root} : wins[w].invalid # {} => wins[w].queued \/ client[w] = "begin"

\* The tree of windows and the clients that paint: each point is drawn by its window
\* alone, and what comes into sight is painted.
WindowsPainted ==
    OneDrawsHere /\ DrawsInside /\ NothingUnpainted /\ VisibleIsShared /\ PaintIsAsked
=============================================================================
