------------------------------ MODULE MCMemory ------------------------------
(* Areas, Kmem, Malloc, Region, Windows, Drawing, Wire, Message and FishTank  *)
(* for TLC, one of them at a time: they do not meet in the models.            *)
EXTENDS Areas, Kmem, Malloc, Region, Windows, Drawing, Wire, Message, FishTank

VARIABLE part

memoryVars ==
    <<areasVars, kmem, mallocVars, regionVars, windowsVars, drawingVars, wireVars, messageVars, fishVars, part>>

MCPerPage == [c \in Pool |-> 2]
MCEdge == {<<0, 1>>, <<2, 3>>, <<4, 5>>, <<0, 3>>, <<2, 5>>, <<0, 5>>}
MCEdgeThin == {<<0, 0>>, <<1, 1>>, <<2, 2>>, <<0, 1>>, <<1, 2>>, <<0, 2>>}
MCWinFrame == {<<0, 1>>, <<1, 2>>}
MCScreenPoints == 0..2

MCCursorBits == {<<0, 0>>, <<1, 0>>, <<0, 1>>}
MCGlyph == [p \in (0..1) \X (0..1) |-> IF p = <<1, 0>> THEN CLEAR ELSE 7]
MCClips == {<<Box(0, 0, 5, 5)>>, <<Box(0, 0, 1, 5), Box(2, 2, 5, 3)>>}
MCFills == {Box(-1, 1, 3, 2), Box(2, 0, 4, 6)}
MCSegments == {<<<<-1, 2>>, <<6, 2>>>>, <<<<-1, 0>>, <<4, 5>>>>, <<<<4, -1>>, <<1, 6>>>>}
MCCopies == {[box |-> Box(2, 0, 5, 3), by |-> <<0, 1>>], [box |-> Box(1, 1, 3, 3), by |-> <<-1, -1>>]}
MCMoves == {<<2, 1>>, <<0, -9>>}

\* Clients that draw lines, show and hide canvases, take them out of the list in one
\* way or the other, and draw strings, one of them longer than the server allows for.
MCPrograms ==
    LET On(op, w) == [op |-> op, on |-> w]
        Gone(w, by) == [op |-> "destroy", on |-> w, by |-> by]
        Open == On("create", TheWindow)
        two == <<Open, On("create", "a"), On("create", "b")>>
        lines == <<Open, On("pen", TheWindow), On("line", TheWindow), On("line", TheWindow)>>
        others == { <<Open, On("create", "a"), On("paint", "a"), On("hide", "a"), On("show", "a"),
                      On("paint", "b")>>,
                    two \o <<Gone("b", "window"), Gone("a", "window"), On("quit", TheWindow)>>,
                    <<Open, On("string", TheWindow), On("show", TheWindow)>>,
                    <<Open, On("pen", TheWindow), On("long string", TheWindow)>> }
        pairs == ({lines} \X others)
                   \cup {<< <<Open, On("show", TheWindow)>>, two \o <<Gone("b", "canvas"), Gone("a", "window")>> >>}
    IN  {("w1" :> p[1]) @@ ("w2" :> p[2]) : p \in pairs}
MCSizeOf ==
    [op \in {"create", "begin paint", "end paint", "pen", "line", "string", "long string", "show", "hide",
            "destroy"} |->
       CASE op \in {"create", "line"} -> 4 [] op = "string" -> 3 [] op = "long string" -> 9 [] OTHER -> 2]

\* Two tanks beside each other, of which one has the fish of vinit; the other may move,
\* to where it is.
MCBorn == ("t1" :> <<"f1", "f2">>) @@ ("t2" :> <<>>)
MCFirstAt == ("t1" :> <<2, 2>>) @@ ("t2" :> <<3, 2>>)
MCTankMoves == {<<3, 2>>}
MCMaxTicks == ("t1" :> 2) @@ ("t2" :> 0)

Idle == [stop |-> "panic", free |-> <<>>, high |-> [v \in VPage |-> 0]]
NoHeap == [ head |-> <<>>, bins |-> <<>>, rest |-> <<>>, binblocks |-> {}, top |-> Null, cur |-> Tob,
            max |-> Tob, sbrked |-> 0, base |-> Null ]

NoWindows == broken = TRUE /\ wins = Null /\ client = Null /\ asks = 0
NoDrawing ==
    /\ torn = TRUE /\ cursorLock = "none" /\ draw = IdleDraw /\ requests = 0 /\ packets = 0
    /\ asked = Null /\ screen = Null /\ saved = Null /\ cursor = Null /\ mouse = Null
NoMessage ==
    /\ harm = TRUE /\ puts = 0 /\ headLen = Null
    /\ chunks = Null /\ put = Null /\ length = Null /\ available = Null /\ block = Null /\ replyPort = Null

\* The parts that are not looked at have stopped.
MemoryInit ==
    /\ part \in {"areas", "kmem", "malloc", "region", "windows", "drawing", "wire", "message", "fish"}
    /\ IF part = "areas" THEN AreasInit ELSE s = Panic(Empty) /\ left = 0
    /\ IF part = "kmem" THEN KmemInit ELSE kmem = Idle
    /\ IF part = "malloc" THEN MallocInit ELSE h = NoHeap /\ held = <<>> /\ mallocs = 0
    /\ RegionInit /\ WireInit
    /\ IF part = "windows" THEN WindowsInit ELSE NoWindows
    /\ IF part = "drawing" THEN DrawingInit ELSE NoDrawing
    /\ FishInit
    /\ IF part = "message" THEN MessageInit ELSE NoMessage
    /\ part = "region" \/ thin
    /\ part = "wire" \/ calls = CHOOSE p \in Programs : TRUE

Others(p, vars) == part = p /\ UNCHANGED <<vars, part>>

MemoryNext ==
    \/ Others("areas", <<kmem, mallocVars, regionVars, windowsVars, drawingVars, wireVars, messageVars, fishVars>>) /\ AreasNext
    \/ Others("kmem", <<areasVars, mallocVars, regionVars, windowsVars, drawingVars, wireVars, messageVars, fishVars>>) /\ KmemNext
    \/ Others("malloc", <<areasVars, kmem, regionVars, windowsVars, drawingVars, wireVars, messageVars, fishVars>>) /\ MallocNext
    \/ Others("region", <<areasVars, kmem, mallocVars, windowsVars, drawingVars, wireVars, messageVars, fishVars>>) /\ RegionNext
    \/ Others("windows", <<areasVars, kmem, mallocVars, regionVars, drawingVars, wireVars, messageVars, fishVars>>) /\ WindowsNext
    \/ Others("drawing", <<areasVars, kmem, mallocVars, regionVars, windowsVars, wireVars, messageVars, fishVars>>) /\ DrawingNext
    \/ Others("wire", <<areasVars, kmem, mallocVars, regionVars, windowsVars, drawingVars, messageVars, fishVars>>) /\ WireNext
    \/ Others("message", <<areasVars, kmem, mallocVars, regionVars, windowsVars, drawingVars, wireVars, fishVars>>) /\ MessageNext
    \/ Others("fish", <<areasVars, kmem, mallocVars, regionVars, windowsVars, drawingVars, wireVars, messageVars>>) /\ FishNext

MemorySpec == MemoryInit /\ [][MemoryNext]_memoryVars

\* What is on the screen: the windows' contents, and what was drawn into them.
ScreenRight == WindowsPainted /\ DrawnRight

\* What a client sends arrives: its commands at the window server, in order, and the
\* values of a Message at the one it is sent to.
SentIsReceived == WireSound /\ MessageTells
=============================================================================
