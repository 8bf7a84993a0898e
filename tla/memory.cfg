CONSTANTS
    Team = {b, c}
    Boot = b
    MaxId = 13
    MaxPage = 12
    Span = 8
    Half = 4
    Group = {1, 2, 3, 4}
    Sizes = {1, 2}
    Breaks = {4, 6}
    MaxTaken = 1
    MaxCalls = 5
    KPages = 5
    VTop = 8
    VLow = 4
    Pool = {node, other}
    Node = node
    PerPage <- MCPerPage
    MaxHeld = 2
    Tob = 8192
    Pagesz = 4096
    Threshold = 131072
    Requests = {12, 36, 600, 140000}
    Alignments = {64}
    MaxMallocs = 5
    Edge <- MCEdge
    EdgeThin <- MCEdgeThin
    CoordMax = 10
    RectAlloc = 4
    MaxOps = 3
    MaxWin = 3
    MaxAsks = 5
    WinFrame <- MCWinFrame
    ScreenPoints <- MCScreenPoints
    GlyphW = 2
    GlyphH = 2
    ScreenW = 6
    ScreenH = 6
    CursorSize = 2
    CursorBits <- MCCursorBits
    Pens = {7, 255}
    Glyph <- MCGlyph
    Clips <- MCClips
    Fills <- MCFills
    Segments <- MCSegments
    Copies <- MCCopies
    MouseMoves <- MCMoves
    MaxRequests = 2
    MaxPackets = 1
    WClient = {"w1", "w2"}
    Canvas = {"a", "b"}
    SendRoom = 7
    MaxCommand = 4
    SizeOf <- MCSizeOf
    Programs <- MCPrograms
    MsgIds = {1, 2}
    MsgLens = {1, 8, 110}
    GROW_BY = 128
    MaxPuts = 3
    Tank = {"t1", "t2"}
    Fish = {"f1", "f2", "f3"}
    Born <- MCBorn
    FirstAt <- MCFirstAt
    Moves <- MCTankMoves
    NoFish = NoFish
    Rubbish = Rubbish
    TIMEOUT = 0
    PING_EVERY = 2
    MaxTicks <- MCMaxTicks
    MaxOdd = 1
SPECIFICATION MemorySpec
INVARIANTS
    AreasKept
    
    RegionExact
    ScreenRight
    SentIsReceived
    FishSwim
PROPERTY HeapKept
CHECK_DEADLOCK FALSE
