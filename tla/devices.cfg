CONSTANTS
    Buf = {b1, b2, b3}
    NoBuf = NoBuf
    XmitRoom = 3
    ClientRoom = 1
    RxPages = 3
    MAX_LOAD = 2
    MaxFrames = 3
    MaxSends = 1
    MaxBlk = 1
    RingRoom = 1
    BOOT_LOAD = 1
    Parts <- MCParts
    Image <- MCImage
    PerBlk = 2
    NDADDR = 2
    NINDIR = 2
    Heads = 2
    Secs = 3
    FfsName = "0a"
    RawNames <- MCRawNames
    Paths <- MCPaths
    ReadAt <- MCReadAt
    ReadLen <- MCReadLen
    MaxCalls = 2
    Pools = {10}
    NE_LOAD = 2
    CardRoom = 2
    MaxEthFrames = 3
    Scripts <- MCScripts
    BPage = 4
    MaxEntries = 10
    Elves = {"i", "e"}
    InisOf <- MCInis
    BytesOf <- MCBytesOf
    ScriptOf <- MCScriptOf
    ReadFrom = {0, 4, 7}
    ReadBytes = {1, 4, 9}
    MaxAnswers = 1
SPECIFICATION DevicesSpec
INVARIANTS
    PacketsFlow
    ImageIsWhole
    DiskReadsRight
    FramesAnswered
    BootIsWhole
CHECK_DEADLOCK FALSE
