CONSTANTS
    HKey = {0, 7, 14, 5, 33}
    table_size <- MCTableSize
    MaxDirty = 5
    FThread = {t1, t2, t3}
    MAX_FDS = 2
    Builds = {"I386", "other"}
    Program = {c1, c2}
    Name = {n1}
    Ports = 4
    MaxConns = 1
    VClient = {u1}
    File = {f1}
    FileSize <- MCFileSize
    CHUNK = 2
    Counts = {3, 6}
    VFDS = 2
    PortRoom = 2
    MaxHandles = 2
    NoFile = NoFile
    Console = {v1, v2, v3}
    First = v1
    MaxText = 2
    Rows = 3
    Cols = 2
    MAX_ANSI_ELEMENTS = 2
    MaxInt = 10
    Digits = {0, 1, 2}
    MaxTens = 1
    Word = 2
    LocalsOf <- MCLocalsOf
    DefaultOf <- MCDefaultOf
    Operand <- MCOperand
    StoreVars = {0, 16}
    StackSize = 2
    LocalMax = 1
    MaxDepth = 3
    MaxPc = 3
    MaxInstr = 4
    Objects = {1, 2, 3}
    PropsOf <- MCPropsOf
    PropMax = 5
    MaxPuts = 1
    Letters = {0, 6, 39, 72, 83}
    Specials <- MCSpecials
    MaxLine = 5
    TextMax = 5
    KEYSZ = 2
    DictWords <- MCDictWords
    Abbrevs <- MCAbbrevs
    Texts <- MCTexts
    ScrW = 3
    ScrH = 4
    PrintTexts <- MCPrintTexts
    Splits = {0, 2}
    MaxTyped = 1
    MaxScrCalls = 3
    Base = 4
    D = 3
    MAX_EXP = 2
    Rhs <- MCRhs
SPECIFICATION ServicesSpec
INVARIANTS
    KeysFound
    LockHolds
    CallsFit
    FilesServed
    ConsolesKept
    TerminalInside
    LineUnderstood
    GameGoesOn
    NumbersRight
PROPERTY StoryKept
CHECK_DEADLOCK FALSE
