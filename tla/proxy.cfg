CONSTANTS
    Stream = {4, 5}
    Listener = 3
    NULL = NULL
    BufSize = 2
    SockSize = 1
    FirstBytes = 3
    OtherBytes = 1
    MaxConns = 2
SPECIFICATION FairSpec
INVARIANT StreamsSound
PROPERTIES
    BytesKept
    ProxyMoves
CHECK_DEADLOCK FALSE
