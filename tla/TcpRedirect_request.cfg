SPECIFICATION tcpSpec
CONSTANTS
    x = x
    y = y
    TcpIds = {x}
    MaxChunks = 2
INVARIANTS
    RequestOnce
CHECK_DEADLOCK FALSE
