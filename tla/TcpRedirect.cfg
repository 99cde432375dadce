SPECIFICATION tcpFairSpec
CONSTANTS
    x = x
    y = y
    TcpIds = {x, y}
    MaxChunks = 3
INVARIANTS
    PayloadInOrder
    DataAfterReply
    ReplyIsHidden
PROPERTIES
    PendedIsPosted
CHECK_DEADLOCK FALSE
