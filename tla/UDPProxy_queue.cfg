SPECIFICATION FairSpec
CONSTANTS
    a = a
    b = b
    h1 = h1
    h2 = h2
    h3 = h3
    h4 = h4
    Ids = {a}
    NoId = NoId
    Ovs = {1, 2, 3, 4, 5, 6, 7, 8}
    Handles = {h1, h2}
    INVALID_SOCKET = INVALID_SOCKET
    Faults = {}
    HasUser = TRUE
    Empty = {}
    MaxDgrams = 3
INVARIANTS
    OneReceiver
PROPERTIES
    NothingQueuedForever
