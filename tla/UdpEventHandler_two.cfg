SPECIFICATION ehSpec
CONSTANTS
    a = a
    b = b
    h1 = h1
    h2 = h2
    h3 = h3
    h4 = h4
    Ids = {a, b}
    NoId = NoId
    Ovs = {1, 2, 3, 4, 5, 6}
    Handles = {h1, h2, h3, h4}
    INVALID_SOCKET = INVALID_SOCKET
    Faults = {}
    HasUser = FALSE
    Empty = {}
    MaxDgrams = 1
SYMMETRY MCSymmetry
INVARIANTS
    NoReceiveAfterClose
    ClosedLeavesNothing
    StrayIsForgotten
