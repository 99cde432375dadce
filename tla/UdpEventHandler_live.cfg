SPECIFICATION ehFairSpec
CONSTANTS
    a = a
    b = b
    h1 = h1
    h2 = h2
    h3 = h3
    h4 = h4
    Ids = {a}
    NoId = NoId
    Ovs = {1, 2, 3, 4, 5, 6}
    Handles = {h1, h2}
    INVALID_SOCKET = INVALID_SOCKET
    Faults = {"socket", "connect", "io", "post", "close", "reply"}
    HasUser = TRUE
    Empty = {}
    MaxDgrams = 1
PROPERTIES
    CallsReturn
    Reclaimed
