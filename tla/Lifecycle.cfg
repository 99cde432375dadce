SPECIFICATION lcFairSpec
CONSTANTS
    a = a
    h1 = h1
    h2 = h2
    Ids = {a}
    NoId = NoId
    Ovs = {1, 2, 3, 4, 5, 6, 7, 8, 9}
    Handles = {h1, h2}
    INVALID_SOCKET = INVALID_SOCKET
    Faults = {}
    HasUser = FALSE
    Empty = {}
    MaxDgrams = 2
    StartFaults = {"address", "extensions", "port", "thread", "driver"}
INVARIANTS
    WorkerHasMemory
    StoppedIsClean
PROPERTIES
    StopReturns
