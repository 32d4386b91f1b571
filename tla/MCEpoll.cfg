SPECIFICATION Spec
CONSTANTS
    Threads = {t1, t2}
    NoThread = NoThread
    NumStd = 1
    TableChunk = 1
    IntMax = 3
    MaxDesc = 4
    MaxFaults = 1
    Kinds = {"socket", "epoll"}
    Data = {1}
    MapAllocFails = FALSE
INVARIANTS  HostFdAccounted  NoDeadlock
SYMMETRY Symmetry
CHECK_DEADLOCK FALSE
