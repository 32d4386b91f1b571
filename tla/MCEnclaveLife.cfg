SPECIFICATION Spec
CONSTANTS
    Threads = {t1, t2, t3}
    NoThread = NoThread
    MaxEnclaves = 2
    Settings <- MCSettings
    EdlResults = {"OE_OK"}
    InitResults = {"OE_OK"}
INVARIANTS QueryReachesLive 
PROPERTY CallReturns
CHECK_DEADLOCK FALSE
