SPECIFICATION Spec
CONSTANTS
    Threads = {t1, t2, t3}
    NoThread = NoThread
    MaxEnclaves = 2
    Settings <- MCSettings
    EdlResults = {"OE_OK"}
    InitResults = {"OE_OK"}
CHECK_DEADLOCK FALSE
INVARIANT DebuggerFinds
