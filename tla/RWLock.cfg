CONSTANTS
    Threads = {t1, t2, t3, t4}
    NoThread = NoThread
    MaxReads = 2
SPECIFICATION Spec
INVARIANTS Exclusion NoSleepOnFreeLock
PROPERTIES ReaderRetries
CHECK_DEADLOCK FALSE
