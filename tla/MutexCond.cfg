CONSTANTS
    Threads = {t1, t2, t3, t4}
    Mutexes = {m1}
    Conds = {c1, c2}
    NoThread = NoThread
    NoMutex = NoMutex
    NoCond = NoCond
    MaxRefs = 2
    CondWaitRefs = {1}
SPECIFICATION Spec
INVARIANTS NoLostWake QueuesSound WokenWaiterOwnsNext
PROPERTIES LockGranted SignalledReturns
CHECK_DEADLOCK FALSE
