CONSTANTS
    Threads = {t1, t2, t3}
    NoThread = NoThread
    MaxTokens = 2
SPECIFICATION Spec
INVARIANTS NoLostWake
PROPERTIES ImplementsEvent
