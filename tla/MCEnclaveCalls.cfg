CONSTANTS
    Enclaves = {e1, e2}
    Threads = {t1, t2}
    NumTcs = 2
    NoThread = NoThread
    NoBinding = NoBinding
    MaxDepth = 4
SPECIFICATION Spec
INVARIANTS TcsExclusive  HandlingMatches NoRunWhenDown
SYMMETRY Symmetry
CHECK_DEADLOCK FALSE
