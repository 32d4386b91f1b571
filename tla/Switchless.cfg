CONSTANTS
    Callers = {a, b}
    NumWorkers = 2
    NoCaller = NoCaller
    Directions = {"ocall", "ecall"}
    BadDispatch = FALSE
SPECIFICATION Spec
INVARIANTS NoStrandedCall NoStaleArgs  FreedUnused
PROPERTIES CallReturns StopCompletes
