CONSTANTS
    t1 = t1
    t2 = t2
    a = a
    b = b
    Callers <- OneCaller
    Symbols <- OneSymbol
    MaxSockets = 2
    MaxWorkers = 2
    MaxRetries = 2
    MaxCalls = 1
    MaxFaults = 2
SPECIFICATION Spec
INVARIANTS
    NoneStranded
CHECK_DEADLOCK FALSE
