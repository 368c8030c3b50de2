CONSTANTS
    t1 = t1
    t2 = t2
    a = a
    b = b
    Callers <- OneCaller
    Symbols <- MCSymbols
    MaxSockets = 7
    MaxWorkers = 4
    MaxRetries = 2
    MaxCalls = 3
    MaxFaults = 1
SPECIFICATION FairSerialSpec
INVARIANTS
    TypeOK
    FlagHonest
    ClientAgrees
    NoneStranded
PROPERTIES
    Recovers
CHECK_DEADLOCK FALSE
