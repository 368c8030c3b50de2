CONSTANTS
    t1 = t1
    t2 = t2
    a = a
    b = b
    Callers <- OneCaller
    Symbols <- OneSymbol
    MaxSockets = 2
    MaxWorkers = 1
    MaxRetries = 1
    MaxCalls = 2
    MaxFaults = 1
SPECIFICATION SerialSpec
PROPERTIES
    DisconnectFinal
CHECK_DEADLOCK FALSE
