CONSTANTS
    w1 = w1
    w2 = w2
    a = a
    b = b
    Clients <- OneClient
    Symbols <- OneSymbol
    Watchdog = Watchdog
    Main = Main
    MaxSessions = 2
    MaxBoots = 1
    MaxCalls = 2
    MaxDay = 1
SPECIFICATION Spec
INVARIANTS
    ManualStopFinal
CHECK_DEADLOCK FALSE
