CONSTANTS
    w1 = w1
    w2 = w2
    a = a
    b = b
    Clients <- MCClients
    Symbols <- MCSymbols
    Watchdog = Watchdog
    Main = Main
    MaxSessions = 3
    MaxBoots = 2
    MaxCalls = 4
    MaxDay = 2
SPECIFICATION SerialSpec
SYMMETRY Interchangeable
INVARIANTS
    IntentHonest
    LineageTrue
CHECK_DEADLOCK FALSE
