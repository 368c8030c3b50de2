CONSTANTS
    w1 = w1
    w2 = w2
    a = a
    b = b
    Clients <- OneClient
    Symbols <- OneSymbol
    Watchdog = Watchdog
    Main = Main
    MaxSessions = 2
    MaxBoots = 2
    MaxCalls = 2
    MaxDay = 1
SPECIFICATION FairSpec
INVARIANTS
    TypeOK
    NoOrphanSession
    RecorderView
PROPERTIES
    SealedSessions
    ArmedRecordingStops
    InterruptionResolved
CHECK_DEADLOCK FALSE
