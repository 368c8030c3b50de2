SPECIFICATION MCSpec
CONSTANTS
    a = a
    b = b
    c1 = c1
    c2 = c2
    Parts = {"calls", "watch", "minutes", "feed", "desk", "setups", "orders", "lookups", "runs"}
    Tickers <- MCStocks
    NoTicker = none
    Callers <- MCCallers
    MaxLiveCalls = 3
    MinutePrices = {1, 2}
    MinuteVolumes = {1}
    MaxMinute = 3
    MaxTenBars = 4
    Watched <- MCOne
    NoSymbol = none
    Feeder = feeder
    Selectors <- MCSelectors
    MaxBars = 3
    MaxQueue = 2
    MaxUpdates = 3
    MaxSockets = 2
    DeskSymbols <- MCStocks
    NoDesk = none
    MaxSlot = 1
    MaxTrades = 2
    MaxEntries = 2
    Snapshots <- MCSnapshots
    Ideas <- MCIdeas
    Tradables <- MCStocks
    NoTradable = none
    MaxOrders = 3
    MaxChase = 3
    Issues <- MCStocks
    NoIssue = none
    MaxLookups = 2
    MaxClients = 1
    MaxClock = 1
    Charts <- MCStocks
    NoChart = none
    MaxRunsAsked = 2
    MaxVersions = 2
    MaxSwitches = 2
INVARIANTS
    CallsServed
    
    
    
    
    
    FiguresTrue
    
PROPERTIES
    ReconnectsSpaced
    SilenceEnds
    
CHECK_DEADLOCK FALSE
