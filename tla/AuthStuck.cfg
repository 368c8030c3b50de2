CONSTANTS
    a = a
    b = b
    c1 = c1
    c2 = c2
    Callers <- MCTwo
    Streamer = Streamer
    MaxTrouble = 2
    Askers <- MCOne
    Torn = Torn
    MaxIssued = 1
    MaxMishaps = 0
    Stocks <- MCStocks
    MaxRuns = 1
    Parts = {"auth"}
SPECIFICATION CompanionSpec
PROPERTIES
    ReconnectEnds
CHECK_DEADLOCK FALSE
