CONSTANTS
    a = a
    b = b
    c1 = c1
    c2 = c2
    Callers <- MCOne
    Streamer = Streamer
    MaxTrouble = 3
    Askers <- MCTwo
    Torn = Torn
    MaxIssued = 3
    MaxMishaps = 3
    Stocks <- MCStocks
    MaxRuns = 2
    Parts = {"auth", "tokens", "llm"}
SPECIFICATION CompanionSpec
INVARIANTS
    OutageTrue
    TokensSound
    LlmRunsSound
PROPERTIES
    
    AuthSettles
    CallsReturn
    RunsEnd
CHECK_DEADLOCK FALSE
