CONSTANTS
    a = a
    b = b
    f1 = f1
    e1 = e1
    r1 = r1
    v1 = v1
    v2 = v2
    Symbols <- MCSymbols
    Streamers <- MCStreamers
    Editors <- MCEditors
    Readers <- MCReaders
    Payloads <- MCPayloads
    First <- MCFirst
    Closer = Closer
    MaxClock = 2
    MaxPeriods = 2
    MaxLines = 2
    Tapes <- MCTapes
    Viewers <- MCViewers
    MaxStep = 2
    MaxPlays = 5
    Runner = Runner
    Watcher = Watcher
    User = User
    MaxBackoff = 15
    Window = 2
    Minute = 4
    Prices = {1, 2}
    Gains = {0, 4}
    VolumeCap = 3
    WarmUp = 4
    MaxDeltas = 3
    RecordFrom = {1, 2}
    MaxTime = 4
    MaxTraded = 4
    MaxMessages = 4
    MaxOdd = 1
    Parts = {"bars"}
SPECIFICATION RecordingsSpec
INVARIANTS
    VolumeComplete
CHECK_DEADLOCK FALSE
