SPECIFICATION Spec
CONSTANTS
    r1 = r1
    r2 = r2
    Requests <- TwoRequests
    ShutdownClose = shutdown
    None = none
    QueueCap = 1
    HistoryCap = 2
    Configs <- PlainOnly
    InitialStates <- RecordedStates
    InitialValve = {"open", "closed"}
    Durations = {2}
    NetCap = 1
    MayStop = TRUE
    WritesMayFail = TRUE
SYMMETRY Swap
VIEW ControlView
INVARIANTS
    TypeOK
    RestsClosed
    StopCloses
    CancelledForANewerClose
    HistoryHonest
