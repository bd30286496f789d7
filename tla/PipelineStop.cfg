SPECIFICATION StopSpec
CONSTANTS
    r1 = r1
    r2 = r2
    Requests <- OneRequest
    ShutdownClose = shutdown
    None = none
    QueueCap = 1
    HistoryCap = 2
    Configs <- LimitedConfigs
    InitialStates = {"open", "closed"}
    InitialValve = {"closed"}
    Durations = {0}
    NetCap = 1
    MayStop = TRUE
    WritesMayFail = FALSE
INVARIANTS
    LimitedRestsClosed
PROPERTIES
    StopEnds
