SPECIFICATION Spec
CONSTANTS
    r1 = r1
    r2 = r2
    Requests <- TwoRequests
    ShutdownClose = shutdown
    None = none
    QueueCap = 1
    HistoryCap = 2
    Configs <- RetryingOnly
    InitialStates = {"closed"}
    InitialValve = {"closed"}
    Durations = {2}
    NetCap = 1
    MayStop = FALSE
    WritesMayFail = FALSE
PROPERTIES
    CancelledOpenStops
