SPECIFICATION RunSpec
CONSTANTS
    r1 = r1
    r2 = r2
    Requests <- TwoRequests
    ShutdownClose = shutdown
    None = none
    QueueCap = 1
    HistoryCap = 2
    Configs <- PlainOnly
    InitialStates = {"closed"}
    InitialValve = {"closed"}
    Durations = {0}
    NetCap = 1
    MayStop = FALSE
    WritesMayFail = FALSE
PROPERTIES
    ActionsEnd
    CancelledEnds
    ImplementsService
