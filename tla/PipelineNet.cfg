SPECIFICATION DeliverySpec
CONSTANTS
    r1 = r1
    r2 = r2
    Requests <- OneRequest
    ShutdownClose = shutdown
    None = none
    QueueCap = 1
    HistoryCap = 2
    Configs <- MixedConfigs
    InitialStates = {"closed"}
    InitialValve = {"open", "closed"}
    Durations = {0}
    NetCap = 1
    MayStop = FALSE
    WritesMayFail = FALSE
INVARIANTS
    HistoryHonest
PROPERTIES
    ActionsEnd
    SafetyNet
