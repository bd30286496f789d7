SPECIFICATION FairSpec
CONSTANTS
    k1 = k1
    k2 = k2
    d1 = d1
    b1 = b1
    Keys = {k1, k2}
    NameOf <- SameName
    Devices = {d1}
    Bridges = {b1}
    ValveSpecs <- MCValveSpecs
    DeviceSpecs <- MCDeviceSpecs
    BridgeSpecs = {"s1", "s2"}
    Clusters <- OneValve
    Acts = {"a1", "a2"}
    ShutdownClose = shutdown
    Readers = {"r1"}
    HistoryCap = 1
    MaxPipes = 2
    MaxChanges = 3
    ApiChanges = 1
    None = none
CHECK_DEADLOCK FALSE
INVARIANTS
    TypeOK
    NoOrphanPipeline
    ListedOnce
    FoundIfThere
PROPERTIES
    Converges
