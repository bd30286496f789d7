SPECIFICATION FairSpec
CONSTANTS
    q1 = q1
    q2 = q2
    q3 = q3
    q4 = q4
    Queries = {q1, q2, q3, q4}
    Target <- Targets
    DeviceOf <- Devices
    Payloads <- MCPayloads
    NoName = noname
    None = none
CHECK_DEADLOCK FALSE
INVARIANTS
    TypeOK
    NoStaleEntry
    RightDevice
    Heard
PROPERTIES
    QueriesEnd
