SPECIFICATION FairSpec
CONSTANTS
    cr1 = cr1
    cr2 = cr2
    n1 = n1
    n2 = n2
    CRs = {cr1, cr2}
    Names = {n1, n2}
    ConfigsOf <- OwnName
    Addrs = {"a1", "a2"}
    Reachable = {"a1"}
    MaxClients = 3
    MaxChanges = 3
    MayStop = FALSE
    None = none
CHECK_DEADLOCK FALSE
PROPERTIES
    ReachableIsServed
