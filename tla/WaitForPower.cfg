SPECIFICATION FairSpec
CONSTANTS
    w1 = w1
    w2 = w2
    s1 = s1
    Waiters = {w1, w2}
    Sources = {s1}
    Payloads <- MCPayloads
    Target <- TwoTargets
    Expect <- TwoExpects
    NoName = noname
    None = none
CHECK_DEADLOCK FALSE
INVARIANTS
    TypeOK
    DeliveredOnce
    SendFindsRoom
    ConfirmedByReport
PROPERTIES
    WaitEnds
