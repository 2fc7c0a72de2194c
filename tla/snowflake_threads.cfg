SPECIFICATION FairSpec
CONSTANTS
    n1 = n1
    n2 = n2
    n3 = n3
    t1 = t1
    t2 = t2
    NoThread = NoThread
    Node = {n1}
    Thread = {t1, t2}
    Host <- MCThreadsHost
    NodeId <- MCThreadsNodeId
    TimeSpan = 2
    NodeSpan = 2
    StepSpan = 2
    Tolerance = 1
    SteppedWhileDown = FALSE
    MinClock <- MCMinClock
    MaxClock = 3
    MaxAdjust = 2
    MaxIds = 4
INVARIANTS
    TypeOK
    IInv
    Unique
    Decodes
PROPERTIES
    CallsReturn
CHECK_DEADLOCK FALSE
