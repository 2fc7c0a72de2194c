SPECIFICATION Spec
CONSTANTS
    n1 = n1
    n2 = n2
    n3 = n3
    t1 = t1
    t2 = t2
    NoThread = NoThread
    Node <- MCClusterNode
    Thread <- MCClusterThread
    Host <- MCClusterHost
    NodeId <- MCClusterNodeId
    TimeSpan = 4
    NodeSpan = 2
    StepSpan = 2
    Tolerance = 1
    SteppedWhileDown = FALSE
    MinClock = 0
    MaxClock = 2
    MaxAdjust = 1
    MaxIds = 2
PROPERTIES
    Implements
CHECK_DEADLOCK FALSE
