SPECIFICATION Spec
CONSTANTS
    NoOrigin = NoOrigin
    AnyOrigin = AnyOrigin
    o1 = o1
    o2 = o2
    Origin = {o1, o2}
    AllowOrigins = {o1}
    SetQps = 3
    SetBurst = 2
    DefaultQps = 2
    TicksPerSecond = 2
    MaxTime = 5
INVARIANTS
    TypeOK
    Quota
    RejectionJustified
    RejectionReadable
CHECK_DEADLOCK FALSE
