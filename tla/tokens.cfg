SPECIFICATION Spec
CONSTANTS
    s1 = s1
    s2 = s2
    k1 = k1
    k2 = k2
    NoToken = NoToken
    Service = {s1, s2}
    Secret = {k1, k2}
    Second = 2
    SetAccessTTL = 0
    SetRefreshTTL = 9
    DefaultAccessTTL = 7
    DefaultRefreshTTL = 11
    MaxTime = 11
    MaxOffset = 1
    MaxAdjust = 1
    MaxTokens = 1
SYMMETRY MCSymmetry
INVARIANTS
    TypeOK
    NeverOutlived
    WorksMeanwhile
    ExpiresInHonoured
CHECK_DEADLOCK FALSE
