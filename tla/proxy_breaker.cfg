SPECIFICATION FairSpec
CONSTANTS
    r1 = r1
    users = users
    q1 = q1
    q2 = q2
    q3 = q3
    Routes = {r1}
    Service = {users}
    ServiceOf <- MCServiceOf
    Request = {q1, q2, q3}
    SetMaxRequests = 2
    SetMinRequests = 0
    SetRatioNum = 0
    RatioDen = 5
    DefaultMaxRequests = 1
    DefaultMinRequests = 2
    DefaultRatioNum = 3
    MaxCount = 4
    MaxFaults = 3
INVARIANTS
    TypeOK
    CountsMatch
    ProbesProceed
    GapsDoNotTrip
    FailureTrips
PROPERTIES
    Recovers
