SPECIFICATION ServerSpec
CONSTANTS
    r1 = r1
    r2 = r2
    users = users
    i1 = i1
    i2 = i2
    e1 = e1
    e2 = e2
    bad = bad
    Routes = {r1, r2}
    Service = {users}
    ServiceOf <- MCServiceOf
    Instance = {i1, i2}
    EndpointsOf <- MCEndpointsOf
    Malformed = {bad}
    MaxChanges = 2
    MaxLookupErrors = 2
    MaxWatchErrors = 1
    RouteList <- MCRouteList
    MayLack = {r2}
INVARIANTS
    ServerTypeOK
    NothingLeftOpen
PROPERTIES
    LoopsEnd
    FreshWhileLooping
CHECK_DEADLOCK FALSE
