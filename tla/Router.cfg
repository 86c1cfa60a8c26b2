SPECIFICATION FairSpec
CONSTANTS
    a = a
    b = b
    n1 = n1
    n2 = n2
    h1 = h1
    h2 = h2
    r1 = r1
    Handlers = {g1, g2}
    Apps = {a, b}
    Names = {n1, n2}
    Hosts = {h1, h2}
    NoHost = NoHost
    Routes = {r1}
    Requests <- MCRequests
    NoEntry = NoEntry
    NoRequest = NoRequest
    InitRel <- MCRel
    NewRel <- MCNewRel
    Gateway = FALSE
    TTL = 1
    ReadTimeout = 1
    MaxClock = 3
    MaxChanges = 1
    MaxRequests = 2
INVARIANT StaleBounded
PROPERTY Routed
CHECK_DEADLOCK FALSE
