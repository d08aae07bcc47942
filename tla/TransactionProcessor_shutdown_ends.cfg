\* One worker and one request with one state call.
CONSTANTS
    w1 = w1  w2 = w2
    r1 = r1  r2 = r2  bad = bad
    Workers = {w1}
    Requests = {r1}
    BadRequests = {}
    Ping = Ping
    MaxQueue = 1
    Registrations = 1
    MaxCalls = 1
    MaxPings = 0
    MaxRepeats = 0
    MaxDisconnects = 0
SPECIFICATION FairSpec
PROPERTIES ShutdownEnds
CHECK_DEADLOCK FALSE
