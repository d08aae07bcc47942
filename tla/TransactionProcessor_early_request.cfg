\* Two registrations: the second is pending when the first is confirmed.
CONSTANTS
    w1 = w1  w2 = w2
    r1 = r1  r2 = r2  bad = bad
    Workers = {w1}
    Requests = {r1}
    BadRequests = {}
    Ping = Ping
    MaxQueue = 1
    Registrations = 2
    MaxCalls = 0
    MaxPings = 0
    MaxRepeats = 0
    MaxDisconnects = 0
SPECIFICATION Spec
INVARIANT EarlyRequestTolerated
CHECK_DEADLOCK FALSE
