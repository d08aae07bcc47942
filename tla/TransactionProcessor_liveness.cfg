\* Two workers, one of which a bad request may end; a shutdown and a restart
\* after which requests may be sent again.
CONSTANTS
    w1 = w1  w2 = w2
    r1 = r1  r2 = r2  bad = bad
    Workers = {w1, w2}
    Requests = {r1, r2, bad}
    BadRequests = {bad}
    Ping = Ping
    MaxQueue = 1
    Registrations = 1
    MaxCalls = 2
    MaxPings = 0
    MaxRepeats = 0
    MaxDisconnects = 1
SPECIFICATION FairSpec
PROPERTIES EveryRequestAnswered IdleShutdownEnds FirstCommandObeyed
CHECK_DEADLOCK FALSE
