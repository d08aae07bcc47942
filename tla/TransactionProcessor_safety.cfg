\* One bad request among three; a queue of one, so that requests are denied;
\* a lost connection and a restart.
CONSTANTS
    w1 = w1  w2 = w2
    r1 = r1  r2 = r2  bad = bad
    Workers = {w1, w2}
    Requests = {r1, r2, bad}
    BadRequests = {bad}
    Ping = Ping
    MaxQueue = 1
    Registrations = 2
    MaxCalls = 2
    MaxPings = 1
    MaxRepeats = 1
    MaxDisconnects = 1
SPECIFICATION Spec
SYMMETRY Symmetry
INVARIANTS
    TypeOK RoutedToCaller NoLostCall AnsweredAtMostOnce RouterNeverWaits
    NoStandstill
PROPERTIES IsRequestService DeniedOnlyWhenOccupied
CHECK_DEADLOCK FALSE
