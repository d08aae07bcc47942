\* One restart, no calls.
SPECIFICATION FairSpec
CONSTANTS
    ChanSize = 2
    MaxCalls = 0
    MaxNotes = 0
    Malformed = {}
    MaxPings = 0
    MaxNotReady = 0
    MaxDisconnects = 1
PROPERTIES
    ShutdownReturns
CHECK_DEADLOCK FALSE
