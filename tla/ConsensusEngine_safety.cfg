\* Two service calls, or one and a repeated answer; a malformed notification
\* among three, and a restart.
SPECIFICATION Spec
CONSTANTS
    ChanSize = 2
    MaxCalls = 2
    MaxNotes = 3
    Malformed = {2}
    MaxPings = 0
    MaxNotReady = 0
    MaxDisconnects = 1
INVARIANTS
    TypeOK
    UpdatesInOrder
    ShutdownIsLast
    ServiceIsolated
    ActiveTogether
    OneStandstill
CHECK_DEADLOCK FALSE
