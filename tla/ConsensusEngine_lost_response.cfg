\* One service call.
SPECIFICATION Spec
CONSTANTS
    ChanSize = 2
    MaxCalls = 1
    MaxNotes = 0
    Malformed = {}
    MaxPings = 0
    MaxNotReady = 0
    MaxDisconnects = 0
INVARIANTS
    ResponsesComeBack
CHECK_DEADLOCK FALSE
