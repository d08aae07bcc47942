\* One service call, and more notifications than the channel holds.
SPECIFICATION FairSpec
CONSTANTS
    ChanSize = 2
    MaxCalls = 1
    MaxNotes = 3
    Malformed = {}
    MaxPings = 0
    MaxNotReady = 0
    MaxDisconnects = 0
PROPERTIES
    MessagesHandled
CHECK_DEADLOCK FALSE
