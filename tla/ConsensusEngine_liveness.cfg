\* A service call, more notifications than the channel holds, a ping and a
\* validator that is not ready at first.
SPECIFICATION FairSpec
CONSTANTS
    ChanSize = 2
    MaxCalls = 1
    MaxNotes = 3
    Malformed = {}
    MaxPings = 1
    MaxNotReady = 1
    MaxDisconnects = 0
PROPERTIES
    RegistrationEnds
    MessagesHandledOrStandstill
    ShutdownEnds
CHECK_DEADLOCK FALSE
