\* The wait time between blocks, against the settings it is to come from.
CONSTANTS
    Ids = {1, 2, 3, 4, 5}
    Chain <- StartChain
    Settings <- WaitTimes
    MessageTypes = {"published", "received", "ack", "unknown"}
    MaxPeerBlocks = 2
    MaxEvents = 1
SPECIFICATION Spec
INVARIANT WaitTimeFromSettings
CHECK_DEADLOCK FALSE
