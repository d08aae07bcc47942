\* The devmode engine against a validator that goes on between its calls.
CONSTANTS
    Ids = {1, 2, 3, 4, 5}
    Chain <- StartChain
    Settings <- WaitTimes
    MessageTypes = {"published", "received", "ack", "unknown"}
    MaxPeerBlocks = 2
    MaxEvents = 1
SPECIFICATION FairSpec
INVARIANTS
    PanicsOnlyOnFault
    ForkChoice
    ChainPassesCheck
    StaleCandidateReplaced
    OwnBlockPasses
    NoBlockForgotten
    PublishingAtHead
PROPERTIES
    IsBlockJudgement
    EveryBlockJudged
    PublishingResumes
    PublishesAtHeight
CHECK_DEADLOCK FALSE
