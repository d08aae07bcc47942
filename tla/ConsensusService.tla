-------------------------- MODULE ConsensusService --------------------------
(* The calls of the consensus service (consensus/service.go) as an engine   *)
(* implementation sees them: the error each makes of the status the         *)
(* validator replied with.  ConsensusEngine models how a call travels.      *)
NoError == "nil"

\* Statuses that a call reports by an error type of their own, by call.
PeerCalls == {"SendTo", "Broadcast"}    \* none

CandidateCalls ==
    [InitializeBlock |-> {"INVALID_STATE", "UNKNOWN_BLOCK"},
     SummarizeBlock  |-> {"INVALID_STATE", "BLOCK_NOT_READY"},
     FinalizeBlock   |-> {"INVALID_STATE", "BLOCK_NOT_READY"},
     CancelBlock     |-> {"INVALID_STATE"}]

DirectiveCalls ==
    [CheckBlocks |-> {"UNKNOWN_BLOCK"},
     CommitBlock |-> {"UNKNOWN_BLOCK"},
     IgnoreBlock |-> {"UNKNOWN_BLOCK"},
     FailBlock   |-> {"UNKNOWN_BLOCK"}]

QueryCalls ==
    [GetBlocks    |-> {"UNKNOWN_BLOCK"},
     GetChainHead |-> {"NO_CHAIN_HEAD"},
     GetSettings  |-> {"UNKNOWN_BLOCK"},
     GetState     |-> {"UNKNOWN_BLOCK"}]

TypedStatuses(call) ==
    IF call \in PeerCalls THEN {}
    ELSE IF call \in DOMAIN CandidateCalls THEN CandidateCalls[call]
    ELSE IF call \in DOMAIN DirectiveCalls THEN DirectiveCalls[call]
    ELSE QueryCalls[call]

ErrorTypes ==
    [INVALID_STATE   |-> "InvalidStateError",
     UNKNOWN_BLOCK   |-> "UnknownBlockError",
     BLOCK_NOT_READY |-> "BlockNotReadyError",
     NO_CHAIN_HEAD   |-> "NoChainHeadError"]

\* "lost": serviceRpc itself fails to send, or to receive an answer with the
\* right correlation id and type that unmarshals.
ServiceError(call, status) ==
    IF status = "OK" THEN NoError
    ELSE IF status = "lost" THEN "error"
    ELSE IF status \in TypedStatuses(call) THEN ErrorTypes[status]
    ELSE "ReceiveError"
=============================================================================
