------------------------------ MODULE Devmode -------------------------------
(* The example consensus implementation (examples/devmode_consensus,        *)
(* engine.go): one goroutine that takes an update or a timer tick from its  *)
(* select and makes one service call after the other.  The validator        *)
(* (external) goes on between the calls: it checks blocks, moves its head   *)
(* some time after a commit was ordered, and hears of blocks of peers.      *)
EXTENDS ConsensusService, Integers, Sequences, FiniteSets

CONSTANTS
    Ids,             \* block ids, in the order of bytes.Compare
    Chain,           \* the ids of the chain at startup, from the genesis block up
    Settings,        \* [min, max]: the wait times set on the chain
    MessageTypes,    \* types of the messages peers send
    MaxPeerBlocks,   \* bounds: the blocks of peers, and the disturbances, each
    MaxEvents        \*   a message, a block not ready or a call that fails

ASSUME DevmodeAssumption ==
    /\ Ids \subseteq Nat \ {0}
    /\ Chain \in Seq(Ids) /\ Chain # <<>>
    /\ \A i, j \in DOMAIN Chain : i # j => Chain[i] # Chain[j]
    /\ Settings \in [min : Nat, max : Nat]

VARIABLES
    pc,         \* the call the goroutine is about to make, "select" or a panic
    block,      \* HandleBlock...: the block in hand
    chainHead,  \* HandleBlockValid: the head it is compared with,
    chainBlock, \*   and how far the walk down from that head has come
    summary,    \* finalizeBlock: TRUE when SummarizeBlock returned a summary
    newBlockId, \* what finalizeBlock returned
    waitTime,
    publishedAtHeight,
    blocks,     \* validator: the blocks it knows, by id
    verdict,    \* validator: how far the judgement of a block has come
    head,       \* validator: the chain head
    candidate,  \* validator: the parent of the block it is building, if any
    commits,    \* validator: commits ordered and not yet done
    updates,    \* updates on their way to the engine
    budget,     \* what is left of the bounds
    faulty      \* TRUE when a call failed through no doing of the engine

handled == <<block, chainHead, chainBlock>>
published == <<summary, newBlockId, waitTime, publishedAtHeight>>
validator == <<blocks, verdict, head, candidate, commits, updates>>
vars == <<pc, handled, published, validator, budget, faulty>>

BLOCK_ID_NULL == 0
defaultWaitTime == 0

Update(type, content) == [type |-> type, content |-> content]

ChainIds == {Chain[i] : i \in DOMAIN Chain}

Init ==
    /\ pc = "GetSettings"
    /\ block = BLOCK_ID_NULL /\ chainHead = BLOCK_ID_NULL /\ chainBlock = BLOCK_ID_NULL
    /\ summary = FALSE /\ newBlockId = BLOCK_ID_NULL
    /\ waitTime = 0 /\ publishedAtHeight = FALSE
    \* good: the payload is "Devmode" followed by the summary.
    /\ blocks = [id \in ChainIds |->
                    LET i == CHOOSE i \in DOMAIN Chain : Chain[i] = id IN
                    [previousId |-> IF i = 1 THEN BLOCK_ID_NULL ELSE Chain[i - 1],
                     num |-> i - 1, good |-> i > 1]]
    /\ verdict = [id \in ChainIds |-> "committed"]
    /\ head = Chain[Len(Chain)] /\ candidate = BLOCK_ID_NULL
    /\ commits = <<>> /\ updates = <<>>
    /\ budget = [peerBlocks |-> MaxPeerBlocks, events |-> MaxEvents]
    /\ faulty = FALSE

Spend(what) ==
    /\ budget[what] > 0
    /\ budget' = [budget EXCEPT ![what] = @ - 1]

-----------------------------------------------------------------------------
(* Service calls.  The reply is the one the state of the validator calls    *)
(* for, or a fault: the service reports an error of its own, the exchange   *)
(* is lost, the peer a message is for has gone.                             *)

Replies(expected) ==
    {expected} \cup (IF budget.events > 0 THEN {"SERVICE_ERROR", "lost"} ELSE {})

Charge(expected, status) ==
    IF status = expected THEN UNCHANGED <<budget, faulty>>
    ELSE Spend("events") /\ faulty' = TRUE

\* The wrappers of devmodeService that panic on every error.
Must(step, call, expected, status, next) ==
    /\ pc = step
    /\ status \in Replies(expected)
    /\ Charge(expected, status)
    /\ pc' = IF ServiceError(call, status) = NoError THEN next ELSE "panic"

\* The same for the calls that the validator always grants and that change
\* nothing: there is only the reply.
Ask(step, call, next) ==
    /\ \E status \in Replies("OK") : Must(step, call, "OK", status, next)
    /\ UNCHANGED <<published, validator>>

initializeBlock ==
    LET expected == IF candidate = BLOCK_ID_NULL THEN "OK" ELSE "INVALID_STATE" IN
    \E status \in Replies(expected) :
        /\ Must("InitializeBlock", "InitializeBlock", expected, status, "select")
        /\ candidate' = IF status = "OK" THEN head ELSE candidate
        /\ UNCHANGED <<handled, published, blocks, verdict, head, commits, updates>>

\* A slip: cancelBlock panics when there is nothing to cancel.
SlipCancelBlock ==
    LET expected == IF candidate = BLOCK_ID_NULL THEN "INVALID_STATE" ELSE "OK" IN
    \E status \in Replies(expected) :
        /\ Must("CancelBlock", "CancelBlock", expected, status, "GetSettings")
        /\ candidate' = IF status = "OK" THEN BLOCK_ID_NULL ELSE candidate
        /\ UNCHANGED <<handled, published, blocks, verdict, head, commits, updates>>

\* cancelBlock puts up with there being nothing to cancel.
cancelBlock ==
    LET expected == IF candidate = BLOCK_ID_NULL THEN "INVALID_STATE" ELSE "OK" IN
    \E status \in Replies(expected) :
        /\ pc = "CancelBlock"
        /\ Charge(expected, status)
        /\ pc' = IF ServiceError("CancelBlock", status) \in {NoError, "InvalidStateError"}
                 THEN "GetSettings" ELSE "panic"
        /\ candidate' = IF status = "OK" THEN BLOCK_ID_NULL ELSE candidate
        /\ UNCHANGED <<handled, published, blocks, verdict, head, commits, updates>>

\* calculateWaitTime looks at the settings only if there was an error, when
\* GetSettings returned none and both times parse as 0.
calculateWaitTime(err) ==
    LET settings == IF err = NoError THEN Settings ELSE [min |-> 0, max |-> 0] IN
    IF err # NoError /\ settings.min < settings.max
    THEN settings.min .. settings.max - 1
    ELSE {defaultWaitTime}

\* A slip: publishedAtHeight is not reset for the new height.
SlipStartWait ==
    \E status \in Replies("OK") :
        /\ pc = "GetSettings"
        /\ Charge("OK", status)
        /\ waitTime' \in calculateWaitTime(ServiceError("GetSettings", status))
        /\ pc' = "InitializeBlock"
        /\ UNCHANGED <<handled, summary, newBlockId, publishedAtHeight, validator>>

startWait ==
    \E status \in Replies("OK") :
        /\ pc = "GetSettings"
        /\ Charge("OK", status)
        /\ waitTime' \in calculateWaitTime(ServiceError("GetSettings", status))
        /\ publishedAtHeight' = FALSE
        /\ pc' = "InitializeBlock"
        /\ UNCHANGED <<handled, summary, newBlockId, validator>>
-----------------------------------------------------------------------------
(* Publishing: the timer of the select, finalizeBlock and the broadcast.    *)

Free == Ids \ DOMAIN blocks

\* A slip: a wait time of 0 turns the timer off.
SlipTimerExpires ==
    /\ pc = "select" /\ ~publishedAtHeight
    /\ Free # {}
    /\ waitTime > 0
    /\ pc' = "SummarizeBlock"
    /\ UNCHANGED <<handled, published, validator, budget, faulty>>

\* The timer runs out when no update comes for 10 ms.  Bound: an id is left.
timerExpires ==
    /\ pc = "select" /\ ~publishedAtHeight
    /\ Free # {}
    /\ pc' = "SummarizeBlock"
    /\ UNCHANGED <<handled, published, validator, budget, faulty>>

NotReady(step) ==
    /\ pc = step
    /\ candidate # BLOCK_ID_NULL
    /\ Spend("events")
    /\ UNCHANGED <<pc, handled, published, validator, faulty>>

\* A slip: BlockNotReadyError is not tried again either.
SlipSummarizeBlock ==
    LET expected == IF candidate = BLOCK_ID_NULL THEN "INVALID_STATE" ELSE "OK" IN
    /\ pc = "SummarizeBlock"
    /\ pc' = "FinalizeBlock"
    /\ UNCHANGED <<handled, newBlockId, waitTime, publishedAtHeight, validator>>
    /\ \/ expected = "OK" /\ Spend("events") /\ summary' = FALSE /\ UNCHANGED faulty
       \/ \E status \in Replies(expected) :
            /\ Charge(expected, status)
            /\ summary' = (ServiceError("SummarizeBlock", status) = NoError)

\* Only BlockNotReadyError is tried again; after any other error the loop ends
\* as after a success, without a summary.
summarizeBlock ==
    LET expected == IF candidate = BLOCK_ID_NULL THEN "INVALID_STATE" ELSE "OK" IN
    \/ NotReady("SummarizeBlock")
    \/ \E status \in Replies(expected) :
        /\ pc = "SummarizeBlock"
        /\ Charge(expected, status)
        /\ summary' = (ServiceError("SummarizeBlock", status) = NoError)
        /\ pc' = "FinalizeBlock"
        /\ UNCHANGED <<handled, newBlockId, waitTime, publishedAtHeight, validator>>

With(f, id, value) == [x \in DOMAIN f \cup {id} |-> IF x = id THEN value ELSE f[x]]

\* The validator signs the candidate and announces it, also when its answer
\* to that does not arrive.
Signed(id) ==
    /\ blocks' = With(blocks, id, [previousId |-> candidate,
                                  num |-> blocks[candidate].num + 1,
                                  good |-> summary])
    /\ verdict' = With(verdict, id, "new")
    /\ candidate' = BLOCK_ID_NULL
    /\ updates' = Append(updates, Update("BlockNew", id))
    /\ UNCHANGED <<head, commits>>

finalizeBlock ==
    LET expected == IF candidate = BLOCK_ID_NULL THEN "INVALID_STATE" ELSE "OK" IN
    \/ NotReady("FinalizeBlock")
    \/ \E status \in Replies(expected), id \in Free :
        /\ pc = "FinalizeBlock"
        /\ Charge(expected, status)
        /\ \/ expected = "OK" /\ status \in {"OK", "lost"} /\ Signed(id)
           \/ status # "OK" /\ UNCHANGED validator
        /\ newBlockId' = IF ServiceError("FinalizeBlock", status) = NoError
                         THEN id ELSE BLOCK_ID_NULL
        /\ publishedAtHeight' = TRUE
        /\ pc' = "Broadcast"
        /\ summary' = FALSE
        /\ UNCHANGED <<handled, waitTime>>

broadcastPublishedBlock ==
    /\ \E status \in Replies("OK") : Must("Broadcast", "Broadcast", "OK", status, "select")
    /\ newBlockId' = BLOCK_ID_NULL
    /\ UNCHANGED <<handled, summary, waitTime, publishedAtHeight, validator>>
-----------------------------------------------------------------------------
(* The updates of the select, and their handlers.                           *)

Take(type, next, id) ==
    /\ pc = "select" /\ updates # <<>>
    /\ Head(updates) = Update(type, id)
    /\ pc' = next
    /\ updates' = Tail(updates)
    /\ UNCHANGED <<published, blocks, verdict, head, candidate, commits, budget, faulty>>

\* A handler ends: its locals are gone.
Return == block' = BLOCK_ID_NULL /\ chainHead' = BLOCK_ID_NULL /\ chainBlock' = BLOCK_ID_NULL

InHand(id) == block' = id /\ UNCHANGED <<chainHead, chainBlock>>

\* UpdateBlockInvalid has no case in the switch.  (The updates on peers have
\* none either; the shutdown update is modelled in ConsensusEngine.)
ignoreUpdate ==
    /\ \E id \in Ids : Take("BlockInvalid", "select", id)
    /\ UNCHANGED handled

HandlePeerMessage ==
    /\ \/ \E type \in {"published", "ack"} : Take("PeerMessage", "select", type)
       \/ Take("PeerMessage", "SendAck", "received")
       \/ \E type \in MessageTypes \ {"published", "received", "ack"} :
            Take("PeerMessage", "panicInvalidMessage", type)
    /\ UNCHANGED handled

sendBlockAck ==
    /\ Ask("SendAck", "SendTo", "select")
    /\ UNCHANGED handled

\* A slip: the consensus data is not looked at.
SlipCheckConsensus(id) == TRUE

checkConsensus(id) == blocks[id].good

\* A slip: a block that fails the check is not reported to the validator.
SlipHandleBlockNew ==
    /\ \E id \in DOMAIN blocks :
        LET passes == blocks[id].previousId # BLOCK_ID_NULL /\ checkConsensus(id) IN
        /\ Take("BlockNew", IF passes THEN "CheckBlocks" ELSE "select", id)
        /\ IF passes THEN InHand(id) ELSE UNCHANGED handled

HandleBlockNew ==
    \E id \in DOMAIN blocks :
        \/ /\ blocks[id].previousId = BLOCK_ID_NULL
           /\ Take("BlockNew", "select", id)
           /\ UNCHANGED handled
        \/ /\ blocks[id].previousId # BLOCK_ID_NULL
           /\ Take("BlockNew", IF checkConsensus(id) THEN "CheckBlocks" ELSE "FailBlock", id)
           /\ InHand(id)

\* What the validator records when a directive about the block in hand arrives.
Directive(call, recorded) ==
    /\ \E status \in Replies("OK") :
        /\ Must(call, call, "OK", status, "select")
        /\ verdict' = IF status = "OK" THEN [verdict EXCEPT ![block] = recorded] ELSE verdict
        /\ commits' = IF status = "OK" /\ recorded = "committing"
                      THEN Append(commits, block) ELSE commits
    /\ Return
    /\ UNCHANGED <<published, blocks, head, candidate, updates>>

\* A slip: after the commit the handler goes on to ignore the block.
SlipCommitBlock ==
    /\ \E status \in Replies("OK") :
        /\ Must("CommitBlock", "CommitBlock", "OK", status, "IgnoreBlock")
        /\ verdict' = IF status = "OK" THEN [verdict EXCEPT ![block] = "committing"] ELSE verdict
        /\ commits' = IF status = "OK" THEN Append(commits, block) ELSE commits
    /\ UNCHANGED <<handled, published, blocks, head, candidate, updates>>

checkBlock == Directive("CheckBlocks", "checking")
failBlock == Directive("FailBlock", "failed")
commitBlock == Directive("CommitBlock", "committing")
ignoreBlock == Directive("IgnoreBlock", "ignored")

HandleBlockValid ==
    \E id \in DOMAIN blocks :
        /\ Take("BlockValid", "GetBlock", id)
        /\ InHand(id)

\* GetBlocks, whose result never changes, and the message to the signer, which
\* the validator passes on: one step, as neither meets the rest of the state.
sendBlockReceived ==
    /\ \E call \in {"GetBlocks", "SendTo"} : Ask("GetBlock", call, "GetChainHead")
    /\ UNCHANGED handled

\* The comparison of the block with the head that the validator returned.
Compared(headId) ==
    LET b == blocks[block]  h == blocks[headId] IN
    IF b.num > h.num \/ (b.num = h.num /\ block > headId) THEN "CommitBlock"
    ELSE IF b.num < h.num THEN "GetChainBlock"
    ELSE "IgnoreBlock"

getChainHead ==
    /\ Ask("GetChainHead", "GetChainHead", Compared(head))
    /\ chainHead' = head /\ chainBlock' = head
    /\ UNCHANGED block

\* A slip: after the walk the block is compared with the head.
SlipWalked(id) ==
    IF blocks[id].num # blocks[block].num THEN "GetChainBlock"
    ELSE IF block > chainHead THEN "CommitBlock"
    ELSE "IgnoreBlock"

\* One turn of the loop down the chain, up to the height of the block.
Walked(id) ==
    IF blocks[id].num # blocks[block].num THEN "GetChainBlock"
    ELSE IF block > id THEN "CommitBlock"
    ELSE "IgnoreBlock"

getChainBlock ==
    /\ pc = "GetChainBlock"
    /\ LET previous == blocks[chainBlock].previousId IN
        /\ Ask("GetChainBlock", "GetBlocks", Walked(previous))
        /\ chainBlock' = previous
    /\ UNCHANGED <<block, chainHead>>

\* A slip: a block not yet published is not given up.
SlipHandleBlockCommit ==
    /\ \E id \in DOMAIN blocks :
        Take("BlockCommit", IF publishedAtHeight THEN "CancelBlock" ELSE "select", id)
    /\ UNCHANGED handled

HandleBlockCommit ==
    /\ \E id \in DOMAIN blocks : Take("BlockCommit", "CancelBlock", id)
    /\ UNCHANGED handled
-----------------------------------------------------------------------------
(* The validator (external).                                                *)

\* What the validator does once the engine has stopped is left out.
Running == pc \notin {"panic", "panicInvalidMessage"}

Announce(type, id) == updates' = Append(updates, Update(type, id))

\* A peer's block arrives, on a block of the chain's tree or as another genesis
\* block.  Bound: it does not take the last id from a block being finalized.
PeerBlock ==
    \E id \in Free, good \in BOOLEAN :
    \E previous \in {b \in DOMAIN blocks : b = Chain[1] \/ blocks[b].num > 0} \cup {BLOCK_ID_NULL} :
        /\ Running
        /\ Spend("peerBlocks")
        /\ pc \in {"SummarizeBlock", "FinalizeBlock"} => Cardinality(Free) > 1
        /\ blocks' = With(blocks, id, [previousId |-> previous, good |-> good,
                                      num |-> IF previous = BLOCK_ID_NULL THEN 0
                                              ELSE blocks[previous].num + 1])
        /\ verdict' = With(verdict, id, "new")
        /\ Announce("BlockNew", id)
        /\ UNCHANGED <<pc, handled, published, head, candidate, commits, faulty>>

Message ==
    /\ Running
    /\ Spend("events")
    /\ \E type \in MessageTypes : Announce("PeerMessage", type)
    /\ UNCHANGED <<pc, handled, published, blocks, verdict, head, candidate, commits, faulty>>

Rejected == {"failed", "invalid"}

\* A block waits for the verdict on its parent, and shares it if that is bad.
Validate ==
    \E id \in DOMAIN blocks, result \in {"valid", "invalid"} :
        LET parent == verdict[blocks[id].previousId] IN
        /\ Running /\ verdict[id] = "checking"
        /\ parent \notin {"new", "checking"}
        /\ parent \in Rejected => result = "invalid"
        /\ verdict' = [verdict EXCEPT ![id] = result]
        /\ Announce(IF result = "valid" THEN "BlockValid" ELSE "BlockInvalid", id)
        /\ UNCHANGED <<pc, handled, published, blocks, head, candidate, commits, budget, faulty>>

\* A commit takes effect.  The candidate may be dropped with the old head.
Commit ==
    /\ Running /\ commits # <<>>
    /\ head' = Head(commits)
    /\ commits' = Tail(commits)
    /\ verdict' = [verdict EXCEPT ![head'] = "committed"]
    /\ candidate' \in {candidate, BLOCK_ID_NULL}
    /\ Announce("BlockCommit", head')
    /\ UNCHANGED <<pc, handled, published, blocks, budget, faulty>>

Engine ==
    \/ startWait \/ initializeBlock \/ timerExpires \/ summarizeBlock \/ finalizeBlock
    \/ broadcastPublishedBlock \/ ignoreUpdate \/ HandlePeerMessage \/ sendBlockAck
    \/ HandleBlockNew \/ checkBlock \/ failBlock \/ HandleBlockValid
    \/ sendBlockReceived \/ getChainHead \/ getChainBlock \/ commitBlock
    \/ ignoreBlock \/ HandleBlockCommit \/ cancelBlock

Next == Engine \/ PeerBlock \/ Message \/ Validate \/ Commit

Spec == Init /\ [][Next]_vars

\* The goroutine runs on, and the validator ends what it was told to do.
FairSpec == Spec /\ WF_vars(Engine) /\ WF_vars(Validate) /\ WF_vars(Commit)
-----------------------------------------------------------------------------
(* Properties.                                                              *)

\* Apart from the panic on a peer message of a type it does not know
\* (HandlePeerMessage), which any such message brings about, a panic is never
\* of the engine's own making: no order of its calls, the validator's moves and
\* the queued updates starts a block while another is being built or trips over
\* one that is gone.  (initializeBlock, cancelBlock and HandleBlockCommit in
\* engine.go.)
PanicsOnlyOnFault == pc = "panic" => faulty

Closed(S) == \A b \in S : blocks[b].num > 0 => blocks[b].previousId \in S

\* The block and those below it: what every set has that has the block and, with
\* a block, the one before it.
Ancestors(id) ==
    {a \in DOMAIN blocks :
        \A S \in SUBSET DOMAIN blocks : id \in S /\ Closed(S) => a \in S}

\* The fork rule on its own: a block is better than a head if it is higher, or
\* has a greater id than the block of the head's chain at its own height.
Better(id, headId) ==
    \/ blocks[id].num > blocks[headId].num
    \/ \E a \in Ancestors(headId) : blocks[a].num = blocks[id].num /\ id > a

\* HandleBlockValid commits a block exactly if the fork rule prefers it to the
\* chain it read, however the comparison and the walk down the chain ran and
\* wherever the validator's head went meanwhile.
ForkChoice ==
    /\ pc = "CommitBlock" => Better(block, chainHead)
    /\ pc = "IgnoreBlock" => ~Better(block, chainHead)

\* Every block above the genesis block of the validator's chain has the consensus
\* data that createConsensus makes of its summary, whichever forks were built on
\* blocks that HandleBlockNew failed.
ChainPassesCheck ==
    \A id \in Ancestors(head) : blocks[id].num > 0 => blocks[id].good

\* When the validator goes on building on a block that is no longer its head,
\* HandleBlockCommit is about to cancel it: now, or by an update on its way.
StaleCandidateReplaced ==
    Running /\ candidate \notin {BLOCK_ID_NULL, head} =>
        pc = "CancelBlock" \/ \E i \in DOMAIN updates : updates[i].type = "BlockCommit"

\* A block the engine announces as published passes its own check of consensus
\* data, also when its parent was dropped or the validator was not ready while
\* finalizeBlock ran.
OwnBlockPasses ==
    pc = "Broadcast" /\ newBlockId # BLOCK_ID_NULL /\ ~faulty => checkConsensus(newBlockId)

Judged == {"failed", "invalid", "ignored", "committed"}

Arrived(id) == id \in DOMAIN blocks /\ blocks[id].previousId # BLOCK_ID_NULL

Queued(type, id) == \E i \in DOMAIN updates : updates[i] = Update(type, id)

InHandAt(steps, id) == pc \in steps /\ block = id

\* While the engine runs, a block that is not judged yet is never forgotten: the
\* update on it is queued or its handler has it in hand, or its commit is
\* ordered, or it waits for a block that is not forgotten either.  (HandleBlockNew
\* and HandleBlockValid answer each update by one directive.)
NoBlockForgotten ==
    Running => \A id \in Ids : Arrived(id) =>
        /\ verdict[id] = "new" =>
              Queued("BlockNew", id) \/ InHandAt({"CheckBlocks", "FailBlock"}, id)
        /\ verdict[id] = "checking" =>
              LET previous == blocks[id].previousId IN
              Arrived(previous) \/ verdict[previous] \in Judged
        /\ verdict[id] = "valid" =>
              \/ Queued("BlockValid", id)
              \/ InHandAt({"GetBlock", "GetChainHead", "GetChainBlock", "CommitBlock",
                           "IgnoreBlock"}, id)
        /\ verdict[id] = "committing" => \E i \in DOMAIN commits : commits[i] = id

Fates == INSTANCE BlockJudgement WITH
    fate <- [id \in Ids |-> IF id \in DOMAIN verdict THEN verdict[id] ELSE "unknown"],
    good <- {id \in DOMAIN blocks : blocks[id].good}

\* The engine gives each block the directives the validator's judgement of it
\* calls for, each once and none out of turn, whatever the validator does between
\* an update and the directive that answers it.
IsBlockJudgement == Fates!Spec

\* publishedAtHeight can be relied on: once the engine has acted on every commit
\* it was told of, it is set only if a block that passes the check was published
\* on the head (or a call failed), and while it is not set the candidate is a
\* block on the head.  (finalizeBlock sets it also when nothing was published;
\* HandleBlockCommit and startWait reset it.)
PublishingAtHead ==
    LET told == \A i \in DOMAIN updates : updates[i].type # "BlockCommit" IN
    Running /\ told /\ pc \notin {"CancelBlock", "GetSettings", "InitializeBlock"} =>
        IF publishedAtHeight
        THEN faulty \/ \E id \in DOMAIN blocks : blocks[id].previousId = head /\ blocks[id].good
        ELSE candidate = head

\* Every block that reaches the engine, other than a genesis block, is failed,
\* found invalid, ignored or committed in the end, unless the engine stops.
EveryBlockJudged ==
    \A id \in Ids :
        Arrived(id) ~> (~Running \/ (Arrived(id) /\ verdict[id] \in Judged))

\* When finalizeBlock comes too late for its candidate, publishedAtHeight is
\* set all the same; the update on the new head then lets the timer run again.
PublishingResumes ==
    (pc = "Broadcast" /\ newBlockId = BLOCK_ID_NULL /\ ~faulty)
        ~> (~Running \/ ~publishedAtHeight)

\* The timer of the select is not held up for good: the engine publishes at
\* each height (as long as the model has ids for new blocks).
PublishesAtHeight ==
    ~publishedAtHeight ~> (~Running \/ publishedAtHeight \/ Free = {})

\* The comment on calculateWaitTime: "a random number between the settings
\* sawtooth.consensus.min_wait_time and sawtooth.consensus.max_wait_time if
\* max > min".
WaitTimeFromSettings ==
    pc # "GetSettings" /\ ~faulty /\ Settings.max > Settings.min =>
        waitTime \in Settings.min .. Settings.max - 1
=============================================================================
