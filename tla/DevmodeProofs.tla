---------------------------- MODULE DevmodeProofs ---------------------------
(* The safety of the devmode engine, for every chain, every number of       *)
(* blocks, messages and failing calls, and any order of the validator's     *)
(* steps between the calls.                                                 *)
EXTENDS Devmode, TLAPS

\* A reply OK lets the wrappers of devmodeService go on; any other reply where
\* OK was to be expected is a fault, and they panic.
LEMMA ReplyOK ==
    ASSUME NEW call, NEW status, status \in Replies("OK"), Charge("OK", status)
    PROVE  \/ status = "OK" /\ ServiceError(call, status) = NoError
              /\ UNCHANGED <<budget, faulty>>
           \/ status # "OK" /\ faulty' = TRUE
<1>1. CASE status = "OK"
    BY <1>1 DEF ServiceError, Charge
<1>2. CASE status # "OK"
    BY <1>2, Zenon DEF Charge
<1> QED
    BY <1>1, <1>2, Zenon

\* Where the code has just cancelled, or not yet started, a block, there is no
\* candidate: the validator starts none by itself.
NoCandidate == pc \in {"GetSettings", "InitializeBlock"} => candidate = BLOCK_ID_NULL

PanicInv == NoCandidate /\ PanicsOnlyOnFault

\* PanicInv holds at the start.
LEMMA InitPanic == Init => PanicInv
    BY DEF Init, PanicInv, NoCandidate, PanicsOnlyOnFault

\* An action that leaves candidate and faulty alone and goes nowhere near a
\* panic or the start of a block.
LEMMA QuietStep ==
    ASSUME PanicInv, candidate' = candidate,
           pc' \notin {"panic", "GetSettings", "InitializeBlock"}
    PROVE  PanicInv'
    BY DEF PanicInv, NoCandidate, PanicsOnlyOnFault

\* Taking an update starts a handler and leaves the candidate alone.
LEMMA TakeStep ==
    ASSUME PanicInv, NEW type, NEW id,
           NEW next \in {"select", "SendAck", "panicInvalidMessage", "CheckBlocks",
                         "FailBlock", "GetBlock", "CancelBlock"},
           Take(type, next, id)
    PROVE  PanicInv'
<1>1. pc' = next /\ candidate' = candidate
    BY DEF Take
<1> QED
    BY <1>1, QuietStep

\* The panicking wrappers: on to the next call, or a panic after a fault.
LEMMA MustStep ==
    ASSUME NEW STATE step, NEW STATE next, NEW call, NEW status \in Replies("OK"),
           Must(step, call, "OK", status, next)
    PROVE  pc' = next \/ (pc' = "panic" /\ faulty' = TRUE)
<1>1. \/ ServiceError(call, status) = NoError
      \/ faulty' = TRUE
    BY ReplyOK, Zenon DEF Must
<1> QED
    BY <1>1 DEF Must

\* A panic after a fault.
LEMMA PanicStep ==
    ASSUME PanicInv, candidate' = candidate, pc' = "panic", faulty' = TRUE
    PROVE  PanicInv'
    BY DEF PanicInv, NoCandidate, PanicsOnlyOnFault

\* A call that goes from one handler step to the next, or panics.
LEMMA AskStep ==
    ASSUME PanicInv, NEW STATE step, NEW call, NEW STATE next,
           next \notin {"panic", "GetSettings", "InitializeBlock"},
           Ask(step, call, next)
    PROVE  PanicInv'
<1>1. PICK status \in Replies("OK") : Must(step, call, "OK", status, next)
    BY Zenon DEF Ask
<1>2. candidate' = candidate
    BY Zenon DEF Ask, validator
<1>3. pc' = next \/ (pc' = "panic" /\ faulty' = TRUE)
    BY <1>1, MustStep, Zenon
<1> QED
    BY <1>2, <1>3, QuietStep, PanicStep, Zenon

\* A directive returns to select or panics.
LEMMA DirectiveStep ==
    ASSUME PanicInv, NEW call, NEW recorded, Directive(call, recorded)
    PROVE  PanicInv'
<1>1. PICK status \in Replies("OK") : Must(call, call, "OK", status, "select")
    BY Zenon DEF Directive
<1>2. candidate' = candidate
    BY Zenon DEF Directive
<1>3. pc' = "select" \/ (pc' = "panic" /\ faulty' = TRUE)
    BY <1>1, MustStep, Zenon
<1> QED
    BY <1>2, <1>3, QuietStep, PanicStep, Zenon

\* Only INVALID_STATE has an error type of its own among the replies to
\* CancelBlock.
LEMMA CancelErrors ==
    /\ ServiceError("CancelBlock", "INVALID_STATE") = "InvalidStateError"
    /\ ServiceError("CancelBlock", "SERVICE_ERROR") = "ReceiveError"
    /\ ServiceError("CancelBlock", "lost") = "error"
    /\ ServiceError("CancelBlock", "OK") = NoError
<1>1. TypedStatuses("CancelBlock") = {"INVALID_STATE"}
    BY DEF TypedStatuses, PeerCalls, CandidateCalls
<1> QED
    BY <1>1 DEF ServiceError, ErrorTypes

\* After cancelBlock there is no candidate, unless it panics over a fault.
LEMMA CancelStep ==
    ASSUME PanicInv, cancelBlock
    PROVE  PanicInv'
<1> DEFINE expected == IF candidate = BLOCK_ID_NULL THEN "INVALID_STATE" ELSE "OK"
<1>1. PICK status \in Replies(expected) :
        /\ Charge(expected, status)
        /\ pc' = IF ServiceError("CancelBlock", status) \in {NoError, "InvalidStateError"}
                 THEN "GetSettings" ELSE "panic"
        /\ candidate' = IF status = "OK" THEN BLOCK_ID_NULL ELSE candidate
    BY Zenon DEF cancelBlock
<1>2. status \in {expected, "SERVICE_ERROR", "lost"}
    BY <1>1 DEF Replies
<1>3. CASE status = expected
    <2>1. candidate' = BLOCK_ID_NULL /\ pc' = "GetSettings"
        BY <1>1, <1>3, CancelErrors
    <2> QED
        BY <2>1 DEF PanicInv, NoCandidate, PanicsOnlyOnFault
<1>4. CASE status \in {"SERVICE_ERROR", "lost"}
    <2>1. pc' = "panic" /\ faulty' = TRUE
        BY <1>1, <1>4, CancelErrors DEF Charge, NoError
    <2> QED
        BY <2>1 DEF PanicInv, NoCandidate, PanicsOnlyOnFault
<1> QED
    BY <1>2, <1>3, <1>4

\* The step of each action of the goroutine.
LEMMA EnginePanic == PanicInv /\ Engine => PanicInv'
<1> SUFFICES ASSUME PanicInv, Engine PROVE PanicInv'
    OBVIOUS
<1>1. CASE startWait
    <2>1. candidate' = candidate /\ pc = "GetSettings" /\ pc' = "InitializeBlock"
        BY <1>1, Zenon DEF startWait, validator
    <2> QED
        BY <2>1 DEF PanicInv, NoCandidate, PanicsOnlyOnFault
<1>2. CASE initializeBlock
    <2>1. pc = "InitializeBlock" /\ candidate = BLOCK_ID_NULL
        BY <1>2 DEF initializeBlock, Must, PanicInv, NoCandidate
    <2>2. PICK status \in Replies("OK") :
            Must("InitializeBlock", "InitializeBlock", "OK", status, "select")
        BY <1>2, <2>1 DEF initializeBlock
    <2>3. pc' = "select" \/ (pc' = "panic" /\ faulty' = TRUE)
        BY <2>2, MustStep, Zenon
    <2> QED
        BY <2>3 DEF PanicInv, NoCandidate, PanicsOnlyOnFault
<1>3. CASE timerExpires
    BY <1>3, QuietStep DEF timerExpires, validator
<1>4. CASE summarizeBlock
    <2>1. candidate' = candidate /\ pc' \in {"SummarizeBlock", "FinalizeBlock"}
        BY <1>4, Zenon DEF summarizeBlock, NotReady, validator
    <2> QED
        BY <2>1, QuietStep
<1>5. CASE finalizeBlock
    <2>1. pc' \in {"FinalizeBlock", "Broadcast"}
        BY <1>5, Zenon DEF finalizeBlock, NotReady
    <2> QED
        BY <2>1 DEF PanicInv, NoCandidate, PanicsOnlyOnFault
<1>6. CASE broadcastPublishedBlock
    <2>1. PICK status \in Replies("OK") : Must("Broadcast", "Broadcast", "OK", status, "select")
        BY <1>6, Zenon DEF broadcastPublishedBlock
    <2>2. candidate' = candidate
        BY <1>6, Zenon DEF broadcastPublishedBlock, validator
    <2>3. pc' = "select" \/ (pc' = "panic" /\ faulty' = TRUE)
        BY <2>1, MustStep, Zenon
    <2> QED
        BY <2>2, <2>3, QuietStep, PanicStep, Zenon
<1>7. CASE ignoreUpdate
    BY <1>7, TakeStep DEF ignoreUpdate
<1>8. CASE HandlePeerMessage
    BY <1>8, TakeStep DEF HandlePeerMessage
<1>9. CASE sendBlockAck
    BY <1>9, AskStep DEF sendBlockAck
<1>10. CASE HandleBlockNew
    BY <1>10, TakeStep DEF HandleBlockNew
<1>11. CASE checkBlock \/ failBlock \/ commitBlock \/ ignoreBlock
    BY <1>11, DirectiveStep DEF checkBlock, failBlock, commitBlock, ignoreBlock
<1>12. CASE HandleBlockValid
    BY <1>12, TakeStep DEF HandleBlockValid
<1>13. CASE sendBlockReceived
    BY <1>13, AskStep DEF sendBlockReceived
<1>14. CASE getChainHead
    <2>1. Compared(head) \in {"CommitBlock", "GetChainBlock", "IgnoreBlock"}
        BY DEF Compared
    <2> QED
        BY <1>14, <2>1, AskStep DEF getChainHead
<1>15. CASE getChainBlock
    <2>1. Walked(blocks[chainBlock].previousId) \in {"CommitBlock", "GetChainBlock", "IgnoreBlock"}
        BY DEF Walked
    <2> QED
        BY <1>15, <2>1, AskStep DEF getChainBlock
<1>16. CASE HandleBlockCommit
    BY <1>16, TakeStep DEF HandleBlockCommit
<1>17. CASE cancelBlock
    BY <1>17, CancelStep
<1> QED
    BY <1>1, <1>2, <1>3, <1>4, <1>5, <1>6, <1>7, <1>8, <1>9, <1>10, <1>11, <1>12, <1>13,
       <1>14, <1>15, <1>16, <1>17 DEF Engine

\* Between the calls the validator starts no block and fails no call.
LEMMA ValidatorPanic == PanicInv /\ (PeerBlock \/ Message \/ Validate \/ Commit) => PanicInv'
<1> SUFFICES ASSUME PanicInv, PeerBlock \/ Message \/ Validate \/ Commit PROVE PanicInv'
    OBVIOUS
<1>1. pc' = pc /\ faulty' = faulty /\ candidate' \in {candidate, BLOCK_ID_NULL}
    BY Zenon DEF PeerBlock, Message, Validate, Commit
<1> QED
    BY <1>1 DEF PanicInv, NoCandidate, PanicsOnlyOnFault

\* PanicInv holds in every reachable state.
LEMMA PanicInvariant == Spec => []PanicInv
<1>1. PanicInv /\ [Next]_vars => PanicInv'
    <2>1. PanicInv /\ Next => PanicInv'
        BY EnginePanic, ValidatorPanic DEF Next
    <2>2. PanicInv /\ UNCHANGED vars => PanicInv'
        BY DEF vars, validator, PanicInv, NoCandidate, PanicsOnlyOnFault
    <2> QED
        BY <2>1, <2>2
<1> QED
    BY <1>1, InitPanic, PTL DEF Spec

\* The engine panics on a service call only when one failed through no doing of
\* its own: cancelBlock and initializeBlock in HandleBlockCommit never meet a
\* state of the validator that they do not expect.  (The panic of
\* HandlePeerMessage on an unknown message type is another one.)
THEOREM PanicFree == Spec => []PanicsOnlyOnFault
<1>1. PanicInv => PanicsOnlyOnFault
    BY DEF PanicInv
<1> QED
    BY <1>1, PanicInvariant, PTL
-----------------------------------------------------------------------------
(* StaleCandidateReplaced.                                                  *)

\* The elements of a sequence after Append.
LEMMA AppendFacts ==
    ASSUME NEW S, NEW s \in Seq(S), NEW e
    PROVE  /\ Append(s, e) \in Seq(S \cup {e})
           /\ DOMAIN Append(s, e) = DOMAIN s \cup {Len(s) + 1}
           /\ \A i \in DOMAIN s : Append(s, e)[i] = s[i]
           /\ Append(s, e)[Len(s) + 1] = e
<1>1. s \in Seq(S \cup {e})
    OBVIOUS
<1> QED
    BY <1>1

\* The elements of a sequence after Tail.
LEMMA TailFacts ==
    ASSUME NEW S, NEW s \in Seq(S), s # <<>>
    PROVE  /\ Tail(s) \in Seq(S)
           /\ Head(s) = s[1]
           /\ \A i \in DOMAIN s : i = 1 \/ (i - 1 \in DOMAIN Tail(s) /\ Tail(s)[i - 1] = s[i])
    OBVIOUS

CommitIn(queue) == \E i \in DOMAIN queue : queue[i].type = "BlockCommit"

\* The updates are a sequence, and one of them or the call about to be made
\* gives a stale candidate up.
StaleInv ==
    /\ \E S : updates \in Seq(S)
    /\ StaleCandidateReplaced

\* StaleCandidateReplaced as three alternatives.
LEMMA StaleCases ==
    StaleCandidateReplaced <=>
        (pc \in {"panic", "panicInvalidMessage", "CancelBlock"}
           \/ candidate \in {BLOCK_ID_NULL, head} \/ CommitIn(updates))
    BY DEF StaleCandidateReplaced, Running, CommitIn

\* An update that is added takes none away.
LEMMA AddUpdate ==
    ASSUME NEW e, \E S : updates \in Seq(S), updates' = Append(updates, e)
    PROVE  /\ \E S : updates' \in Seq(S)
           /\ CommitIn(updates) => CommitIn(updates')
           /\ e.type = "BlockCommit" => CommitIn(updates')
<1>1. PICK S : updates \in Seq(S)
    OBVIOUS
<1> DEFINE u == updates  v == updates'
<1>2. /\ v \in Seq(S \cup {e})
      /\ DOMAIN v = DOMAIN u \cup {Len(u) + 1}
      /\ \A i \in DOMAIN u : v[i] = u[i]
      /\ v[Len(u) + 1] = e
    BY <1>1, AppendFacts
<1>3. \E T : v \in Seq(T)
    BY <1>2, Zenon
<1>4. CommitIn(u) => CommitIn(v)
    BY <1>2, Zenon DEF CommitIn
<1>5. e.type = "BlockCommit" => CommitIn(v)
    BY <1>2, Zenon DEF CommitIn
<1> QED
    BY <1>3, <1>4, <1>5

\* One that is taken is the first.
LEMMA TakeUpdate ==
    ASSUME NEW type, NEW next, NEW id, Take(type, next, id), StaleInv
    PROVE  /\ \E S : updates' \in Seq(S)
           /\ type # "BlockCommit" => (CommitIn(updates) => CommitIn(updates'))
<1>1. PICK S : updates \in Seq(S)
    BY DEF StaleInv
<1>2. updates # <<>> /\ updates' = Tail(updates) /\ Head(updates).type = type
    BY DEF Take, Update
<1> DEFINE u == updates  v == updates'
<1>3. /\ v \in Seq(S)
      /\ Head(u) = u[1]
      /\ \A i \in DOMAIN u : i = 1 \/ (i - 1 \in DOMAIN v /\ v[i - 1] = u[i])
    BY <1>1, <1>2, TailFacts
<1>4. ASSUME type # "BlockCommit", CommitIn(u)
      PROVE  CommitIn(v)
    <2>1. PICK i \in DOMAIN u : u[i].type = "BlockCommit"
        BY <1>4 DEF CommitIn
    <2>2. i # 1
        BY <1>2, <1>3, <1>4, <2>1
    <2> QED
        BY <1>3, <2>1, <2>2, Zenon DEF CommitIn
<1>5. \E T : v \in Seq(T)
    BY <1>3, Zenon
<1> QED
    BY <1>4, <1>5

\* A step that takes no update and goes on building on the same block, on the
\* head or on none.
LEMMA StaleFrame ==
    ASSUME StaleInv, head' = head, candidate' \in {candidate, head, BLOCK_ID_NULL},
           updates' = updates \/ \E e : updates' = Append(updates, e),
           pc \notin {"panic", "panicInvalidMessage", "CancelBlock"} \/ pc' = pc
    PROVE  StaleInv'
<1>1. /\ \E S : updates' \in Seq(S)
      /\ CommitIn(updates) => CommitIn(updates')
    BY AddUpdate DEF StaleInv
<1>2. \/ pc' \in {"panic", "panicInvalidMessage", "CancelBlock"}
      \/ candidate' \in {BLOCK_ID_NULL, head'} \/ CommitIn(updates')
    BY <1>1, StaleCases DEF StaleInv
<1> QED
    BY <1>1, <1>2 DEF StaleInv, StaleCandidateReplaced, Running, CommitIn

\* An update is taken: a BlockCommit leads to cancelBlock, any other leaves the
\* BlockCommit behind it where it was.
LEMMA StaleTake ==
    ASSUME StaleInv, NEW type, NEW next, NEW id, Take(type, next, id),
           type = "BlockCommit" => next = "CancelBlock"
    PROVE  StaleInv'
<1>1. /\ \E S : updates' \in Seq(S)
      /\ type # "BlockCommit" => (CommitIn(updates) => CommitIn(updates'))
    BY TakeUpdate
<1>2. pc = "select" /\ pc' = next /\ candidate' = candidate /\ head' = head
    BY DEF Take
<1>3. candidate \in {BLOCK_ID_NULL, head} \/ CommitIn(updates)
    BY <1>2, StaleCases DEF StaleInv
<1>4. pc' = "CancelBlock" \/ candidate' \in {BLOCK_ID_NULL, head'} \/ CommitIn(updates')
    BY <1>1, <1>2, <1>3
<1> QED
    BY <1>1, <1>4 DEF StaleInv, StaleCandidateReplaced, Running, CommitIn

\* StaleInv over a query of the validator.
LEMMA StaleAsk ==
    ASSUME StaleInv, NEW STATE step, NEW call, NEW STATE next,
           step \notin {"panic", "panicInvalidMessage", "CancelBlock"},
           Ask(step, call, next)
    PROVE  StaleInv'
<1>1. pc = step
    BY DEF Ask, Must
<1>2. candidate' = candidate /\ head' = head /\ updates' = updates
    BY Zenon DEF Ask, validator
<1> QED
    BY <1>1, <1>2, StaleFrame

\* StaleInv over a directive to the validator.
LEMMA StaleDirective ==
    ASSUME StaleInv, NEW call, NEW recorded,
           call \notin {"panic", "panicInvalidMessage", "CancelBlock"},
           Directive(call, recorded)
    PROVE  StaleInv'
<1>1. pc = call
    BY DEF Directive, Must
<1>2. candidate' = candidate /\ head' = head /\ updates' = updates
    BY Zenon DEF Directive
<1> QED
    BY <1>1, <1>2, StaleFrame

\* StaleInv over cancelBlock, after which there is no candidate.
LEMMA StaleCancel ==
    ASSUME StaleInv, PanicInv, cancelBlock
    PROVE  StaleInv'
<1>1. head' = head /\ updates' = updates /\ pc' \in {"GetSettings", "panic"}
    BY DEF cancelBlock
<1>2. PanicInv'
    BY CancelStep
<1>3. pc' = "panic" \/ candidate' = BLOCK_ID_NULL
    BY <1>1, <1>2 DEF PanicInv, NoCandidate, BLOCK_ID_NULL
<1> QED
    BY <1>1, <1>3 DEF StaleInv, StaleCandidateReplaced, Running, BLOCK_ID_NULL

\* StaleInv over every step of the engine.
LEMMA EngineStale == StaleInv /\ PanicInv /\ Engine => StaleInv'
<1> SUFFICES ASSUME StaleInv, PanicInv, Engine PROVE StaleInv'
    OBVIOUS
<1>1. CASE startWait
    <2>1. pc = "GetSettings" /\ candidate' = candidate /\ head' = head /\ updates' = updates
        BY <1>1, Zenon DEF startWait, validator
    <2> QED
        BY <2>1, StaleFrame
<1>2. CASE initializeBlock
    <2>1. /\ pc = "InitializeBlock" /\ head' = head /\ updates' = updates
          /\ candidate' \in {candidate, head}
        BY <1>2 DEF initializeBlock, Must
    <2> QED
        BY <2>1, StaleFrame
<1>3. CASE timerExpires
    BY <1>3, StaleFrame DEF timerExpires, validator
<1>4. CASE summarizeBlock
    <2>1. pc = "SummarizeBlock" /\ candidate' = candidate /\ head' = head /\ updates' = updates
        BY <1>4, Zenon DEF summarizeBlock, NotReady, validator
    <2> QED
        BY <2>1, StaleFrame
<1>5. CASE finalizeBlock
    <2>1. pc = "FinalizeBlock" /\ head' = head
        BY <1>5, Zenon DEF finalizeBlock, NotReady, Signed, validator
    <2>2. /\ candidate' \in {candidate, BLOCK_ID_NULL}
          /\ updates' = updates \/ \E e : updates' = Append(updates, e)
        BY <1>5, Zenon DEF finalizeBlock, NotReady, Signed, validator
    <2> QED
        BY <2>1, <2>2, StaleFrame
<1>6. CASE broadcastPublishedBlock
    <2>1. pc = "Broadcast"
        BY <1>6 DEF broadcastPublishedBlock, Must
    <2>2. candidate' = candidate /\ head' = head /\ updates' = updates
        BY <1>6, Zenon DEF broadcastPublishedBlock, validator
    <2> QED
        BY <2>1, <2>2, StaleFrame
<1>7. CASE ignoreUpdate
    BY <1>7, StaleTake DEF ignoreUpdate
<1>8. CASE HandlePeerMessage
    BY <1>8, StaleTake DEF HandlePeerMessage
<1>9. CASE sendBlockAck
    BY <1>9, StaleAsk DEF sendBlockAck
<1>10. CASE HandleBlockNew
    BY <1>10, StaleTake DEF HandleBlockNew
<1>11. CASE checkBlock \/ failBlock \/ commitBlock \/ ignoreBlock
    BY <1>11, StaleDirective DEF checkBlock, failBlock, commitBlock, ignoreBlock
<1>12. CASE HandleBlockValid
    BY <1>12, StaleTake DEF HandleBlockValid
<1>13. CASE sendBlockReceived
    BY <1>13, StaleAsk DEF sendBlockReceived
<1>14. CASE getChainHead
    BY <1>14, StaleAsk DEF getChainHead
<1>15. CASE getChainBlock
    BY <1>15, StaleAsk DEF getChainBlock
<1>16. CASE HandleBlockCommit
    BY <1>16, StaleTake DEF HandleBlockCommit
<1>17. CASE cancelBlock
    BY <1>17, StaleCancel
<1> QED
    BY <1>1, <1>2, <1>3, <1>4, <1>5, <1>6, <1>7, <1>8, <1>9, <1>10, <1>11, <1>12, <1>13,
       <1>14, <1>15, <1>16, <1>17 DEF Engine

\* StaleInv over every step of the validator: a commit announces itself.
LEMMA ValidatorStale == StaleInv /\ (PeerBlock \/ Message \/ Validate \/ Commit) => StaleInv'
<1> SUFFICES ASSUME StaleInv, PeerBlock \/ Message \/ Validate \/ Commit PROVE StaleInv'
    OBVIOUS
<1>1. CASE PeerBlock \/ Message \/ Validate
    <2>1. pc' = pc /\ head' = head /\ candidate' = candidate
        BY <1>1, Zenon DEF PeerBlock, Message, Validate
    <2>2. \E e : updates' = Append(updates, e)
        BY <1>1, Zenon DEF PeerBlock, Message, Validate, Announce
    <2> QED
        BY <2>1, <2>2, StaleFrame
<1>2. CASE Commit
    <2>1. updates' = Append(updates, Update("BlockCommit", head'))
        BY <1>2, Zenon DEF Commit, Announce
    <2>2. Update("BlockCommit", head').type = "BlockCommit"
        BY DEF Update
    <2>3. (\E S : updates' \in Seq(S)) /\ CommitIn(updates')
        BY <2>1, <2>2, AddUpdate DEF StaleInv
    <2> QED
        BY <2>3 DEF StaleInv, StaleCandidateReplaced, CommitIn
<1> QED
    BY <1>1, <1>2

\* While the engine runs, a block being built on anything but the head is about
\* to be cancelled: HandleBlockCommit is at it, or the update that brings it
\* there is on its way, however many commits the validator has made meanwhile.
THEOREM StaleCandidates == Spec => []StaleCandidateReplaced
<1>1. Init => PanicInv /\ StaleInv
    <2>1. Init => \E S : updates \in Seq(S)
        BY DEF Init
    <2> QED
        BY <2>1, InitPanic DEF Init, StaleInv, StaleCandidateReplaced, Running
<1>2. PanicInv /\ StaleInv /\ [Next]_vars => (PanicInv /\ StaleInv)'
    <2>1. PanicInv /\ StaleInv /\ Next => (PanicInv /\ StaleInv)'
        BY EnginePanic, ValidatorPanic, EngineStale, ValidatorStale DEF Next
    <2>2. PanicInv /\ StaleInv /\ UNCHANGED vars => (PanicInv /\ StaleInv)'
        BY DEF vars, validator, PanicInv, NoCandidate, PanicsOnlyOnFault,
               StaleInv, StaleCandidateReplaced, Running
    <2> QED
        BY <2>1, <2>2
<1>3. StaleInv => StaleCandidateReplaced
    BY DEF StaleInv
<1> QED
    BY <1>1, <1>2, <1>3, PTL DEF Spec

-----------------------------------------------------------------------------
(* The validator's blocks and its judgement of them.                        *)

Block == [previousId : Nat, num : Nat, good : BOOLEAN]

\* A genesis block has no block before it, any other has one a level below.
Tree(b) ==
    /\ b \in [DOMAIN b -> Block]
    /\ DOMAIN b \subseteq Ids
    /\ \A id \in DOMAIN b :
          IF b[id].num = 0 THEN b[id].previousId = BLOCK_ID_NULL
          ELSE /\ b[id].previousId \in DOMAIN b
               /\ b[b[id].previousId].num = b[id].num - 1

Passed == {"valid", "ignored", "committing", "committed"}
Verdicts == Passed \cup {"new", "checking", "failed", "invalid"}

\* A block passes only if it has good consensus data and its parent passed.
Judgement(b, v) ==
    /\ v \in [DOMAIN b -> Verdicts]
    /\ \A id \in DOMAIN b :
          /\ v[id] = "checking" => b[id].good /\ b[id].num > 0
          /\ v[id] \in Passed /\ b[id].num > 0 => b[id].good /\ v[b[id].previousId] \in Passed

HasPassed(v, id) == id \in DOMAIN v /\ v[id] \in Passed
IsNew(v, id) == id \in DOMAIN v /\ v[id] = "new"

\* A block is announced once, before the engine has said anything of it, and
\* is found valid only by the checks of it and of the blocks below.
Announced(v, u) ==
    /\ \E S : u \in Seq(S)
    /\ \A i \in DOMAIN u : u[i].type = "BlockNew" => IsNew(v, u[i].content)
    /\ \A i \in DOMAIN u : u[i].type = "BlockValid" => HasPassed(v, u[i].content)
    /\ \A i, j \in DOMAIN u : /\ u[i].type = "BlockNew" /\ u[j].type = "BlockNew"
                              /\ u[i].content = u[j].content
                              => i = j

Ordered(v, c) ==
    /\ \E S : c \in Seq(S)
    /\ \A i \in DOMAIN c : HasPassed(v, c[i])

\* The block in hand: new and not announced again, or passed.
Received == {"CheckBlocks", "FailBlock"}
Weighed == {"GetBlock", "GetChainHead", "GetChainBlock", "CommitBlock", "IgnoreBlock"}

InHandOK(at, id, b, v, u) ==
    /\ at \in Received => /\ IsNew(v, id)
                          /\ \A i \in DOMAIN u : u[i].type = "BlockNew" => u[i].content # id
    /\ at = "CheckBlocks" => b[id].good /\ b[id].num > 0
    /\ at \in Weighed => HasPassed(v, id)

Builds(c, b) == c \in DOMAIN b \cup {BLOCK_ID_NULL}

JudgeInv ==
    /\ Tree(blocks)
    /\ Judgement(blocks, verdict)
    /\ Announced(verdict, updates)
    /\ Ordered(verdict, commits)
    /\ HasPassed(verdict, head)
    /\ InHandOK(pc, block, blocks, verdict, updates)
    /\ Builds(candidate, blocks)
    /\ summary \in BOOLEAN

\* A block of the initial chain is found at its own position.
LEMMA ChainIndex ==
    ASSUME NEW k \in DOMAIN Chain
    PROVE  (CHOOSE i \in DOMAIN Chain : Chain[i] = Chain[k]) = k
BY DevmodeAssumption

\* JudgeInv holds at the start, where every block has passed.
LEMMA InitJudge == Init => JudgeInv
<1> SUFFICES ASSUME Init PROVE JudgeInv
  OBVIOUS
<1> DEFINE at(id) == CHOOSE i \in DOMAIN Chain : Chain[i] = id
<1>1. Chain \in Seq(Ids) /\ Chain # <<>> /\ Ids \subseteq Nat /\ 0 \notin Ids
  BY DevmodeAssumption
<1> DEFINE B(i) == [previousId |-> IF i = 1 THEN BLOCK_ID_NULL ELSE Chain[i - 1],
                    num |-> i - 1, good |-> i > 1]
<1>2. blocks = [id \in ChainIds |-> B(at(id))]
  BY Zenon DEF Init
<1>3. ASSUME NEW k \in DOMAIN Chain PROVE at(Chain[k]) = k
  BY ChainIndex
<1> HIDE DEF at, B
<1>4. DOMAIN blocks = ChainIds
  BY <1>2
<1>5. ASSUME NEW k \in DOMAIN Chain
      PROVE  /\ Chain[k] \in DOMAIN blocks /\ blocks[Chain[k]] \in Block
             /\ blocks[Chain[k]].previousId = IF k = 1 THEN BLOCK_ID_NULL ELSE Chain[k - 1]
             /\ blocks[Chain[k]].num = k - 1
             /\ blocks[Chain[k]].good <=> k > 1
  <2> DEFINE p == IF k = 1 THEN BLOCK_ID_NULL ELSE Chain[k - 1]
             n == k - 1
             g == k > 1
  <2>1. Chain[k] \in ChainIds
    BY DEF ChainIds
  <2>2. blocks[Chain[k]] = [previousId |-> p, num |-> n, good |-> g]
    <3>1. blocks[Chain[k]] = B(k)
      BY <1>2, <1>3, <2>1
    <3> QED BY <3>1, Zenon DEF B
  <2>3. n \in Nat /\ g \in BOOLEAN /\ p \in Nat
    <3>1. k \in Nat /\ k >= 1 /\ (k # 1 => k - 1 \in DOMAIN Chain)
      BY <1>1
    <3>2. n \in Nat /\ g \in BOOLEAN
      BY <3>1
    <3>3. k # 1 => Chain[k - 1] \in Ids
      BY <1>1, <3>1
    <3>4. p \in Nat
      BY <1>1, <3>3, Zenon DEF BLOCK_ID_NULL
    <3> QED BY <3>2, <3>4
  <2> HIDE DEF p, n, g
  <2>4. /\ blocks[Chain[k]] \in Block /\ blocks[Chain[k]].previousId = p
        /\ blocks[Chain[k]].num = n /\ blocks[Chain[k]].good = g
    BY <2>2, <2>3 DEF Block
  <2> QED BY <1>4, <2>1, <2>4, Zenon DEF p, n, g
<1>6. ASSUME NEW id \in DOMAIN blocks
      PROVE  /\ id \in Ids /\ blocks[id] \in Block
             /\ IF blocks[id].num = 0 THEN blocks[id].previousId = BLOCK_ID_NULL
                ELSE /\ blocks[id].previousId \in DOMAIN blocks
                     /\ blocks[blocks[id].previousId].num = blocks[id].num - 1
             /\ blocks[id].num > 0 => blocks[id].good
  <2>1. PICK k \in DOMAIN Chain : id = Chain[k]
    BY <1>4 DEF ChainIds
  <2>2. k \in Nat /\ k >= 1 /\ (k # 1 => k - 1 \in DOMAIN Chain) /\ Chain[k] \in Ids
    BY <1>1
  <2>3. k # 1 => Chain[k - 1] \in DOMAIN blocks /\ blocks[Chain[k - 1]].num = k - 2
    BY <1>5, <2>2
  <2>4. id \in Ids /\ blocks[id] \in Block
    BY <1>5, <2>1, <2>2
  <2>5. /\ blocks[id].previousId = IF k = 1 THEN BLOCK_ID_NULL ELSE Chain[k - 1]
        /\ blocks[id].num = k - 1
        /\ blocks[id].good <=> k > 1
    BY <1>5, <2>1
  <2> QED BY <2>2, <2>3, <2>4, <2>5
<1>7. Tree(blocks)
  <2>1. blocks \in [DOMAIN blocks -> Block]
    BY <1>2, <1>4, <1>6
  <2> QED BY <1>6, <2>1 DEF Tree
<1>8. verdict = [id \in DOMAIN blocks |-> "committed"]
  BY <1>4 DEF Init
<1>9. Judgement(blocks, verdict)
  BY <1>6, <1>8 DEF Judgement, Passed, Verdicts
<1>10. HasPassed(verdict, head)
  <2>1. Len(Chain) \in DOMAIN Chain /\ head = Chain[Len(Chain)]
    BY <1>1 DEF Init
  <2> QED BY <1>5, <1>8, <2>1 DEF HasPassed, Passed
<1>11. updates = <<>> /\ commits = <<>> /\ pc = "GetSettings" /\ candidate = BLOCK_ID_NULL
       /\ summary = FALSE
  BY DEF Init
<1>12. Announced(verdict, updates) /\ Ordered(verdict, commits)
  BY <1>11 DEF Announced, Ordered
<1> QED BY <1>7, <1>9, <1>10, <1>11, <1>12, Zenon DEF JudgeInv, InHandOK, Builds, Received, Weighed

\* A step that leaves the validator's knowledge alone.
LEMMA JudgeFrame ==
    ASSUME JudgeInv, UNCHANGED <<blocks, verdict, head, commits, updates>>,
           candidate' \in {candidate, head, BLOCK_ID_NULL}, summary' \in BOOLEAN,
           pc' \notin Received \/ (pc' = pc /\ block' = block),
           pc' \notin Weighed \/ (pc \in Weighed /\ block' = block)
    PROVE  JudgeInv'
<1>1. Tree(blocks') /\ Judgement(blocks', verdict') /\ Announced(verdict', updates')
      /\ Ordered(verdict', commits') /\ HasPassed(verdict', head')
  BY DEF JudgeInv
<1>2. Builds(candidate', blocks')
  <2>1. head \in DOMAIN blocks
    BY DEF JudgeInv, HasPassed, Judgement
  <2> QED BY <2>1, Zenon DEF JudgeInv, Builds
<1>3. InHandOK(pc', block', blocks', verdict', updates')
  <2>1. InHandOK(pc, block, blocks, verdict, updates)
    BY DEF JudgeInv
  <2>2. CASE pc' \in Received
    BY <2>1, <2>2 DEF Received, Weighed, InHandOK
  <2>3. CASE pc' \in Weighed
    BY <2>1, <2>3 DEF Received, Weighed, InHandOK
  <2>4. CASE pc' \notin Received \cup Weighed
    BY <2>4, Zenon DEF Received, Weighed, InHandOK
  <2> QED BY <2>2, <2>3, <2>4
<1> QED BY <1>1, <1>2, <1>3 DEF JudgeInv

\* The queue without its first update.
LEMMA AnnouncedTail ==
    ASSUME NEW v, NEW u, Announced(v, u), u # <<>>
    PROVE  /\ Announced(v, Tail(u))
           /\ Head(u).type = "BlockNew" =>
                 /\ IsNew(v, Head(u).content)
                 /\ \A i \in DOMAIN Tail(u) : Tail(u)[i].type = "BlockNew"
                                              => Tail(u)[i].content # Head(u).content
           /\ Head(u).type = "BlockValid" => HasPassed(v, Head(u).content)
<1>1. PICK S : u \in Seq(S)
  BY DEF Announced
<1> DEFINE w == Tail(u)
<1>2. /\ w \in Seq(S) /\ Head(u) = u[1] /\ 1 \in DOMAIN u
      /\ \A i \in DOMAIN w : i \in Nat /\ i + 1 \in DOMAIN u /\ w[i] = u[i + 1] /\ i + 1 # 1
  BY <1>1
<1> HIDE DEF w
<1>3. \E T : w \in Seq(T)
  BY <1>2, Zenon
<1>4. \A i \in DOMAIN w : w[i].type = "BlockNew" => IsNew(v, w[i].content)
  BY <1>2 DEF Announced
<1>5. \A i \in DOMAIN w : w[i].type = "BlockValid" => HasPassed(v, w[i].content)
  BY <1>2 DEF Announced
<1>6. \A i, j \in DOMAIN w : /\ w[i].type = "BlockNew" /\ w[j].type = "BlockNew"
                             /\ w[i].content = w[j].content
                             => i = j
  <2> SUFFICES ASSUME NEW i \in DOMAIN w, NEW j \in DOMAIN w,
                      w[i].type = "BlockNew", w[j].type = "BlockNew",
                      w[i].content = w[j].content
               PROVE  i = j
    OBVIOUS
  <2>1. i + 1 = j + 1
    BY <1>2, Zenon DEF Announced
  <2> QED BY <1>2, <2>1
<1>7. Announced(v, w)
  BY <1>3, <1>4, <1>5, <1>6 DEF Announced
<1>8. Head(u).type = "BlockNew" =>
         /\ IsNew(v, Head(u).content)
         /\ \A i \in DOMAIN w : w[i].type = "BlockNew" => w[i].content # Head(u).content
  BY <1>2, Zenon DEF Announced
<1>9. Head(u).type = "BlockValid" => HasPassed(v, Head(u).content)
  BY <1>2, Zenon DEF Announced
<1> QED BY <1>7, <1>8, <1>9 DEF w

\* An update is taken from the queue.
LEMMA JudgeTake ==
    ASSUME JudgeInv, NEW type, NEW next, NEW id, Take(type, next, id),
           \/ next \notin Received \cup Weighed
           \/ type = "BlockNew" /\ next = "CheckBlocks" /\ block' = id
              /\ blocks[id].good /\ blocks[id].num > 0
           \/ type = "BlockNew" /\ next = "FailBlock" /\ block' = id
           \/ type = "BlockValid" /\ next = "GetBlock" /\ block' = id
    PROVE  JudgeInv'
<1>1. /\ updates # <<>> /\ Head(updates).type = type /\ Head(updates).content = id
      /\ updates' = Tail(updates) /\ pc' = next
  BY DEF Take, Update
<1>2. UNCHANGED <<blocks, verdict, head, commits, candidate, summary>>
  BY Zenon DEF Take, published
<1>3. Announced(verdict, updates)
  BY DEF JudgeInv
<1>4. /\ Announced(verdict, updates')
      /\ type = "BlockNew" =>
            /\ IsNew(verdict, id)
            /\ \A i \in DOMAIN updates' : updates'[i].type = "BlockNew"
                                          => updates'[i].content # id
      /\ type = "BlockValid" => HasPassed(verdict, id)
  BY <1>1, <1>3, AnnouncedTail, Zenon
<1>5. InHandOK(pc', block', blocks, verdict, updates')
  BY <1>1, <1>4, Zenon DEF InHandOK, Received, Weighed
<1> QED BY <1>2, <1>4, <1>5, Zenon DEF JudgeInv

\* An update is added that is not about a new or a valid block.
LEMMA AnnouncedAppend ==
    ASSUME NEW v, NEW u, Announced(v, u), NEW e,
           e.type = "BlockNew" =>
              IsNew(v, e.content) /\ \A i \in DOMAIN u : u[i].type = "BlockNew"
                                                         => u[i].content # e.content,
           e.type = "BlockValid" => HasPassed(v, e.content)
    PROVE  /\ Announced(v, Append(u, e))
           /\ \A i \in DOMAIN Append(u, e) :
                 \/ i \in DOMAIN u /\ Append(u, e)[i] = u[i]
                 \/ Append(u, e)[i] = e
<1>1. PICK S : u \in Seq(S)
  BY DEF Announced
<1> DEFINE w == Append(u, e)
<1>2. /\ w \in Seq(S \cup {e})
      /\ DOMAIN w = DOMAIN u \cup {Len(u) + 1}
      /\ \A i \in DOMAIN u : w[i] = u[i]
      /\ w[Len(u) + 1] = e
  BY <1>1, AppendFacts
<1> HIDE DEF w
<1>3. \E T : w \in Seq(T)
  BY <1>2, Zenon
<1>4. \A i \in DOMAIN w : \/ i \in DOMAIN u /\ w[i] = u[i]
                          \/ i = Len(u) + 1 /\ w[i] = e
  BY <1>2, Zenon
<1>5. Announced(v, w)
  <2>1. \A i \in DOMAIN w : w[i].type = "BlockNew" => IsNew(v, w[i].content)
    BY <1>4 DEF Announced
  <2>2. \A i \in DOMAIN w : w[i].type = "BlockValid" => HasPassed(v, w[i].content)
    BY <1>4 DEF Announced
  <2>3. \A i, j \in DOMAIN w : /\ w[i].type = "BlockNew" /\ w[j].type = "BlockNew"
                               /\ w[i].content = w[j].content
                               => i = j
    BY <1>4 DEF Announced
  <2> QED BY <1>3, <2>1, <2>2, <2>3, Zenon DEF Announced
<1> QED BY <1>4, <1>5 DEF w

\* Verdicts that change, but not those of new blocks (other than one) nor those
\* of blocks that passed.
LEMMA VerdictsMove ==
    ASSUME NEW v, NEW w, DOMAIN v \subseteq DOMAIN w,
           \A id \in DOMAIN v : v[id] \in Passed => w[id] \in Passed
    PROVE  /\ \A id : HasPassed(v, id) => HasPassed(w, id)
           /\ \A c : Ordered(v, c) => Ordered(w, c)
           /\ \A u : /\ Announced(v, u)
                     /\ \A i \in DOMAIN u : u[i].type = "BlockNew" => IsNew(w, u[i].content)
                     => Announced(w, u)
<1>1. \A id : HasPassed(v, id) => HasPassed(w, id)
  BY DEF HasPassed
<1>2. \A c : Ordered(v, c) => Ordered(w, c)
  BY <1>1, Zenon DEF Ordered
<1>3. ASSUME NEW u, Announced(v, u),
             \A i \in DOMAIN u : u[i].type = "BlockNew" => IsNew(w, u[i].content)
      PROVE  Announced(w, u)
  BY <1>1, <1>3, Zenon DEF Announced
<1> QED BY <1>1, <1>2, <1>3, Zenon

\* The verdict on a block moves on: a new block in hand is to be checked or is
\* failed, one checked is valid or not, one that passed is ignored or committed.
LEMMA Recorded ==
    ASSUME JudgeInv, NEW id \in DOMAIN verdict, NEW r, NEW v,
           v = [verdict EXCEPT ![id] = r],
           \/ /\ verdict[id] = "new"
              /\ \A i \in DOMAIN updates : updates[i].type = "BlockNew"
                                           => updates[i].content # id
              /\ r = "failed" \/ (r = "checking" /\ blocks[id].good /\ blocks[id].num > 0)
           \/ /\ verdict[id] = "checking"
              /\ r = "invalid" \/ (r = "valid" /\ verdict[blocks[id].previousId] \in Passed)
           \/ verdict[id] \in Passed /\ r \in Passed
    PROVE  /\ Judgement(blocks, v) /\ Announced(v, updates) /\ Ordered(v, commits)
           /\ \A x : HasPassed(verdict, x) => HasPassed(v, x)
           /\ verdict[id] # "new" => \A x : IsNew(verdict, x) => IsNew(v, x)
<1>1. /\ verdict \in [DOMAIN blocks -> Verdicts] /\ Tree(blocks) /\ Judgement(blocks, verdict)
      /\ Announced(verdict, updates) /\ Ordered(verdict, commits)
  BY ZenonT(30) DEF JudgeInv, Judgement
<1>2. /\ DOMAIN v = DOMAIN verdict /\ DOMAIN v = DOMAIN blocks
      /\ v[id] = r /\ r \in Verdicts /\ v \in [DOMAIN blocks -> Verdicts]
      /\ \A x \in DOMAIN v : x # id => v[x] = verdict[x]
  BY <1>1 DEF Verdicts, Passed
<1>3. \A x \in DOMAIN verdict : verdict[x] \in Passed => v[x] \in Passed
  BY <1>2 DEF Passed
<1>4. \A x : HasPassed(verdict, x) => HasPassed(v, x)
  BY <1>2, <1>3 DEF HasPassed
<1>5. Ordered(v, commits)
  BY <1>1, <1>2, <1>3, VerdictsMove, Zenon
<1>6. Announced(v, updates)
  <2>1. \A i \in DOMAIN updates : updates[i].type = "BlockNew" => IsNew(v, updates[i].content)
    <3> SUFFICES ASSUME NEW i \in DOMAIN updates, updates[i].type = "BlockNew"
                 PROVE  IsNew(v, updates[i].content)
      BY Zenon
    <3>1. IsNew(verdict, updates[i].content)
      BY <1>1 DEF Announced
    <3>2. updates[i].content # id
      BY <3>1 DEF IsNew, Passed
    <3> QED BY <1>2, <3>1, <3>2 DEF IsNew
  <2> QED BY <1>1, <1>2, <1>3, <2>1, VerdictsMove, Zenon
<1>7. Judgement(blocks, v)
  <2> SUFFICES ASSUME NEW x \in DOMAIN blocks
               PROVE  /\ v[x] = "checking" => blocks[x].good /\ blocks[x].num > 0
                      /\ v[x] \in Passed /\ blocks[x].num > 0
                         => blocks[x].good /\ v[blocks[x].previousId] \in Passed
    BY <1>2, Zenon DEF Judgement
  <2>1. /\ verdict[x] = "checking" => blocks[x].good /\ blocks[x].num > 0
        /\ verdict[x] \in Passed /\ blocks[x].num > 0
           => blocks[x].good /\ verdict[blocks[x].previousId] \in Passed
    BY <1>1 DEF Judgement
  <2>2. blocks[x].num > 0 => blocks[x].previousId \in DOMAIN blocks
    BY <1>1, SMTT(30) DEF Tree, Block
  <2>3. CASE x # id
    BY <1>2, <1>3, <2>1, <2>2, <2>3, Zenon
  <2>4. CASE x = id
    BY <1>2, <1>3, <2>1, <2>2, <2>4 DEF Passed
  <2> QED BY <2>3, <2>4
<1>8. verdict[id] # "new" => \A x : IsNew(verdict, x) => IsNew(v, x)
  BY <1>2 DEF IsNew
<1> QED BY <1>4, <1>5, <1>6, <1>7, <1>8, Zenon

\* A directive records what the engine has established of its block.
LEMMA JudgeDirective ==
    ASSUME JudgeInv, NEW call, NEW recorded, Directive(call, recorded),
           <<call, recorded>> \in {<<"CheckBlocks", "checking">>, <<"FailBlock", "failed">>,
                                   <<"CommitBlock", "committing">>, <<"IgnoreBlock", "ignored">>}
    PROVE  JudgeInv'
<1>1. /\ pc = call /\ pc' \in {"select", "panic"}
      /\ UNCHANGED <<blocks, head, candidate, updates, summary>>
  BY DEF Directive, Must, published
<1>2. \/ verdict' = verdict /\ commits' = commits
      \/ /\ verdict' = [verdict EXCEPT ![block] = recorded]
         /\ commits' = IF recorded = "committing" THEN Append(commits, block) ELSE commits
  BY DEF Directive
<1>3. InHandOK(pc', block', blocks', verdict', updates')
  BY <1>1 DEF InHandOK, Received, Weighed
<1>4. CASE verdict' = verdict /\ commits' = commits
  BY <1>1, <1>3, <1>4 DEF JudgeInv
<1>5. CASE /\ verdict' = [verdict EXCEPT ![block] = recorded]
           /\ commits' = IF recorded = "committing" THEN Append(commits, block) ELSE commits
  <2>1. InHandOK(pc, block, blocks, verdict, updates)
    BY DEF JudgeInv
  <2>2. /\ block \in DOMAIN verdict
        /\ \/ /\ verdict[block] = "new"
              /\ \A i \in DOMAIN updates : updates[i].type = "BlockNew"
                                           => updates[i].content # block
              /\ \/ recorded = "failed"
                 \/ recorded = "checking" /\ blocks[block].good /\ blocks[block].num > 0
           \/ verdict[block] \in Passed /\ recorded \in Passed
    BY <1>1, <2>1 DEF InHandOK, Received, Weighed, IsNew, HasPassed, Passed
  <2>3. /\ Judgement(blocks, verdict') /\ Announced(verdict', updates)
        /\ Ordered(verdict', commits)
        /\ \A x : HasPassed(verdict, x) => HasPassed(verdict', x)
    BY <1>5, <2>2, Recorded, Zenon
  <2>4. Ordered(verdict', commits')
    <3>1. CASE recorded # "committing"
      BY <1>5, <2>3, <3>1
    <3>2. CASE recorded = "committing"
      <4>1. HasPassed(verdict', block)
        BY <2>2, <2>3, <3>2, Zenon DEF HasPassed
      <4>2. PICK S : commits \in Seq(S)
        BY <2>3 DEF Ordered
      <4> DEFINE c == commits'
      <4>3. c = Append(commits, block)
        BY <1>5, <3>2
      <4>4. /\ c \in Seq(S \cup {block}) /\ DOMAIN c = DOMAIN commits \cup {Len(commits) + 1}
            /\ \A i \in DOMAIN commits : c[i] = commits[i]
            /\ c[Len(commits) + 1] = block
        BY <4>2, <4>3, AppendFacts
      <4> HIDE DEF c
      <4>5. \E T : c \in Seq(T)
        BY <4>4, Zenon
      <4>6. \A i \in DOMAIN c : HasPassed(verdict', c[i])
        BY <2>3, <4>1, <4>4 DEF Ordered
      <4>7. Ordered(verdict', c)
        BY <4>5, <4>6 DEF Ordered
      <4> QED BY <4>7, Zenon DEF c
    <3> QED BY <3>1, <3>2
  <2> QED BY <1>1, <1>3, <2>3, <2>4 DEF JudgeInv
<1> QED BY <1>2, <1>4, <1>5

\* A block that may join the tree, and the tree with it.
Fits(b, r) ==
    /\ r \in Block
    /\ \/ r.num = 0 /\ r.previousId = BLOCK_ID_NULL
       \/ r.previousId \in DOMAIN b /\ r.num = b[r.previousId].num + 1

Joined(b, v, id) ==
    /\ DOMAIN b = DOMAIN blocks \cup {id} /\ id \notin DOMAIN blocks
    /\ \A x \in DOMAIN blocks : b[x] = blocks[x] /\ v[x] = verdict[x]
    /\ DOMAIN v = DOMAIN b /\ v[id] = "new"

\* A new block on a known one keeps the tree a tree, and is not judged yet.
LEMMA NewBlock ==
    ASSUME Tree(blocks), Judgement(blocks, verdict), NEW id \in Free, NEW r, Fits(blocks, r),
           NEW b, b = With(blocks, id, r), NEW v, v = With(verdict, id, "new")
    PROVE  Tree(b) /\ Judgement(b, v) /\ Joined(b, v, id)
<1>1. id \in Ids /\ id \notin DOMAIN blocks /\ DOMAIN verdict = DOMAIN blocks
  BY DEF Free, Judgement
<1>2. /\ DOMAIN b = DOMAIN blocks \cup {id} /\ b[id] = r
      /\ b = [x \in DOMAIN b |-> b[x]]
      /\ \A x \in DOMAIN blocks : b[x] = blocks[x]
  BY <1>1 DEF With
<1>3. /\ DOMAIN v = DOMAIN blocks \cup {id} /\ v[id] = "new"
      /\ v = [x \in DOMAIN v |-> v[x]]
      /\ \A x \in DOMAIN blocks : v[x] = verdict[x]
  BY <1>1, Zenon DEF With
<1>4. Tree(b)
  <2>1. \A x \in DOMAIN b : b[x] \in Block /\ x \in Ids
    BY <1>1, <1>2 DEF Tree, Fits
  <2>2. b \in [DOMAIN b -> Block]
    BY <1>2, <2>1, Zenon
  <2>3. ASSUME NEW x \in DOMAIN b
        PROVE  IF b[x].num = 0 THEN b[x].previousId = BLOCK_ID_NULL
               ELSE b[x].previousId \in DOMAIN b /\ b[b[x].previousId].num = b[x].num - 1
    <3>1. CASE x # id
      BY <1>2, <3>1 DEF Tree
    <3>2. CASE x = id
      <4>1. r.previousId \in DOMAIN blocks => blocks[r.previousId].num \in Nat
        BY DEF Tree, Block
      <4> QED BY <1>2, <3>2, <4>1 DEF Fits
    <3> QED BY <3>1, <3>2
  <2> QED BY <2>1, <2>2, <2>3, Zenon DEF Tree
<1>5. Judgement(b, v)
  <2>1. v \in [DOMAIN b -> Verdicts]
    BY <1>2, <1>3, Zenon DEF Judgement, Verdicts
  <2>2. ASSUME NEW x \in DOMAIN b
        PROVE  /\ v[x] = "checking" => b[x].good /\ b[x].num > 0
               /\ v[x] \in Passed /\ b[x].num > 0 => b[x].good /\ v[b[x].previousId] \in Passed
    <3>1. CASE x # id
      <4>1. x \in DOMAIN blocks /\ b[x] = blocks[x] /\ v[x] = verdict[x]
        BY <1>2, <1>3, <3>1
      <4>2. b[x].num > 0 => b[x].previousId \in DOMAIN blocks
        BY <4>1 DEF Tree, Block
      <4> QED BY <1>3, <4>1, <4>2 DEF Judgement
    <3>2. CASE x = id
      BY <1>3, <3>2, SMTT(30) DEF Passed
    <3> QED BY <3>1, <3>2
  <2> QED BY <2>1, <2>2 DEF Judgement
<1> QED BY <1>1, <1>2, <1>3, <1>4, <1>5 DEF Joined

\* JudgeInv over a step that adds a block and announces it.
LEMMA JudgeNewBlock ==
    ASSUME JudgeInv, NEW id \in Free, NEW r, Fits(blocks, r),
           blocks' = With(blocks, id, r), verdict' = With(verdict, id, "new"),
           updates' = Append(updates, Update("BlockNew", id)),
           UNCHANGED <<head, commits>>, candidate' \in {candidate, BLOCK_ID_NULL},
           summary' \in BOOLEAN,
           pc' \notin Received \cup Weighed \/ (pc' = pc /\ block' = block)
    PROVE  JudgeInv'
<1>1. /\ Tree(blocks) /\ Judgement(blocks, verdict) /\ Announced(verdict, updates)
      /\ Ordered(verdict, commits) /\ HasPassed(verdict, head)
      /\ InHandOK(pc, block, blocks, verdict, updates) /\ Builds(candidate, blocks)
  BY DEF JudgeInv
<1> DEFINE b == blocks'
           v == verdict'
<1>2. /\ Tree(b) /\ Judgement(b, v)
      /\ DOMAIN b = DOMAIN blocks \cup {id} /\ id \notin DOMAIN blocks
      /\ \A x \in DOMAIN blocks : b[x] = blocks[x] /\ v[x] = verdict[x]
      /\ DOMAIN v = DOMAIN b /\ v[id] = "new"
  <2>1. b = With(blocks, id, r) /\ v = With(verdict, id, "new")
    OBVIOUS
  <2> HIDE DEF b, v
  <2>2. Tree(b) /\ Judgement(b, v) /\ Joined(b, v, id)
    BY <1>1, <2>1, NewBlock
  <2> QED BY <2>2 DEF Joined
<1>3. DOMAIN verdict = DOMAIN blocks
  BY <1>1, Zenon DEF Judgement
<1>4. /\ \A x : HasPassed(verdict, x) => HasPassed(verdict', x)
      /\ \A x : IsNew(verdict, x) => IsNew(verdict', x) /\ x # id
  BY <1>2, <1>3, Zenon DEF HasPassed, IsNew
<1>5. Ordered(verdict', commits') /\ HasPassed(verdict', head') /\ Builds(candidate', blocks')
  BY <1>1, <1>2, <1>4, Zenon DEF Ordered, Builds
<1>6. /\ Announced(verdict', updates')
      /\ \A i \in DOMAIN updates' : \/ i \in DOMAIN updates /\ updates'[i] = updates[i]
                                    \/ updates'[i].content = id
  <2> DEFINE e == Update("BlockNew", id)
  <2>1. e.type = "BlockNew" /\ e.content = id
    BY SMTT(30) DEF Update
  <2> HIDE DEF e
  <2>2. \A i \in DOMAIN updates : updates[i].type = "BlockNew"
                => IsNew(verdict', updates[i].content) /\ updates[i].content # id
    BY <1>1, <1>4, Zenon DEF Announced
  <2>3. Announced(verdict', updates)
    BY <1>1, <1>4, <2>2, Zenon DEF Announced
  <2>4. IsNew(verdict', id)
    BY <1>2 DEF IsNew
  <2>5. updates' = Append(updates, e)
    BY DEF e
  <2> QED BY <2>1, <2>2, <2>3, <2>4, <2>5, AnnouncedAppend
<1>7. InHandOK(pc', block', blocks', verdict', updates')
  <2>1. CASE pc' \notin Received \cup Weighed
    BY <2>1, Zenon DEF InHandOK, Received, Weighed
  <2>2. CASE pc' = pc /\ block' = block
    <3>1. pc \in Received => block \in DOMAIN blocks /\ block # id
      BY <1>1, <1>2, <1>3, Zenon DEF InHandOK, IsNew
    <3>2. pc \in Received =>
             /\ IsNew(verdict', block)
             /\ \A i \in DOMAIN updates' : updates'[i].type = "BlockNew"
                                           => updates'[i].content # block
      BY <1>1, <1>4, <1>6, <3>1, ZenonT(30) DEF InHandOK
    <3>3. pc = "CheckBlocks" => blocks'[block].good /\ blocks'[block].num > 0
      BY <1>1, <1>2, <3>1, Zenon DEF InHandOK, Received
    <3>4. pc \in Weighed => HasPassed(verdict', block)
      BY <1>1, <1>4 DEF InHandOK
    <3> QED BY <2>2, <3>2, <3>3, <3>4, Zenon DEF InHandOK
  <2> QED BY <2>1, <2>2
<1> QED BY <1>2, <1>5, <1>6, <1>7, Zenon DEF JudgeInv

\* JudgeInv over finalizeBlock, which may add the engine's own block.
LEMMA FinalizeJudge == JudgeInv /\ finalizeBlock => JudgeInv'
<1> SUFFICES ASSUME JudgeInv, finalizeBlock PROVE JudgeInv'
  OBVIOUS
<1>1. pc' \in {"FinalizeBlock", "Broadcast"} /\ summary' \in {summary, FALSE}
  BY Zenon DEF finalizeBlock, NotReady, published
<1>2. summary' \in BOOLEAN /\ pc' \notin Received \cup Weighed
  BY <1>1, Zenon DEF JudgeInv, Received, Weighed
<1>3. CASE UNCHANGED validator
  BY <1>2, <1>3, JudgeFrame DEF validator
<1>4. CASE ~UNCHANGED validator
  <2>1. PICK id \in Free : candidate # BLOCK_ID_NULL /\ Signed(id)
    BY <1>4 DEF finalizeBlock, NotReady
  <2> DEFINE r == [previousId |-> candidate, num |-> blocks[candidate].num + 1,
                   good |-> summary]
  <2>2. candidate \in DOMAIN blocks /\ summary \in BOOLEAN
    BY <2>1 DEF JudgeInv, Builds
  <2>3. blocks[candidate] \in Block /\ candidate \in Nat
    BY <2>2, DevmodeAssumption DEF JudgeInv, Tree
  <2>4. blocks[candidate].num + 1 \in Nat
    BY <2>3 DEF Block
  <2>5. r \in Block
    BY <2>2, <2>3, <2>4, Zenon DEF Block
  <2>6. Fits(blocks, r)
    BY <2>2, <2>5 DEF Fits
  <2>7. /\ blocks' = With(blocks, id, r) /\ verdict' = With(verdict, id, "new")
        /\ updates' = Append(updates, Update("BlockNew", id))
        /\ UNCHANGED <<head, commits>> /\ candidate' = BLOCK_ID_NULL
    BY <2>1, Zenon DEF Signed
  <2> HIDE DEF r
  <2> QED BY <1>2, <2>6, <2>7, JudgeNewBlock
<1> QED BY <1>3, <1>4

\* The wrappers that panic on an error: what pc becomes.
LEMMA AskPc ==
    ASSUME NEW STATE step, NEW call, NEW STATE next, Ask(step, call, next)
    PROVE  /\ pc = step /\ pc' \in {next, "panic"}
           /\ UNCHANGED <<blocks, verdict, head, candidate, commits, updates, summary>>
BY Zenon DEF Ask, Must, published, validator

\* Going from one call to the next with the same block in hand, or none.
LEMMA JudgeAsk ==
    ASSUME JudgeInv, NEW STATE step, NEW call, NEW STATE next, Ask(step, call, next),
           next \notin Received \cup Weighed
           \/ (step \in Weighed /\ next \in Weighed /\ block' = block)
    PROVE  JudgeInv'
<1>1. /\ pc = step /\ pc' \in {next, "panic"} /\ summary' = summary
      /\ UNCHANGED <<blocks, verdict, head, candidate, commits, updates>>
  BY AskPc
<1>2. \A x \in Weighed : x \notin Received
  BY DEF Weighed, Received
<1>3. "panic" \notin Received \cup Weighed
  BY DEF Weighed, Received
<1>4. summary' \in BOOLEAN
  BY <1>1 DEF JudgeInv
<1> QED BY <1>1, <1>2, <1>3, <1>4, JudgeFrame, ZenonT(30)

\* JudgeInv over every step of the engine.
LEMMA EngineJudge == JudgeInv /\ Engine => JudgeInv'
<1> SUFFICES ASSUME JudgeInv, Engine PROVE JudgeInv'
  OBVIOUS
<1> DEFINE same == UNCHANGED <<blocks, verdict, head, commits, updates>>
<1>0. /\ summary \in BOOLEAN
      /\ {"select", "panic", "panicInvalidMessage", "GetSettings", "InitializeBlock",
          "SummarizeBlock", "FinalizeBlock", "Broadcast", "SendAck", "CancelBlock"}
           \cap (Received \cup Weighed) = {}
  BY DEF JudgeInv, Received, Weighed
<1>1. CASE startWait
  <2>1. same /\ candidate' = candidate /\ summary' = summary /\ pc' = "InitializeBlock"
    BY <1>1, Zenon DEF startWait, validator
  <2> QED BY <1>0, <2>1, JudgeFrame
<1>2. CASE initializeBlock
  <2>1. same /\ candidate' \in {candidate, head} /\ summary' = summary /\ pc' \in {"select", "panic"}
    BY <1>2 DEF initializeBlock, Must, published
  <2> QED BY <1>0, <2>1, JudgeFrame
<1>3. CASE timerExpires
  <2>1. same /\ candidate' = candidate /\ summary' = summary /\ pc' = "SummarizeBlock"
    BY <1>3, Zenon DEF timerExpires, validator, published
  <2> QED BY <1>0, <2>1, JudgeFrame
<1>4. CASE summarizeBlock
  <2>1. same /\ candidate' = candidate /\ pc' \in {"SummarizeBlock", "FinalizeBlock"}
    BY <1>4, Zenon DEF summarizeBlock, NotReady, validator
  <2>2. summary' \in BOOLEAN
    BY <1>0, <1>4, Zenon DEF summarizeBlock, NotReady, published
  <2> QED BY <1>0, <2>1, <2>2, JudgeFrame
<1>5. CASE finalizeBlock
  BY <1>5, FinalizeJudge
<1>6. CASE broadcastPublishedBlock
  <2>1. same /\ candidate' = candidate /\ summary' = summary
    BY <1>6, Zenon DEF broadcastPublishedBlock, validator
  <2>2. pc' \in {"select", "panic"}
    BY <1>6 DEF broadcastPublishedBlock, Must
  <2> QED BY <1>0, <2>1, <2>2, JudgeFrame
<1>7. CASE ignoreUpdate
  BY <1>0, <1>7, JudgeTake DEF ignoreUpdate
<1>8. CASE HandlePeerMessage
  BY <1>0, <1>8, JudgeTake DEF HandlePeerMessage
<1>9. CASE sendBlockAck
  BY <1>0, <1>9, JudgeAsk DEF sendBlockAck
<1>10. CASE HandleBlockNew
  <2>1. PICK id \in DOMAIN blocks :
           \/ Take("BlockNew", "select", id)
           \/ /\ blocks[id].previousId # BLOCK_ID_NULL /\ block' = id
              /\ Take("BlockNew", IF checkConsensus(id) THEN "CheckBlocks" ELSE "FailBlock", id)
    BY <1>10, Zenon DEF HandleBlockNew, InHand
  <2>2. CASE Take("BlockNew", "select", id)
    BY <1>0, <2>2, JudgeTake
  <2>3. CASE /\ blocks[id].previousId # BLOCK_ID_NULL /\ block' = id
             /\ Take("BlockNew", IF checkConsensus(id) THEN "CheckBlocks" ELSE "FailBlock", id)
    <3>1. blocks[id].num > 0
      BY <2>3 DEF JudgeInv, Tree, Block
    <3>2. CASE checkConsensus(id)
      <4>1. Take("BlockNew", "CheckBlocks", id) /\ blocks[id].good
        BY <2>3, <3>2 DEF checkConsensus
      <4> QED BY <2>3, <3>1, <4>1, JudgeTake
    <3>3. CASE ~checkConsensus(id)
      <4>1. Take("BlockNew", "FailBlock", id)
        BY <2>3, <3>3
      <4> QED BY <2>3, <4>1, JudgeTake
    <3> QED BY <3>2, <3>3
  <2> QED BY <2>1, <2>2, <2>3
<1>11. CASE checkBlock \/ failBlock \/ commitBlock \/ ignoreBlock
  BY <1>11, JudgeDirective DEF checkBlock, failBlock, commitBlock, ignoreBlock
<1>12. CASE HandleBlockValid
  <2>1. PICK id : Take("BlockValid", "GetBlock", id) /\ block' = id
    BY <1>12, Zenon DEF HandleBlockValid, InHand
  <2> QED BY <2>1, JudgeTake
<1>13. CASE sendBlockReceived
  <2>1. PICK call : Ask("GetBlock", call, "GetChainHead") /\ block' = block
    BY <1>13, Zenon DEF sendBlockReceived, handled
  <2> QED BY <2>1, JudgeAsk DEF Weighed
<1>14. CASE getChainHead
  <2>1. Compared(head) \in {"CommitBlock", "GetChainBlock", "IgnoreBlock"}
    BY DEF Compared
  <2>2. Ask("GetChainHead", "GetChainHead", Compared(head)) /\ block' = block
    BY <1>14, Zenon DEF getChainHead
  <2>3. Compared(head) \in Weighed /\ "GetChainHead" \in Weighed
    BY <2>1 DEF Weighed
  <2> QED BY <2>2, <2>3, JudgeAsk
<1>15. CASE getChainBlock
  <2> DEFINE next == Walked(blocks[chainBlock].previousId)
  <2>1. next \in {"CommitBlock", "GetChainBlock", "IgnoreBlock"}
    BY DEF Walked
  <2>2. Ask("GetChainBlock", "GetBlocks", next) /\ block' = block
    BY <1>15, Zenon DEF getChainBlock
  <2>3. next \in Weighed /\ "GetChainBlock" \in Weighed
    BY <2>1 DEF Weighed
  <2> HIDE DEF next
  <2> QED BY <2>2, <2>3, JudgeAsk
<1>16. CASE HandleBlockCommit
  BY <1>0, <1>16, JudgeTake DEF HandleBlockCommit
<1>17. CASE cancelBlock
  <2>1. same /\ candidate' \in {candidate, BLOCK_ID_NULL} /\ summary' = summary
        /\ pc' \in {"GetSettings", "panic"}
    BY <1>17 DEF cancelBlock, published
  <2> QED BY <1>0, <2>1, JudgeFrame
<1> QED
  BY <1>1, <1>2, <1>3, <1>4, <1>5, <1>6, <1>7, <1>8, <1>9, <1>10, <1>11, <1>12, <1>13,
     <1>14, <1>15, <1>16, <1>17, Zenon DEF Engine

\* JudgeInv over the arrival of a block of a peer.
LEMMA PeerJudge == JudgeInv /\ PeerBlock => JudgeInv'
<1> SUFFICES ASSUME JudgeInv, PeerBlock PROVE JudgeInv'
  OBVIOUS
<1> DEFINE R(p, g) == [previousId |-> p, good |-> g,
                       num |-> IF p = BLOCK_ID_NULL THEN 0 ELSE blocks[p].num + 1]
<1>1. PICK id \in Free, good \in BOOLEAN, previous \in DOMAIN blocks \cup {BLOCK_ID_NULL} :
         /\ blocks' = With(blocks, id, R(previous, good))
         /\ verdict' = With(verdict, id, "new")
         /\ updates' = Append(updates, Update("BlockNew", id))
  BY Zenon DEF PeerBlock, Announce
<1>2. UNCHANGED <<pc, block, summary, head, candidate, commits>>
  BY Zenon DEF PeerBlock, handled, published
<1>3. Fits(blocks, R(previous, good))
  <2>1. CASE previous = BLOCK_ID_NULL
    BY <2>1, ZenonT(30) DEF Fits, Block, BLOCK_ID_NULL
  <2>2. CASE previous # BLOCK_ID_NULL
    <3>1. previous \in DOMAIN blocks
      BY <2>2
    <3>2. blocks[previous] \in Block /\ previous \in Nat
      BY <3>1, DevmodeAssumption DEF JudgeInv, Tree
    <3>3. blocks[previous].num + 1 \in Nat
      BY <3>2 DEF Block
    <3> QED BY <2>2, <3>1, <3>2, <3>3 DEF Fits, Block
  <2> QED BY <2>1, <2>2
<1>4. summary' \in BOOLEAN
  BY <1>2, Zenon DEF JudgeInv
<1> HIDE DEF R
<1> QED BY <1>1, <1>2, <1>3, <1>4, JudgeNewBlock

\* The block in hand as verdicts and updates about other blocks come in.
LEMMA HandFrame ==
    ASSUME InHandOK(pc, block, blocks, verdict, updates), NEW v, NEW u,
           \A x : HasPassed(verdict, x) => HasPassed(v, x),
           \A x : IsNew(verdict, x) => IsNew(v, x),
           \A i \in DOMAIN u : \/ i \in DOMAIN updates /\ u[i] = updates[i]
                               \/ u[i].type # "BlockNew"
    PROVE  InHandOK(pc, block, blocks, v, u)
BY DEF InHandOK

\* JudgeInv over the arrival of a message of a peer.
LEMMA MessageJudge == JudgeInv /\ Message => JudgeInv'
<1> SUFFICES ASSUME JudgeInv, Message PROVE JudgeInv'
  OBVIOUS
<1>1. PICK type : updates' = Append(updates, Update("PeerMessage", type))
  BY Zenon DEF Message, Announce
<1>2. UNCHANGED <<pc, block, summary, blocks, verdict, head, candidate, commits>>
  BY Zenon DEF Message, handled, published
<1> DEFINE e == Update("PeerMessage", type)
           u == updates'
<1>3. e.type \notin {"BlockNew", "BlockValid"} /\ u = Append(updates, e)
  BY <1>1 DEF Update
<1> HIDE DEF e, u
<1>4. Announced(verdict, updates) /\ InHandOK(pc, block, blocks, verdict, updates)
  BY ZenonT(30) DEF JudgeInv
<1>5. /\ Announced(verdict, u)
      /\ \A i \in DOMAIN u : \/ i \in DOMAIN updates /\ u[i] = updates[i]
                             \/ u[i] = e
  BY <1>3, <1>4, AnnouncedAppend
<1>6. InHandOK(pc, block, blocks, verdict, u)
  BY <1>3, <1>4, <1>5, HandFrame, Zenon
<1> QED BY <1>2, <1>5, <1>6 DEF JudgeInv, u

\* JudgeInv over the validation of a block the engine has checked.
LEMMA ValidateJudge == JudgeInv /\ Validate => JudgeInv'
<1> SUFFICES ASSUME JudgeInv, Validate PROVE JudgeInv'
  OBVIOUS
<1> DEFINE E(id, result) == Update(IF result = "valid" THEN "BlockValid" ELSE "BlockInvalid", id)
<1>1. PICK id \in DOMAIN blocks, result \in {"valid", "invalid"} :
         /\ verdict[id] = "checking"
         /\ verdict[blocks[id].previousId] \notin {"new", "checking"}
         /\ verdict[blocks[id].previousId] \in Rejected => result = "invalid"
         /\ verdict' = [verdict EXCEPT ![id] = result]
         /\ updates' = Append(updates, E(id, result))
  BY Zenon DEF Validate, Announce
<1>2. UNCHANGED <<pc, block, summary, blocks, head, candidate, commits>>
  BY Zenon DEF Validate, handled, published
<1> DEFINE e == E(id, result)
           u == updates'
           v == verdict'
<1>3. /\ e.type = (IF result = "valid" THEN "BlockValid" ELSE "BlockInvalid") /\ e.content = id
      /\ u = Append(updates, e)
  BY <1>1 DEF Update
<1>4. v = [verdict EXCEPT ![id] = result]
  BY <1>1
<1> HIDE DEF e, u, v, E
<1>5. /\ Announced(verdict, updates) /\ InHandOK(pc, block, blocks, verdict, updates)
      /\ Judgement(blocks, verdict) /\ Tree(blocks) /\ HasPassed(verdict, head)
  BY DEF JudgeInv
<1>6. id \in DOMAIN verdict /\ (result = "valid" => verdict[blocks[id].previousId] \in Passed)
  <2>1. blocks[id].num > 0
    BY <1>1, <1>5 DEF Judgement
  <2>2. blocks[id].previousId \in DOMAIN blocks
    BY <1>5, <2>1, SMTT(30) DEF Tree, Block
  <2>3. verdict[blocks[id].previousId] \in Verdicts /\ id \in DOMAIN verdict
    BY <1>5, <2>2 DEF Judgement
  <2> QED BY <1>1, <2>3, Zenon DEF Verdicts, Rejected
<1>7. /\ Judgement(blocks, v) /\ Announced(v, updates) /\ Ordered(v, commits)
      /\ \A x : HasPassed(verdict, x) => HasPassed(v, x)
      /\ \A x : IsNew(verdict, x) => IsNew(v, x)
  BY <1>1, <1>4, <1>6, Recorded, Zenon
<1>8. result = "valid" => HasPassed(v, id)
  BY <1>4, <1>6, Zenon DEF HasPassed, Passed
<1>9. /\ Announced(v, u)
      /\ \A i \in DOMAIN u : \/ i \in DOMAIN updates /\ u[i] = updates[i]
                             \/ u[i] = e
  BY <1>3, <1>7, <1>8, AnnouncedAppend
<1>10. InHandOK(pc, block, blocks, v, u)
  BY <1>3, <1>5, <1>7, <1>9, HandFrame, Zenon
<1> QED BY <1>2, <1>5, <1>7, <1>9, <1>10 DEF JudgeInv, u, v

\* JudgeInv over a commit: the new head has passed.
LEMMA CommitJudge == JudgeInv /\ Commit => JudgeInv'
<1> SUFFICES ASSUME JudgeInv, Commit PROVE JudgeInv'
  OBVIOUS
<1> DEFINE id == Head(commits)
           e == Update("BlockCommit", id)
           u == updates'
           v == verdict'
<1>1. /\ commits # <<>> /\ head' = id /\ commits' = Tail(commits)
      /\ v = [verdict EXCEPT ![id] = "committed"] /\ u = Append(updates, e)
      /\ candidate' \in {candidate, BLOCK_ID_NULL}
  BY Zenon DEF Commit, Announce
<1>2. UNCHANGED <<pc, block, summary, blocks>>
  BY Zenon DEF Commit, handled, published
<1>3. e.type \notin {"BlockNew", "BlockValid"}
  BY DEF Update
<1>4. /\ Announced(verdict, updates) /\ InHandOK(pc, block, blocks, verdict, updates)
      /\ Ordered(verdict, commits) /\ Tree(blocks) /\ Builds(candidate, blocks)
      /\ summary \in BOOLEAN
  BY DEF JudgeInv
<1>5. PICK S : commits \in Seq(S)
  BY <1>4 DEF Ordered
<1>6. /\ Tail(commits) \in Seq(S) /\ 1 \in DOMAIN commits /\ id = commits[1]
      /\ \A i \in DOMAIN Tail(commits) : i + 1 \in DOMAIN commits /\ Tail(commits)[i] = commits[i + 1]
  BY <1>1, <1>5
<1>7. id \in DOMAIN verdict /\ verdict[id] \in Passed
  BY <1>4, <1>6 DEF Ordered, HasPassed
<1> HIDE DEF e, u, v, id
<1>8. /\ Judgement(blocks, v) /\ Announced(v, updates) /\ Ordered(v, commits)
      /\ \A x : HasPassed(verdict, x) => HasPassed(v, x)
      /\ \A x : IsNew(verdict, x) => IsNew(v, x)
  <2>1. "committed" \in Passed /\ verdict[id] # "new"
    BY <1>7 DEF Passed
  <2> QED BY <1>1, <1>7, <2>1, Recorded, ZenonT(30)
<1>9. Ordered(v, commits')
  <2>1. \E T : Tail(commits) \in Seq(T)
    BY <1>6, Zenon
  <2>2. \A i \in DOMAIN Tail(commits) : HasPassed(v, Tail(commits)[i])
    BY <1>6, <1>8 DEF Ordered
  <2>3. Ordered(v, Tail(commits))
    BY <2>1, <2>2 DEF Ordered
  <2> QED BY <1>1, <2>3
<1>10. HasPassed(v, head')
  BY <1>1, <1>7, <1>8, Zenon DEF HasPassed
<1>11. /\ Announced(v, u)
       /\ \A i \in DOMAIN u : \/ i \in DOMAIN updates /\ u[i] = updates[i]
                              \/ u[i] = e
  BY <1>1, <1>3, <1>8, AnnouncedAppend, SMTT(30)
<1>12. InHandOK(pc, block, blocks, v, u)
  BY <1>3, <1>4, <1>8, <1>11, HandFrame, Zenon
<1>13. Builds(candidate', blocks)
  BY <1>1, <1>4 DEF Builds
<1> QED BY <1>2, <1>4, <1>8, <1>9, <1>10, <1>11, <1>12, <1>13 DEF JudgeInv, u, v

\* JudgeInv holds in every reachable state.
LEMMA JudgeInvariant == Spec => []JudgeInv
<1>1. JudgeInv /\ [Next]_vars => JudgeInv'
  <2>1. JudgeInv /\ Next => JudgeInv'
    BY EngineJudge, PeerJudge, MessageJudge, ValidateJudge, CommitJudge, Zenon DEF Next
  <2>2. JudgeInv /\ UNCHANGED vars => JudgeInv'
    BY Zenon DEF vars, handled, published, validator, JudgeInv
  <2> QED BY <2>1, <2>2
<1> QED BY <1>1, InitJudge, PTL DEF Spec

\* Every block of the validator's chain above the first has the consensus data
\* that checkConsensus asks for: a block is validated only after the engine has
\* checked it, and only on a block that passed, so all below the head passed.
THEOREM ChainsPassCheck == Spec => []ChainPassesCheck
<1>1. JudgeInv => ChainPassesCheck
  <2> SUFFICES ASSUME JudgeInv, NEW id \in Ancestors(head), blocks[id].num > 0
               PROVE  blocks[id].good
    BY Zenon DEF ChainPassesCheck
  <2> DEFINE S == {x \in DOMAIN blocks : verdict[x] \in Passed}
  <2>1. Judgement(blocks, verdict) /\ Tree(blocks) /\ HasPassed(verdict, head)
    BY DEF JudgeInv
  <2>2. head \in S
    BY <2>1, Zenon DEF HasPassed, Judgement
  <2>3. Closed(S)
    <3> SUFFICES ASSUME NEW x \in S, blocks[x].num > 0 PROVE blocks[x].previousId \in S
      BY DEF Closed
    <3>1. blocks[x].previousId \in DOMAIN blocks
      BY <2>1 DEF Tree, Block
    <3> QED BY <2>1, <3>1 DEF Judgement
  <2>4. id \in S
    BY <2>2, <2>3 DEF Ancestors
  <2> QED BY <2>1, <2>4 DEF Judgement
<1> QED BY <1>1, JudgeInvariant, PTL

-----------------------------------------------------------------------------
(* OwnBlockPasses.                                                          *)

\* Without a fault there is a summary for the block about to be finalized, or
\* the block is gone; and what is announced is a block the validator knows.
OwnInv ==
    /\ pc = "FinalizeBlock" /\ ~faulty => summary = TRUE \/ candidate = BLOCK_ID_NULL
    /\ pc = "Broadcast" /\ newBlockId # BLOCK_ID_NULL =>
          newBlockId \in DOMAIN blocks /\ (~faulty => blocks[newBlockId].good)

\* Of the replies the validator gives a candidate, only OK is no error of FinalizeBlock.
LEMMA FinalizeErrors ==
    ASSUME NEW status \in {"OK", "INVALID_STATE", "SERVICE_ERROR", "lost"}
    PROVE  ServiceError("FinalizeBlock", status) = NoError => status = "OK"
<1>1. TypedStatuses("FinalizeBlock") = {"INVALID_STATE", "BLOCK_NOT_READY"}
  BY DEF TypedStatuses, PeerCalls, CandidateCalls
<1> QED BY <1>1 DEF ServiceError, ErrorTypes, NoError

\* A fault is never forgotten.
LEMMA FaultsStay ==
    ASSUME NEW expected, NEW status, Charge(expected, status)
    PROVE  \/ status = expected /\ faulty' = faulty
           \/ status # expected /\ faulty' = TRUE
BY DEF Charge

\* OwnInv over summarizeBlock.
LEMMA SummarizeOwn == summarizeBlock /\ OwnInv => OwnInv'
<1> SUFFICES ASSUME summarizeBlock, OwnInv PROVE OwnInv'
  OBVIOUS
<1> DEFINE expected == IF candidate = BLOCK_ID_NULL THEN "INVALID_STATE" ELSE "OK"
<1>1. pc' \in {"SummarizeBlock", "FinalizeBlock"}
  BY Zenon DEF summarizeBlock, NotReady
<1>2. ASSUME pc' = "FinalizeBlock", ~faulty'
      PROVE  summary' = TRUE \/ candidate' = BLOCK_ID_NULL
  <2>1. pc = "SummarizeBlock"
    BY Zenon DEF summarizeBlock, NotReady
  <2>2. PICK status :
           /\ Charge(expected, status)
           /\ summary' = (ServiceError("SummarizeBlock", status) = NoError)
           /\ UNCHANGED validator
    BY <1>2, <2>1 DEF summarizeBlock, NotReady
  <2>3. status = expected
    BY <1>2, <2>2, FaultsStay, Zenon
  <2>4. candidate' = candidate
    BY <2>2, Zenon DEF validator
  <2>5. expected = "OK" => summary' = TRUE
    BY <2>2, <2>3, Zenon DEF ServiceError
  <2> QED BY <2>4, <2>5
<1> QED BY <1>1, <1>2, Zenon DEF OwnInv

\* The id that finalizeBlock returns is of the block that the validator signed
\* over the summary.
LEMMA FinalizeOwn == JudgeInv /\ OwnInv /\ finalizeBlock => OwnInv'
<1> SUFFICES ASSUME JudgeInv, OwnInv, finalizeBlock PROVE OwnInv'
  OBVIOUS
<1> DEFINE expected == IF candidate = BLOCK_ID_NULL THEN "INVALID_STATE" ELSE "OK"
<1>1. CASE NotReady("FinalizeBlock")
  <2>1. /\ pc = "FinalizeBlock" /\ pc' = pc /\ faulty' = faulty /\ summary' = summary
        /\ candidate' = candidate
    BY <1>1, Zenon DEF NotReady, published, validator
  <2> QED BY <2>1 DEF OwnInv
<1>2. CASE ~NotReady("FinalizeBlock")
  <2>1. PICK status \in Replies(expected), id \in Free :
           /\ pc = "FinalizeBlock"
           /\ Charge(expected, status)
           /\ \/ expected = "OK" /\ status \in {"OK", "lost"} /\ Signed(id)
              \/ status # "OK" /\ UNCHANGED validator
           /\ newBlockId' = IF ServiceError("FinalizeBlock", status) = NoError
                            THEN id ELSE BLOCK_ID_NULL
           /\ pc' = "Broadcast"
    BY <1>2, Zenon DEF finalizeBlock
  <2>2. ASSUME newBlockId' # BLOCK_ID_NULL
        PROVE  newBlockId' \in DOMAIN blocks' /\ (~faulty' => blocks'[newBlockId'].good)
    <3>1. status \in {"OK", "INVALID_STATE", "SERVICE_ERROR", "lost"}
      BY <2>1 DEF Replies
    <3>2. status = "OK" /\ newBlockId' = id
      BY <2>1, <2>2, <3>1, FinalizeErrors
    <3>3. candidate # BLOCK_ID_NULL /\ Signed(id)
      BY <2>1, <3>2
    <3>4. id \in DOMAIN blocks' /\ blocks'[id].good = summary
      BY <3>3 DEF Signed, With
    <3>5. ~faulty' => summary = TRUE
      <4>1. faulty' = faulty
        BY <2>1, <3>2, <3>3, FaultsStay, Zenon
      <4> QED BY <2>1, <3>3, <4>1 DEF OwnInv
    <3> QED BY <3>2, <3>4, <3>5
  <2> QED BY <2>1, <2>2 DEF OwnInv
<1> QED BY <1>1, <1>2

\* Elsewhere the engine is not at either call.
LEMMA EngineOwn == JudgeInv /\ OwnInv /\ Engine => OwnInv'
<1> SUFFICES ASSUME JudgeInv, OwnInv, Engine PROVE OwnInv'
  OBVIOUS
<1>1. CASE summarizeBlock
  BY <1>1, SummarizeOwn
<1>2. CASE finalizeBlock
  BY <1>2, FinalizeOwn
<1>3. CASE ~summarizeBlock /\ ~finalizeBlock
  <2>1. pc' \notin {"FinalizeBlock", "Broadcast"}
    <3>1. CASE startWait \/ timerExpires \/ cancelBlock
      BY <3>1, Zenon DEF startWait, timerExpires, cancelBlock
    <3>2. CASE initializeBlock \/ broadcastPublishedBlock \/ sendBlockAck
      BY <3>2, ZenonT(30) DEF initializeBlock, broadcastPublishedBlock, sendBlockAck, Ask, Must
    <3>3. CASE ignoreUpdate \/ HandlePeerMessage \/ HandleBlockNew \/ HandleBlockValid
               \/ HandleBlockCommit
      BY <3>3, ZenonT(30) DEF ignoreUpdate, HandlePeerMessage, HandleBlockNew, HandleBlockValid,
                  HandleBlockCommit, Take
    <3>4. CASE checkBlock \/ failBlock \/ commitBlock \/ ignoreBlock
      BY <3>4 DEF checkBlock, failBlock, commitBlock, ignoreBlock, Directive, Must
    <3>5. CASE sendBlockReceived \/ getChainHead \/ getChainBlock
      BY <3>5, AskPc DEF sendBlockReceived, getChainHead, getChainBlock, Compared, Walked
    <3> QED BY <1>3, <3>1, <3>2, <3>3, <3>4, <3>5, Zenon DEF Engine
  <2> QED BY <2>1 DEF OwnInv
<1> QED BY <1>1, <1>2, <1>3

\* What the validator does between the calls: blocks come, none changes.
LEMMA ValidatorMoves ==
    ASSUME PeerBlock \/ Message \/ Validate \/ Commit
    PROVE  /\ UNCHANGED <<pc, handled, published, faulty>>
           /\ candidate' \in {candidate, BLOCK_ID_NULL}
           /\ \/ blocks' = blocks
              \/ \E id \in Free : \E r : blocks' = With(blocks, id, r)
<1>1. UNCHANGED <<pc, handled, published, faulty>> /\ candidate' \in {candidate, BLOCK_ID_NULL}
  BY Zenon DEF PeerBlock, Message, Validate, Commit
<1>2. \/ blocks' = blocks
      \/ \E id \in Free : \E r : blocks' = With(blocks, id, r)
  BY Zenon DEF PeerBlock, Message, Validate, Commit
<1> QED BY <1>1, <1>2

\* OwnInv over every step of the validator.
LEMMA ValidatorOwn == OwnInv /\ (PeerBlock \/ Message \/ Validate \/ Commit) => OwnInv'
<1> SUFFICES ASSUME OwnInv, PeerBlock \/ Message \/ Validate \/ Commit PROVE OwnInv'
  OBVIOUS
<1>1. /\ UNCHANGED <<pc, summary, newBlockId, faulty>>
      /\ candidate' \in {candidate, BLOCK_ID_NULL}
  BY ValidatorMoves DEF published
<1>2. \A x \in DOMAIN blocks : x \in DOMAIN blocks' /\ blocks'[x] = blocks[x]
  BY ValidatorMoves, Zenon DEF With, Free
<1> QED BY <1>1, <1>2 DEF OwnInv

\* OwnInv holds in every reachable state.
LEMMA OwnInvariant == Spec => []OwnInv
<1>1. Init => OwnInv
  BY DEF Init, OwnInv
<1>2. JudgeInv /\ OwnInv /\ [Next]_vars => OwnInv'
  <2>1. JudgeInv /\ OwnInv /\ Next => OwnInv'
    BY EngineOwn, ValidatorOwn, Zenon DEF Next
  <2>2. OwnInv /\ UNCHANGED vars => OwnInv'
    BY DEF vars, published, validator, OwnInv
  <2> QED BY <2>1, <2>2
<1> QED BY <1>1, <1>2, JudgeInvariant, PTL DEF Spec

\* As long as no call has failed, the block the engine announces has the
\* consensus data its own check asks for.
THEOREM OwnBlocksPass == Spec => []OwnBlockPasses
<1>1. OwnInv => OwnBlockPasses
  BY DEF OwnInv, OwnBlockPasses, checkConsensus
<1> QED BY <1>1, OwnInvariant, PTL

-----------------------------------------------------------------------------
(* ForkChoice.                                                              *)

\* Ancestors and Better over a tree b.
ClosedIn(b, S) == \A x \in S : b[x].num > 0 => b[x].previousId \in S

Below(b, id) ==
    {a \in DOMAIN b : \A S \in SUBSET DOMAIN b : id \in S /\ ClosedIn(b, S) => a \in S}

BetterIn(b, id, h) ==
    \/ b[id].num > b[h].num
    \/ \E a \in Below(b, h) : b[a].num = b[id].num /\ id > a

\* The ancestors of a block are in every closed set that holds the block.
LEMMA BelowLeast ==
    ASSUME NEW b, NEW id, NEW S \in SUBSET DOMAIN b, id \in S, ClosedIn(b, S)
    PROVE  Below(b, id) \subseteq S
BY DEF Below

\* The ancestors of a block form a closed set that holds the block.
LEMMA BelowClosed ==
    ASSUME NEW b, Tree(b), NEW id \in DOMAIN b
    PROVE  /\ id \in Below(b, id)
           /\ \A x \in Below(b, id) : x \in DOMAIN b
           /\ \A x \in Below(b, id) : b[x].num > 0 => b[x].previousId \in Below(b, id)
<1>1. id \in Below(b, id)
  BY DEF Below
<1>2. ASSUME NEW x \in Below(b, id), b[x].num > 0
      PROVE  b[x].previousId \in Below(b, id)
  <2>1. x \in DOMAIN b
    BY DEF Below
  <2>2. b[x].previousId \in DOMAIN b
    BY <1>2, <2>1 DEF Tree, Block
  <2>3. ASSUME NEW S \in SUBSET DOMAIN b, id \in S, ClosedIn(b, S)
        PROVE  b[x].previousId \in S
    <3>1. x \in S
      BY <2>3 DEF Below
    <3> QED BY <1>2, <2>3, <3>1 DEF ClosedIn
  <2> QED BY <2>2, <2>3 DEF Below
<1>3. \A x \in Below(b, id) : x \in DOMAIN b
  BY DEF Below
<1> QED BY <1>1, <1>2, <1>3

\* Below a block are the block itself and what is below the one before it.
LEMMA BelowNext ==
    ASSUME NEW b, Tree(b), NEW id \in DOMAIN b, b[id].num > 0
    PROVE  /\ b[id].previousId \in DOMAIN b
           /\ b[b[id].previousId].num = b[id].num - 1
           /\ \A a \in Below(b, id) : a = id \/ a \in Below(b, b[id].previousId)
<1> DEFINE p == b[id].previousId
           S == {id} \cup Below(b, p)
<1>1. p \in DOMAIN b /\ b[p].num = b[id].num - 1
  BY SMTT(30) DEF Tree, Block
<1> HIDE DEF p
<1>2. /\ p \in Below(b, p)
      /\ \A x \in Below(b, p) : x \in DOMAIN b
      /\ \A x \in Below(b, p) : b[x].num > 0 => b[x].previousId \in Below(b, p)
  BY <1>1, BelowClosed, SMTT(30)
<1>3. S \in SUBSET DOMAIN b /\ id \in S
  BY <1>2, Zenon
<1>4. ClosedIn(b, S)
  BY <1>2 DEF ClosedIn, p
<1>5. Below(b, id) \subseteq S
  <2> HIDE DEF S
  <2> QED BY <1>3, <1>4, BelowLeast
<1> QED BY <1>1, <1>5 DEF p

\* and they are lower.
LEMMA BelowLower ==
    ASSUME NEW b, Tree(b), NEW id \in DOMAIN b
    PROVE  \A a \in Below(b, id) : a = id \/ b[a].num < b[id].num
<1> DEFINE S == {x \in DOMAIN b : x = id \/ b[x].num < b[id].num}
<1>1. \A x \in DOMAIN b : b[x].num \in Nat
  BY DEF Tree, Block
<1>2. ClosedIn(b, S)
  <2> SUFFICES ASSUME NEW x \in S, b[x].num > 0 PROVE b[x].previousId \in S
    BY DEF ClosedIn
  <2>1. b[x].previousId \in DOMAIN b /\ b[b[x].previousId].num = b[x].num - 1
    BY <1>1 DEF Tree
  <2>2. b[b[x].previousId].num < b[id].num
    BY <1>1, <2>1
  <2> QED BY <2>1, <2>2, Zenon
<1>3. S \in SUBSET DOMAIN b /\ id \in S
  OBVIOUS
<1>4. Below(b, id) \subseteq S
  <2> HIDE DEF S
  <2> QED BY <1>2, <1>3, BelowLeast
<1> QED BY <1>4

\* New blocks change nothing below the blocks that were there.
LEMMA BelowStays ==
    ASSUME NEW b, Tree(b), NEW d, DOMAIN b \subseteq DOMAIN d,
           \A x \in DOMAIN b : d[x] = b[x], NEW id \in DOMAIN b
    PROVE  Below(d, id) = Below(b, id)
<1>1. ClosedIn(b, DOMAIN b)
  BY DEF ClosedIn, Tree, Block
<1>2. ASSUME NEW S \in SUBSET DOMAIN b PROVE ClosedIn(d, S) <=> ClosedIn(b, S)
  BY DEF ClosedIn
<1>3. ASSUME NEW a \in Below(d, id) PROVE a \in Below(b, id)
  <2>1. a \in DOMAIN b
    <3>1. DOMAIN b \in SUBSET DOMAIN d /\ ClosedIn(d, DOMAIN b)
      BY <1>1, <1>2
    <3> QED BY <3>1 DEF Below
  <2>2. ASSUME NEW S \in SUBSET DOMAIN b, id \in S, ClosedIn(b, S) PROVE a \in S
    <3>1. S \in SUBSET DOMAIN d /\ ClosedIn(d, S)
      BY <1>2, <2>2
    <3> QED BY <2>2, <3>1 DEF Below
  <2> QED BY <2>1, <2>2 DEF Below
<1>4. ASSUME NEW a \in Below(b, id) PROVE a \in Below(d, id)
  <2>1. a \in DOMAIN d
    BY DEF Below
  <2>2. ASSUME NEW S \in SUBSET DOMAIN d, id \in S, ClosedIn(d, S) PROVE a \in S
    <3> DEFINE T == S \cap DOMAIN b
    <3>1. T \in SUBSET DOMAIN b /\ id \in T
      BY <2>2
    <3>2. ClosedIn(b, T)
      BY <1>1, <2>2 DEF ClosedIn
    <3>3. a \in T
      <4> HIDE DEF T
      <4> QED BY <3>1, <3>2, Zenon DEF Below
    <3> QED BY <3>3
  <2> QED BY <2>1, <2>2 DEF Below
<1> QED BY <1>3, <1>4

\* The walk from h down to the height of id has come to c: what is below h is
\* above c, or below it.
Walking(b, id, h, c) ==
    /\ c \in DOMAIN b
    /\ c \in Below(b, h)
    /\ \A a \in Below(b, h) : b[a].num > b[c].num \/ a \in Below(b, c)
    /\ b[id].num < b[c].num

\* Where getChainHead sends the fork choice: into the walk, or to the comparison of the ids.
LEMMA WalkStarts ==
    ASSUME NEW b, Tree(b), NEW id \in DOMAIN b, NEW h \in DOMAIN b
    PROVE  /\ b[id].num < b[h].num => Walking(b, id, h, h)
           /\ b[id].num = b[h].num => (BetterIn(b, id, h) <=> id > h)
<1>1. h \in Below(b, h)
  BY BelowClosed
<1>2. \A a \in Below(b, h) : a = h \/ b[a].num < b[h].num
  BY BelowLower
<1>3. b[id].num \in Nat /\ b[h].num \in Nat /\ \A a \in Below(b, h) : b[a].num \in Nat
  BY DEF Tree, Block, Below
<1>4. b[id].num < b[h].num => Walking(b, id, h, h)
  BY <1>1 DEF Walking
<1>5. ASSUME b[id].num = b[h].num PROVE BetterIn(b, id, h) <=> id > h
  <2>1. ~(b[id].num > b[h].num)
    BY <1>3, <1>5
  <2>2. \A a \in Below(b, h) : b[a].num = b[id].num => a = h
    BY <1>2, <1>3, <1>5, SMTT(30)
  <2> QED BY <1>1, <1>5, <2>1, <2>2 DEF BetterIn
<1> QED BY <1>4, <1>5, Zenon

\* Where getChainBlock sends the fork choice from the block under the one at hand.
LEMMA WalkGoesOn ==
    ASSUME NEW b, Tree(b), NEW id \in DOMAIN b, NEW h \in DOMAIN b, NEW c,
           Walking(b, id, h, c), NEW p, p = b[c].previousId
    PROVE  /\ b[p].num # b[id].num => Walking(b, id, h, p)
           /\ b[p].num = b[id].num => (BetterIn(b, id, h) <=> id > p)
<1>1. /\ c \in DOMAIN b /\ c \in Below(b, h) /\ b[id].num < b[c].num
      /\ \A a \in Below(b, h) : b[a].num > b[c].num \/ a \in Below(b, c)
  BY DEF Walking
<1>2. \A x \in DOMAIN b : b[x].num \in Nat
  BY DEF Tree, Block
<1>3. b[c].num > 0
  BY <1>1, <1>2, SMTT(30)
<1>4. /\ p \in DOMAIN b /\ b[p].num = b[c].num - 1
      /\ \A a \in Below(b, c) : a = c \/ a \in Below(b, p)
  BY <1>1, <1>3, BelowNext, Zenon
<1>5. /\ p \in Below(b, h)
      /\ \A a \in Below(b, h) : a \in DOMAIN b
  BY <1>1, <1>3, BelowClosed, Zenon
<1>6. \A a \in Below(b, h) : b[a].num > b[p].num \/ a \in Below(b, p)
  BY <1>1, <1>2, <1>4, <1>5, SMTT(30)
<1>7. b[p].num # b[id].num => Walking(b, id, h, p)
  <2>1. b[p].num # b[id].num => b[id].num < b[p].num
    BY <1>1, <1>2, <1>4, SMTT(30)
  <2> QED BY <1>4, <1>5, <1>6, <2>1, Zenon DEF Walking
<1>8. ASSUME b[p].num = b[id].num PROVE BetterIn(b, id, h) <=> id > p
  <2>1. ~(b[id].num > b[h].num)
    <3>1. p = h \/ b[p].num < b[h].num
      BY <1>5, BelowLower, Zenon
    <3> QED BY <1>2, <1>4, <1>8, <3>1, SMTT(30)
  <2>2. \A a \in Below(b, p) : a = p \/ b[a].num < b[p].num
    BY <1>4, BelowLower, Zenon
  <2>3. \A a \in Below(b, h) : b[a].num = b[id].num => a = p
    BY <1>2, <1>4, <1>5, <1>6, <1>8, <2>2
  <2> QED BY <1>5, <1>8, <2>1, <2>3, Zenon DEF BetterIn
<1> QED BY <1>7, <1>8, ZenonT(30)

\* The comparison is right when it is made, and new blocks do not change it.
Choice(at, b, id, h, c) ==
    /\ at \in {"GetChainBlock", "CommitBlock", "IgnoreBlock"} => id \in DOMAIN b /\ h \in DOMAIN b
    /\ at = "GetChainBlock" => Walking(b, id, h, c)
    /\ at = "CommitBlock" => BetterIn(b, id, h)
    /\ at = "IgnoreBlock" => ~BetterIn(b, id, h)

WalkInv == Choice(pc, blocks, block, chainHead, chainBlock)

\* What the fork choice has established stays true when blocks are added.
LEMMA ChoiceStays ==
    ASSUME NEW at, NEW b, Tree(b), NEW d, DOMAIN b \subseteq DOMAIN d,
           \A x \in DOMAIN b : d[x] = b[x], NEW id, NEW h, NEW c, Choice(at, b, id, h, c)
    PROVE  Choice(at, d, id, h, c)
<1>1. CASE at \notin {"GetChainBlock", "CommitBlock", "IgnoreBlock"}
  BY <1>1 DEF Choice
<1>2. CASE at \in {"GetChainBlock", "CommitBlock", "IgnoreBlock"}
  <2>1. id \in DOMAIN b /\ h \in DOMAIN b
    BY <1>2, Zenon DEF Choice
  <2>2. Below(d, h) = Below(b, h) /\ \A x \in Below(b, h) : x \in DOMAIN b
    BY <2>1, BelowStays, BelowClosed, ZenonT(30)
  <2>3. BetterIn(d, id, h) <=> BetterIn(b, id, h)
    BY <2>1, <2>2, Zenon DEF BetterIn
  <2>4. ASSUME Walking(b, id, h, c) PROVE Walking(d, id, h, c)
    <3>1. c \in DOMAIN b
      BY <2>4 DEF Walking
    <3>2. Below(d, c) = Below(b, c)
      BY <3>1, BelowStays
    <3> QED BY <2>1, <2>2, <2>4, <3>1, <3>2, Zenon DEF Walking
  <2> QED BY <1>2, <2>1, <2>3, <2>4, Zenon DEF Choice
<1> QED BY <1>1, <1>2, Zenon

\* WalkInv over getChainHead.
LEMMA HeadWalk == JudgeInv /\ getChainHead => WalkInv'
<1> SUFFICES ASSUME JudgeInv, getChainHead PROVE WalkInv'
  OBVIOUS
<1>1. /\ pc = "GetChainHead" /\ pc' \in {Compared(head), "panic"} /\ blocks' = blocks
      /\ block' = block /\ chainHead' = head /\ chainBlock' = head
  BY AskPc, SMTT(30) DEF getChainHead
<1>2. Tree(blocks) /\ block \in DOMAIN blocks /\ head \in DOMAIN blocks
  BY <1>1, Zenon DEF JudgeInv, Judgement, HasPassed, InHandOK, Weighed
<1>3. CASE pc' = "panic"
  BY <1>3 DEF WalkInv, Choice
<1>4. CASE pc' = Compared(head)
  <2> DEFINE n == blocks[block].num
             m == blocks[head].num
  <2>1. n \in Nat /\ m \in Nat
    BY <1>2 DEF Tree, Block
  <2>2. pc' = IF n > m \/ (n = m /\ block > head) THEN "CommitBlock"
              ELSE IF n < m THEN "GetChainBlock" ELSE "IgnoreBlock"
    BY <1>4, Zenon DEF Compared
  <2>3. /\ n < m => Walking(blocks, block, head, head)
        /\ n = m => (BetterIn(blocks, block, head) <=> block > head)
    BY <1>2, WalkStarts
  <2>4. n > m => BetterIn(blocks, block, head)
    BY DEF BetterIn
  <2> HIDE DEF n, m
  <2>5. Choice(pc', blocks, block, head, head)
    BY <1>2, <2>1, <2>2, <2>3, <2>4 DEF Choice
  <2> QED BY <1>1, <2>5 DEF WalkInv
<1> QED BY <1>1, <1>3, <1>4

\* WalkInv over getChainBlock.
LEMMA BlockWalk == JudgeInv /\ WalkInv /\ getChainBlock => WalkInv'
<1> SUFFICES ASSUME JudgeInv, WalkInv, getChainBlock PROVE WalkInv'
  OBVIOUS
<1> DEFINE p == blocks[chainBlock].previousId
<1>1. /\ pc = "GetChainBlock" /\ pc' \in {Walked(p), "panic"} /\ blocks' = blocks
      /\ block' = block /\ chainHead' = chainHead /\ chainBlock' = p
  BY AskPc DEF getChainBlock
<1>2. /\ Tree(blocks) /\ block \in DOMAIN blocks /\ chainHead \in DOMAIN blocks
      /\ Walking(blocks, block, chainHead, chainBlock)
  BY <1>1 DEF JudgeInv, WalkInv, Choice
<1>3. CASE pc' = "panic"
  BY <1>3 DEF WalkInv, Choice
<1>4. CASE pc' = Walked(p)
  <2>1. /\ blocks[p].num # blocks[block].num => Walking(blocks, block, chainHead, p)
        /\ blocks[p].num = blocks[block].num =>
              (BetterIn(blocks, block, chainHead) <=> block > p)
    BY <1>2, WalkGoesOn
  <2> HIDE DEF p
  <2>2. pc' = IF blocks[p].num # blocks[block].num THEN "GetChainBlock"
              ELSE IF block > p THEN "CommitBlock" ELSE "IgnoreBlock"
    BY <1>4 DEF Walked
  <2>3. Choice(pc', blocks, block, chainHead, p)
    BY <1>2, <2>1, <2>2 DEF Choice
  <2> QED BY <1>1, <2>3, ZenonT(30) DEF WalkInv
<1> QED BY <1>1, <1>3, <1>4

\* WalkInv over every step of the engine.
LEMMA EngineWalk == JudgeInv /\ WalkInv /\ Engine => WalkInv'
<1> SUFFICES ASSUME JudgeInv, WalkInv, Engine PROVE WalkInv'
  OBVIOUS
<1>1. CASE getChainHead
  BY <1>1, HeadWalk, Zenon
<1>2. CASE getChainBlock
  BY <1>2, BlockWalk
<1>3. CASE ~getChainHead /\ ~getChainBlock
  <2>1. pc' \notin {"GetChainBlock", "CommitBlock", "IgnoreBlock"}
    <3>1. CASE startWait \/ timerExpires \/ cancelBlock \/ summarizeBlock \/ finalizeBlock
      BY <3>1, Zenon DEF startWait, timerExpires, cancelBlock, summarizeBlock, finalizeBlock,
                         NotReady
    <3>2. CASE initializeBlock \/ broadcastPublishedBlock \/ sendBlockAck
      BY <3>2, Zenon DEF initializeBlock, broadcastPublishedBlock, sendBlockAck, Ask, Must
    <3>3. CASE ignoreUpdate \/ HandlePeerMessage \/ HandleBlockNew \/ HandleBlockValid
               \/ HandleBlockCommit
      BY <3>3, ZenonT(30) DEF ignoreUpdate, HandlePeerMessage, HandleBlockNew, HandleBlockValid,
                  HandleBlockCommit, Take
    <3>4. CASE checkBlock \/ failBlock \/ commitBlock \/ ignoreBlock
      BY <3>4 DEF checkBlock, failBlock, commitBlock, ignoreBlock, Directive, Must
    <3>5. CASE sendBlockReceived
      BY <3>5, AskPc DEF sendBlockReceived
    <3> QED BY <1>3, <3>1, <3>2, <3>3, <3>4, <3>5, Zenon DEF Engine
  <2> QED BY <2>1 DEF WalkInv, Choice
<1> QED BY <1>1, <1>2, <1>3

\* WalkInv over every step of the validator: blocks are only added.
LEMMA ValidatorWalk ==
    JudgeInv /\ WalkInv /\ (PeerBlock \/ Message \/ Validate \/ Commit) => WalkInv'
<1> SUFFICES ASSUME JudgeInv, WalkInv, PeerBlock \/ Message \/ Validate \/ Commit
             PROVE  WalkInv'
  OBVIOUS
<1>1. UNCHANGED <<pc, block, chainHead, chainBlock>>
  BY ValidatorMoves DEF handled
<1> DEFINE d == blocks'
<1>2. DOMAIN blocks \subseteq DOMAIN d /\ \A x \in DOMAIN blocks : d[x] = blocks[x]
  BY ValidatorMoves, Zenon DEF With, Free
<1> HIDE DEF d
<1>3. Tree(blocks) /\ Choice(pc, blocks, block, chainHead, chainBlock)
  BY DEF JudgeInv, WalkInv
<1>4. Choice(pc, d, block, chainHead, chainBlock)
  BY <1>2, <1>3, ChoiceStays, SMTT(30)
<1> QED BY <1>1, <1>4 DEF WalkInv, d

\* HandleBlockValid chooses as the fork rule does, for any tree of blocks, any
\* length of the walk and whatever blocks and heads come while it goes on.
THEOREM ForkChoiceRight == Spec => []ForkChoice
<1>1. Init => WalkInv
  BY DEF Init, WalkInv, Choice
<1>2. JudgeInv /\ WalkInv /\ [Next]_vars => WalkInv'
  <2>1. JudgeInv /\ WalkInv /\ Next => WalkInv'
    BY EngineWalk, ValidatorWalk, Zenon DEF Next
  <2>2. WalkInv /\ UNCHANGED vars => WalkInv'
    BY DEF vars, handled, validator, WalkInv
  <2> QED BY <2>1, <2>2
<1>3. WalkInv => ForkChoice
  <2>1. \A id : Ancestors(id) = Below(blocks, id)
    BY Zenon DEF Ancestors, Below, Closed, ClosedIn
  <2>2. Better(block, chainHead) <=> BetterIn(blocks, block, chainHead)
    BY <2>1, Zenon DEF Better, BetterIn
  <2> QED BY <2>2 DEF WalkInv, Choice, ForkChoice
<1> QED BY <1>1, <1>2, <1>3, JudgeInvariant, PTL DEF Spec
=============================================================================
