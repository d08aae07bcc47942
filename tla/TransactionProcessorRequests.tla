-------------------- MODULE TransactionProcessorRequests --------------------
(* Requests: AnsweredAtMostOnce, IsRequestService and                       *)
(* DeniedOnlyWhenOccupied, for any workers, requests and bounds.            *)
EXTENDS TransactionProcessorTypes

(* Where a request is, and what each action does to that.                   *)

Req(r)  == Msg("TP_PROCESS_REQUEST", r)
Resp(r) == Msg("TP_PROCESS_RESPONSE", r)

InPipe(r)      == Has(toProcessor, Req(r))
InQueue(r)     == Has(queue, r)
AtWorker(r, w) == job[w] = r
InOutbox(r, w) == Has(outbox[w], Resp(r))

\* r is at most once in each sequence.
Single(r) ==
    /\ Once(toProcessor, Req(r)) /\ Once(queue, r)
    /\ \A w \in Workers : Once(outbox[w], Resp(r))

\* r is in one of the places, or answered, and neither before it was sent.
Apart(r) ==
    /\ answers[r] \in {0, 1}
    /\ InPipe(r) => ~InQueue(r) /\ answers[r] = 0 /\ r \in sent
    /\ InQueue(r) => answers[r] = 0 /\ r \in sent
    /\ answers[r] = 1 => r \in sent
    /\ \A w \in Workers : AtWorker(r, w) \/ InOutbox(r, w) =>
          ~InPipe(r) /\ ~InQueue(r) /\ answers[r] = 0 /\ r \in sent
    /\ \A v, w \in Workers :
          /\ AtWorker(r, v) /\ AtWorker(r, w) => v = w
          /\ InOutbox(r, v) /\ InOutbox(r, w) => v = w
          /\ ~(AtWorker(r, v) /\ InOutbox(r, w))

\* Only a worker inside Apply() has a request.
JobHeld == \A w \in Workers : worker[w] \notin {"apply", "recv"} => job[w] = NoJob

RequestInv == JobHeld /\ \A r \in Requests : Single(r) /\ Apart(r)

SamePipe(r)    == InPipe(r)' <=> InPipe(r)
SameQueue(r)   == InQueue(r)' <=> InQueue(r)
SameWorkers(r) == \A w \in Workers : AtWorker(r, w)' <=> AtWorker(r, w)
SameOutbox(r)  == \A w \in Workers : InOutbox(r, w)' <=> InOutbox(r, w)
SameCount(r)   == answers'[r] = answers[r]
Same(r) == SamePipe(r) /\ SameQueue(r) /\ SameWorkers(r) /\ SameOutbox(r) /\ SameCount(r)

\* A step that moves none of the requests.
LEMMA KeptFrame ==
    ASSUME NEW r, Apart(r), Same(r), r \in sent => r \in sent'
    PROVE  Apart(r)'
BY Zenon DEF Apart, Same, SamePipe, SameQueue, SameWorkers, SameOutbox, SameCount

\* What leaves a variable alone leaves the requests in it.
LEMMA SameVars ==
    ASSUME NEW r
    PROVE  /\ UNCHANGED toProcessor => SamePipe(r)
           /\ UNCHANGED queue => SameQueue(r)
           /\ UNCHANGED job => SameWorkers(r)
           /\ UNCHANGED outbox => SameOutbox(r)
           /\ UNCHANGED answers => SameCount(r)
BY Zenon DEF SamePipe, SameQueue, SameWorkers, SameOutbox, SameCount,
             InPipe, InQueue, AtWorker, InOutbox

requestVars == <<toProcessor, queue, job, outbox, answers, sent, worker>>

\* A step that touches none of the variables.
LEMMA RequestFrame == RequestInv /\ UNCHANGED requestVars => RequestInv'
<1> SUFFICES ASSUME RequestInv, UNCHANGED requestVars PROVE RequestInv'
    OBVIOUS
<1>1. JobHeld'
  BY Zenon DEF RequestInv, JobHeld, requestVars
<1>2. ASSUME NEW r \in Requests PROVE Single(r)' /\ Apart(r)'
  <2>1. Single(r)'
    BY Zenon DEF RequestInv, Single, requestVars
  <2>2. Same(r)
    BY SameVars DEF requestVars, Same
  <2> QED BY <2>1, <2>2, KeptFrame DEF RequestInv, requestVars
<1> QED BY <1>1, <1>2 DEF RequestInv

\* At the start no request is anywhere.
LEMMA InitRequests == Init => RequestInv
<1> SUFFICES ASSUME Init PROVE RequestInv
    OBVIOUS
<1>1. JobHeld
  BY DEF Init, JobHeld
<1>2. ASSUME NEW r \in Requests PROVE Single(r) /\ Apart(r)
  <2>1. Single(r)
    BY HasEmpty DEF Init, Single
  <2>2. /\ ~InPipe(r) /\ ~InQueue(r) /\ answers[r] = 0
        /\ \A w \in Workers : ~AtWorker(r, w) /\ ~InOutbox(r, w)
    BY HasEmpty, ConstantsAssumption
    DEF Init, InPipe, InQueue, AtWorker, InOutbox, NoJob, ConstantsAssumption
  <2> QED BY <2>1, <2>2 DEF Apart
<1> QED BY <1>1, <1>2 DEF RequestInv

\* Start() begins with nothing.
LEMMA StartRequests ==
    ASSUME Start
    PROVE  /\ RequestInv'
           /\ \A r \in Requests :
                 /\ ~InPipe(r)' /\ ~InQueue(r)' /\ answers'[r] = 0
                 /\ \A w \in Workers : ~AtWorker(r, w)' /\ ~InOutbox(r, w)'
<1>1. JobHeld'
  BY DEF Start, JobHeld
<1>2. ASSUME NEW r \in Requests
      PROVE  /\ ~InPipe(r)' /\ ~InQueue(r)' /\ answers'[r] = 0
             /\ \A w \in Workers : ~AtWorker(r, w)' /\ ~InOutbox(r, w)'
  BY HasEmpty, ConstantsAssumption
  DEF Start, InPipe, InQueue, AtWorker, InOutbox, NoJob, ConstantsAssumption
<1>3. ASSUME NEW r \in Requests PROVE Single(r)' /\ Apart(r)'
  <2>1. Single(r)'
    BY HasEmpty DEF Start, Single
  <2> QED BY <1>2, <2>1 DEF Apart
<1> QED BY <1>1, <1>2, <1>3 DEF RequestInv

\* The requests the processor holds, and the effect of a step on them.
Held(r) ==
    InPipe(r) \/ InQueue(r) \/ \E w \in Workers : AtWorker(r, w) \/ InOutbox(r, w)

KeepsBut(q) == \A r \in Requests \ {q} : (Held(r)' <=> Held(r)) /\ SameCount(r)
KeepsAll    == \A r \in Requests : (Held(r)' <=> Held(r)) /\ SameCount(r)
AnswersOne  == \E q \in Requests :
                  /\ Held(q) /\ ~Held(q)' /\ answers'[q] = answers[q] + 1
                  /\ KeepsBut(q)

\* A step that moves a request nowhere leaves it held, and its answers counted.
LEMMA SameHeld == ASSUME NEW r, Same(r) PROVE (Held(r)' <=> Held(r)) /\ SameCount(r)
BY Zenon DEF Held, Same, SamePipe, SameQueue, SameWorkers, SameOutbox, SameCount

\* Which message of the validator is request r ...
LEMMA ReqIs ==
    ASSUME NEW m \in ValidatorMessages, NEW r
    PROVE  Req(r) = m <=> m.type = "TP_PROCESS_REQUEST" /\ m.id = r
BY DEF Req, Msg, ValidatorMessages

\* ... and which message of a worker answers it.
LEMMA RespIs ==
    ASSUME NEW m \in WorkerMessages, NEW r
    PROVE  Resp(r) = m <=> m.type = "TP_PROCESS_RESPONSE" /\ m.id = r
BY DEF Resp, Msg, WorkerMessages

\* The validator's pipe is read.
LEMMA PipeRead ==
    ASSUME TypeOK, toProcessor # <<>>, toProcessor' = Tail(toProcessor),
           NEW r, Single(r)
    PROVE  /\ Head(toProcessor) \in ValidatorMessages
           /\ Once(toProcessor', Req(r))
           /\ InPipe(r)' <=> InPipe(r) /\ Req(r) # Head(toProcessor)
           /\ Req(r) = Head(toProcessor) => InPipe(r)
<1>1. toProcessor \in Seq(ValidatorMessages)
  BY DEF TypeOK, TypeOKValidator
<1>2. Head(toProcessor) \in ValidatorMessages
  BY <1>1, HeadTailProperties
<1>3. /\ Has(Tail(toProcessor), Req(r)) <=> Has(toProcessor, Req(r)) /\ Req(r) # Head(toProcessor)
      /\ Req(r) = Head(toProcessor) => Has(toProcessor, Req(r))
      /\ Once(Tail(toProcessor), Req(r))
  BY <1>1, HasTail DEF Single
<1>4. InPipe(r)' <=> Has(Tail(toProcessor), Req(r))
  BY Zenon DEF InPipe, Req, Msg
<1> QED BY <1>2, <1>3, <1>4 DEF InPipe

\* The validator's pipe is written.
LEMMA PipeWritten ==
    ASSUME TypeOK, NEW m \in ValidatorMessages, ValidatorSend(m), NEW r, Single(r)
    PROVE  /\ InPipe(r)' <=> InPipe(r) \/ Req(r) = m
           /\ (Req(r) = m => ~InPipe(r)) => Once(toProcessor', Req(r))
<1>1. toProcessor \in Seq(ValidatorMessages) /\ toProcessor' = Append(toProcessor, m)
  BY DEF TypeOK, TypeOKValidator, ValidatorSend
<1>2. /\ Has(Append(toProcessor, m), Req(r)) <=> Has(toProcessor, Req(r)) \/ Req(r) = m
      /\ (Req(r) = m => ~Has(toProcessor, Req(r))) => Once(Append(toProcessor, m), Req(r))
  BY <1>1, HasAppend DEF Single
<1>3. InPipe(r)' <=> Has(Append(toProcessor, m), Req(r))
  BY <1>1, Zenon DEF InPipe, Req, Msg
<1> QED BY <1>1, <1>2, <1>3 DEF InPipe

\* The work queue is written.
LEMMA QueueWritten ==
    ASSUME TypeOK, NEW STATE x, x \in MessageIds, queue' = Append(queue, x),
           NEW r, Single(r)
    PROVE  /\ InQueue(r)' <=> InQueue(r) \/ r = x
           /\ (r = x => ~InQueue(r)) => Once(queue', r)
<1>1. queue \in Seq(MessageIds)
  BY DEF TypeOK, TypeOKRouter
<1>2. /\ Has(Append(queue, x), r) <=> Has(queue, r) \/ r = x
      /\ (r = x => ~Has(queue, r)) => Once(Append(queue, x), r)
  BY <1>1, HasAppend DEF Single
<1>3. InQueue(r)' <=> Has(Append(queue, x), r)
  BY Zenon DEF InQueue
<1> QED BY <1>2, <1>3 DEF InQueue

\* The work queue is read.
LEMMA QueueRead ==
    ASSUME TypeOK, queue # <<>>, queue' = Tail(queue), NEW r, Single(r)
    PROVE  /\ Once(queue', r)
           /\ InQueue(r)' <=> InQueue(r) /\ r # Head(queue)
           /\ r = Head(queue) => InQueue(r)
<1>1. queue \in Seq(MessageIds)
  BY DEF TypeOK, TypeOKRouter
<1>2. /\ Has(Tail(queue), r) <=> Has(queue, r) /\ r # Head(queue)
      /\ r = Head(queue) => Has(queue, r)
      /\ Once(Tail(queue), r)
  BY <1>1, HasTail DEF Single
<1>3. InQueue(r)' <=> Has(Tail(queue), r)
  BY Zenon DEF InQueue
<1> QED BY <1>2, <1>3 DEF InQueue

\* The router reads worker w's pipe.
LEMMA OutboxRead ==
    ASSUME TypeOK, NEW w \in Workers, outbox[w] # <<>>,
           outbox' = [outbox EXCEPT ![w] = Tail(@)], NEW r, Single(r)
    PROVE  /\ Head(outbox[w]) \in WorkerMessages
           /\ \A v \in Workers : Once(outbox'[v], Resp(r))
           /\ \A v \in Workers : v # w => (InOutbox(r, v)' <=> InOutbox(r, v))
           /\ InOutbox(r, w)' <=> InOutbox(r, w) /\ Resp(r) # Head(outbox[w])
           /\ Resp(r) = Head(outbox[w]) => InOutbox(r, w)
<1>1. outbox \in [Workers -> Seq(WorkerMessages)]
  BY DEF TypeOK, TypeOKWorkers
<1>2. outbox[w] \in Seq(WorkerMessages)
  BY <1>1
<1>3. Head(outbox[w]) \in WorkerMessages
  BY <1>2, HeadTailProperties
<1>4. /\ Has(Tail(outbox[w]), Resp(r)) <=> Has(outbox[w], Resp(r)) /\ Resp(r) # Head(outbox[w])
      /\ Resp(r) = Head(outbox[w]) => Has(outbox[w], Resp(r))
      /\ Once(Tail(outbox[w]), Resp(r))
  BY <1>2, HasTail DEF Single
<1>5. outbox'[w] = Tail(outbox[w]) /\ \A v \in Workers \ {w} : outbox'[v] = outbox[v]
  BY <1>1
<1>6. \A v \in Workers : InOutbox(r, v)' <=> Has(outbox'[v], Resp(r))
  BY Zenon DEF InOutbox, Resp, Msg
<1>7. \A v \in Workers : Once(outbox'[v], Resp(r))
  BY <1>4, <1>5, ZenonT(30) DEF Single
<1> QED BY <1>3, <1>4, <1>5, <1>6, <1>7, Zenon DEF InOutbox

\* Worker w writes its pipe.
LEMMA OutboxWritten ==
    ASSUME TypeOK, NEW w \in Workers, NEW STATE m, m \in WorkerMessages,
           outbox' = [outbox EXCEPT ![w] = Append(@, m)], NEW r, Single(r)
    PROVE  /\ \A v \in Workers : v # w => /\ InOutbox(r, v)' <=> InOutbox(r, v)
                                          /\ Once(outbox'[v], Resp(r))
           /\ InOutbox(r, w)' <=> InOutbox(r, w) \/ Resp(r) = m
           /\ (Resp(r) = m => ~InOutbox(r, w)) => Once(outbox'[w], Resp(r))
<1>1. outbox \in [Workers -> Seq(WorkerMessages)]
  BY DEF TypeOK, TypeOKWorkers
<1>2. outbox[w] \in Seq(WorkerMessages)
  BY <1>1
<1>3. /\ Has(Append(outbox[w], m), Resp(r)) <=> Has(outbox[w], Resp(r)) \/ Resp(r) = m
      /\ (Resp(r) = m => ~Has(outbox[w], Resp(r))) => Once(Append(outbox[w], m), Resp(r))
  BY <1>2, HasAppend DEF Single
<1>4. outbox'[w] = Append(outbox[w], m) /\ \A v \in Workers \ {w} : outbox'[v] = outbox[v]
  BY <1>1
<1>5. \A v \in Workers : InOutbox(r, v)' <=> Has(outbox'[v], Resp(r))
  BY Zenon DEF InOutbox, Resp, Msg
<1> QED BY <1>3, <1>4, <1>5 DEF InOutbox, Single

\* A message that is not a request is read and does not enter the queue.
LEMMA OtherRead ==
    ASSUME TypeOK, RequestInv, toProcessor # <<>>, toProcessor' = Tail(toProcessor),
           Head(toProcessor).type # "TP_PROCESS_REQUEST",
           UNCHANGED <<queue, worker, job, outbox, answers, sent>>
    PROVE  RequestInv' /\ KeepsAll
<1>1. ASSUME NEW r \in Requests PROVE Single(r)' /\ Apart(r)' /\ Same(r)
  <2>1. Single(r) /\ Apart(r)
    BY DEF RequestInv
  <2>2. /\ Head(toProcessor) \in ValidatorMessages
        /\ Once(toProcessor', Req(r))
        /\ InPipe(r)' <=> InPipe(r) /\ Req(r) # Head(toProcessor)
    BY <2>1, PipeRead
  <2>3. SamePipe(r)
    BY <2>2, ReqIs DEF SamePipe
  <2>4. Same(r)
    BY <2>3, SameVars DEF Same
  <2>5. Single(r)'
    BY <2>1, <2>2, Zenon DEF Single, Req, Msg
  <2> QED BY <2>1, <2>4, <2>5, KeptFrame
<1>2. JobHeld'
  BY Zenon DEF RequestInv, JobHeld
<1> QED BY <1>1, <1>2, SameHeld DEF RequestInv, KeepsAll

\* A message is read and put in the queue.
LEMMA RequestQueued ==
    ASSUME TypeOK, RequestInv, toProcessor # <<>>, toProcessor' = Tail(toProcessor),
           Head(toProcessor).type # "TP_REGISTER_RESPONSE",
           queue' = Append(queue, Head(toProcessor).id),
           UNCHANGED <<worker, job, outbox, answers, sent>>
    PROVE  RequestInv' /\ KeepsAll
<1> DEFINE m == Head(toProcessor)
<1>1. m \in ValidatorMessages
  BY HeadTailProperties DEF TypeOK, TypeOKValidator
<1>2. m.id \in MessageIds
  BY <1>1, ValidatorMessageFields
<1>3. m.id \in Requests => m.type = "TP_PROCESS_REQUEST"
  BY <1>1, ConstantsAssumption DEF ValidatorMessages, ConstantsAssumption, CallIds
<1>4. ASSUME NEW r \in Requests
      PROVE  Single(r)' /\ Apart(r)' /\ (Held(r)' <=> Held(r)) /\ SameCount(r)
  <2>1. Single(r) /\ Apart(r)
    BY DEF RequestInv
  <2>2. /\ Once(toProcessor', Req(r))
        /\ InPipe(r)' <=> InPipe(r) /\ Req(r) # m
        /\ Req(r) = m => InPipe(r)
    BY <2>1, PipeRead
  <2>3. /\ InQueue(r)' <=> InQueue(r) \/ r = m.id
        /\ (r = m.id => ~InQueue(r)) => Once(queue', r)
    BY <1>2, <2>1, QueueWritten
  <2>4. Req(r) = m <=> r = m.id
    BY <1>1, <1>3, ReqIs, ZenonT(30)
  <2>5. SameWorkers(r) /\ SameOutbox(r) /\ SameCount(r)
    BY SameVars
  <2>6. Once(queue', r)
    BY <2>1, <2>2, <2>3, <2>4, Zenon DEF Apart
  <2>7. Single(r)'
    BY <2>1, <2>2, <2>6, Zenon DEF Single, Req, Msg
  <2>8. Apart(r)'
    BY <2>1, <2>2, <2>3, <2>4, <2>5, Zenon DEF Apart, SameWorkers, SameOutbox, SameCount
  <2>9. Held(r)' <=> Held(r)
    BY <2>2, <2>3, <2>4, <2>5, Zenon DEF Held, SameWorkers, SameOutbox
  <2> QED BY <2>5, <2>7, <2>8, <2>9
<1>5. JobHeld'
  BY Zenon DEF RequestInv, JobHeld
<1> QED BY <1>4, <1>5 DEF RequestInv, KeepsAll

\* A request is read and denied.
LEMMA RequestDenied ==
    ASSUME TypeOK, RequestInv, toProcessor # <<>>, toProcessor' = Tail(toProcessor),
           Head(toProcessor).type = "TP_PROCESS_REQUEST",
           Answer(Head(toProcessor).id),
           UNCHANGED <<queue, worker, job, outbox, sent>>
    PROVE  RequestInv' /\ AnswersOne
<1> DEFINE m == Head(toProcessor)
<1>1. m \in ValidatorMessages
  BY HeadTailProperties DEF TypeOK, TypeOKValidator
<1>2. m.id \in Requests
  BY <1>1, ValidatorMessageFields
<1>3. /\ answers'[m.id] = answers[m.id] + 1
      /\ \A r \in Requests : r # m.id => answers'[r] = answers[r]
  BY <1>2, Zenon DEF Answer, TypeOK, TypeOKValidator
<1>4. ASSUME NEW r \in Requests
      PROVE  /\ Single(r)' /\ Apart(r)'
             /\ r # m.id => Same(r)
             /\ r = m.id => Held(r) /\ ~Held(r)'
  <2>1. Single(r) /\ Apart(r)
    BY DEF RequestInv
  <2>2. /\ Once(toProcessor', Req(r))
        /\ InPipe(r)' <=> InPipe(r) /\ Req(r) # m
        /\ Req(r) = m => InPipe(r)
    BY <2>1, PipeRead, Zenon
  <2>3. Req(r) = m <=> r = m.id
    BY <1>1, ReqIs
  <2>4. SameQueue(r) /\ SameWorkers(r) /\ SameOutbox(r)
    BY SameVars
  <2>5. Single(r)'
    BY <2>1, <2>2, Zenon DEF Single, Req, Msg
  <2>6. CASE r # m.id
    <3>1. Same(r)
      BY <1>3, <2>2, <2>3, <2>4, <2>6, Zenon DEF Same, SamePipe, SameCount
    <3> QED BY <2>1, <2>5, <2>6, <3>1, KeptFrame, ZenonT(30)
  <2>7. CASE r = m.id
    <3>1. InPipe(r) /\ ~InPipe(r)'
      BY <2>2, <2>3, <2>7
    <3>2. /\ ~InQueue(r)' /\ \A w \in Workers : ~AtWorker(r, w)' /\ ~InOutbox(r, w)'
          /\ answers[r] = 0 /\ r \in sent
      BY <2>1, <2>4, <3>1, Zenon DEF Apart, SameQueue, SameWorkers, SameOutbox
    <3>3. answers'[r] = 1
      BY <1>3, <2>7, <3>2, SMTT(30)
    <3>4. Apart(r)'
      BY <3>1, <3>2, <3>3 DEF Apart
    <3>5. Held(r) /\ ~Held(r)'
      BY <3>1, <3>2, Zenon DEF Held
    <3> QED BY <2>5, <2>7, <3>4, <3>5
  <2> QED BY <2>6, <2>7
<1>5. JobHeld'
  BY Zenon DEF RequestInv, JobHeld
<1>6. AnswersOne
  BY <1>2, <1>3, <1>4, SameHeld DEF AnswersOne, KeepsBut
<1> QED BY <1>4, <1>5, <1>6 DEF RequestInv

\* The router forwards what a worker sent.
LEMMA ReceiveWorkersRequests ==
    ASSUME TypeOK, RequestInv, ReceiveWorkers
    PROVE  RequestInv' /\ (KeepsAll \/ AnswersOne)
<1>1. PICK w \in Workers :
        /\ outbox[w] # <<>>
        /\ outbox' = [outbox EXCEPT ![w] = Tail(@)]
        /\ ForwardCall(w, Head(outbox[w])) \/ ForwardResponse(Head(outbox[w]))
  BY Zenon DEF ReceiveWorkers
<1>2. UNCHANGED <<toProcessor, queue, worker, job, sent>>
  BY DEF ReceiveWorkers, workerVars
<1> DEFINE m == Head(outbox[w])
<1>3. m \in WorkerMessages
  BY <1>1, PipeTail DEF TypeOK, TypeOKWorkers
<1>4. JobHeld'
  BY <1>2, Zenon DEF RequestInv, JobHeld
<1>5. ASSUME NEW r \in Requests
      PROVE  /\ Single(r) /\ Apart(r) /\ Single(r)'
             /\ SamePipe(r) /\ SameQueue(r) /\ SameWorkers(r)
             /\ \A v \in Workers : v # w => (InOutbox(r, v)' <=> InOutbox(r, v))
             /\ InOutbox(r, w)' <=> InOutbox(r, w) /\ Resp(r) # m
             /\ Resp(r) = m => InOutbox(r, w)
  <2>1. Single(r) /\ Apart(r)
    BY DEF RequestInv
  <2>2. SamePipe(r) /\ SameQueue(r) /\ SameWorkers(r)
    BY <1>2, SameVars
  <2>3. /\ \A v \in Workers : Once(outbox'[v], Resp(r))
        /\ \A v \in Workers : v # w => (InOutbox(r, v)' <=> InOutbox(r, v))
        /\ InOutbox(r, w)' <=> InOutbox(r, w) /\ Resp(r) # m
        /\ Resp(r) = m => InOutbox(r, w)
    BY <1>1, <2>1, OutboxRead, Zenon
  <2>4. Single(r)'
    BY <1>2, <2>1, <2>3, Zenon DEF Single, Resp, Msg
  <2> QED BY <2>1, <2>2, <2>3, <2>4
<1>6. CASE ForwardCall(w, m)
  <2>1. ASSUME NEW r \in Requests PROVE Same(r)
    <3>1. Resp(r) # m
      BY <1>3, <1>6, RespIs DEF ForwardCall
    <3>2. SameOutbox(r)
      BY <1>5, <3>1, Zenon DEF SameOutbox
    <3>3. SameCount(r)
      BY <1>6, SameVars DEF ForwardCall
    <3> QED BY <1>5, <3>2, <3>3 DEF Same
  <2> QED BY <1>2, <1>4, <1>5, <2>1, KeptFrame, SameHeld, ZenonT(30) DEF RequestInv, KeepsAll
<1>7. CASE ForwardResponse(m)
  <2>1. m.id \in Requests
    BY <1>3, <1>7, WorkerMessageFields, ZenonT(30) DEF ForwardResponse
  <2>2. /\ answers'[m.id] = answers[m.id] + 1
        /\ \A r \in Requests : r # m.id => answers'[r] = answers[r]
    BY <1>7, <2>1 DEF ForwardResponse, Answer, TypeOK, TypeOKValidator
  <2>3. ASSUME NEW r \in Requests PROVE Resp(r) = m <=> r = m.id
    BY <1>3, <1>7, RespIs, ZenonT(30) DEF ForwardResponse
  <2>4. ASSUME NEW r \in Requests, r # m.id PROVE Same(r)
    <3>1. SameOutbox(r)
      BY <1>5, <2>3, <2>4, Zenon DEF SameOutbox
    <3> QED BY <1>5, <2>2, <2>4, <3>1 DEF Same, SameCount
  <2>q. PICK q \in Requests : q = m.id
    BY <2>1, Zenon
  <2>5. InOutbox(q, w) /\ ~InOutbox(q, w)'
    BY <1>5, <2>q, <2>3
  <2>6. q \in Requests /\ Apart(q)
    BY <1>5
  <2>7. /\ answers[q] = 0 /\ q \in sent /\ ~InPipe(q)' /\ ~InQueue(q)'
        /\ \A v \in Workers : ~AtWorker(q, v)' /\ ~InOutbox(q, v)'
    BY <1>5, <2>5, <2>6, Zenon DEF Apart, SamePipe, SameQueue, SameWorkers
  <2>8. answers'[q] = 1
    BY <2>2, <2>7, <2>q, SMTT(30)
  <2>9. Apart(q)'
    BY <1>2, <2>7, <2>8, Zenon DEF Apart
  <2>10. Held(q) /\ ~Held(q)'
    BY <2>5, <2>7, Zenon DEF Held
  <2>11. ASSUME NEW r \in Requests PROVE Apart(r)'
    <3>1. CASE r = q
      BY <2>9, <3>1, Zenon
    <3>2. CASE r # q
      BY <1>2, <1>5, <2>4, <3>2, <2>q, KeptFrame, ZenonT(30)
    <3> QED BY <3>1, <3>2
  <2>12. AnswersOne
    BY <2>2, <2>4, <2>q, <2>10, SameHeld, Zenon DEF AnswersOne, KeepsBut
  <2> QED BY <1>4, <1>5, <2>11, <2>12 DEF RequestInv
<1> QED BY <1>1, <1>6, <1>7

\* Worker w takes a message off the queue.
LEMMA WorkerTakeRequests ==
    ASSUME TypeOK, RequestInv, NEW w \in Workers, WorkerTake(w)
    PROVE  /\ RequestInv'
           /\ \/ KeepsAll
              \/ \E q \in BadRequests : /\ Held(q) /\ ~Held(q)' /\ SameCount(q)
                                        /\ KeepsBut(q)
<1>1. /\ worker[w] = "idle" /\ queue # <<>> /\ queue' = Tail(queue)
      /\ UNCHANGED <<toProcessor, outbox, answers, sent>>
  BY DEF WorkerTake, rest, validatorVars
<1>2. /\ worker \in [Workers -> {"idle", "apply", "recv", "stuck", "exited"}]
      /\ job \in [Workers -> Requests \cup {NoJob}]
  BY DEF TypeOK, TypeOKWorkers
<1>3. job[w] = NoJob /\ NoJob \notin Requests
  BY <1>1, ConstantsAssumption, Zenon
  DEF RequestInv, JobHeld, NoJob, ConstantsAssumption
<1>4. ASSUME NEW r \in Requests
      PROVE  /\ Single(r)' /\ Apart(r)
             /\ InQueue(r)' <=> InQueue(r) /\ r # Head(queue)
             /\ r = Head(queue) => InQueue(r)
             /\ SamePipe(r) /\ SameOutbox(r) /\ SameCount(r)
  <2>1. Single(r) /\ Apart(r)
    BY DEF RequestInv
  <2>2. /\ Once(queue', r)
        /\ InQueue(r)' <=> InQueue(r) /\ r # Head(queue)
        /\ r = Head(queue) => InQueue(r)
    BY <1>1, <2>1, QueueRead
  <2>3. Single(r)'
    BY <1>1, <2>1, <2>2, Zenon DEF Single
  <2> QED BY <1>1, <2>1, <2>2, <2>3, SameVars, Zenon
<1>5. CASE Head(queue) \in Requests \ BadRequests
  <2>1. /\ job' = [job EXCEPT ![w] = Head(queue)]
        /\ worker' = [worker EXCEPT ![w] = "apply"]
    BY <1>5 DEF WorkerTake
  <2>2. JobHeld'
    <3>1. /\ worker'[w] = "apply"
          /\ \A v \in Workers \ {w} : worker'[v] = worker[v] /\ job'[v] = job[v]
      BY <1>2, <2>1
    <3> QED BY <3>1 DEF RequestInv, JobHeld, NoJob
  <2>3. ASSUME NEW r \in Requests
        PROVE  Apart(r)' /\ (Held(r)' <=> Held(r)) /\ SameCount(r)
    <3>1. \A v \in Workers :
             AtWorker(r, v)' <=> (AtWorker(r, v) \/ (v = w /\ r = Head(queue)))
      BY <1>2, <1>3, <2>1 DEF AtWorker
    <3>2. Apart(r)'
      BY <1>1, <1>4, <3>1, Zenon DEF Apart, SamePipe, SameOutbox, SameCount
    <3>3. Held(r)' <=> Held(r)
      BY <1>4, <3>1, Zenon DEF Held, SamePipe, SameOutbox
    <3> QED BY <1>4, <3>2, <3>3, ZenonT(30)
  <2> QED BY <1>4, <2>2, <2>3, Zenon DEF RequestInv, KeepsAll
<1>6. CASE Head(queue) \notin Requests \ BadRequests
  <2>1. job' = job /\ worker' = [worker EXCEPT ![w] = "exited"]
    BY <1>6 DEF WorkerTake
  <2>2. JobHeld'
    <3>1. \A v \in Workers \ {w} : worker'[v] = worker[v]
      BY <1>2, <2>1
    <3> QED BY <1>3, <2>1, <3>1 DEF RequestInv, JobHeld, NoJob
  <2>3. ASSUME NEW r \in Requests
        PROVE  /\ Apart(r)' /\ SameCount(r)
               /\ r # Head(queue) => (Held(r)' <=> Held(r))
               /\ r = Head(queue) => Held(r) /\ ~Held(r)'
    <3>1. SameWorkers(r)
      BY <2>1, SameVars
    <3>2. Apart(r)'
      BY <1>1, <1>4, <3>1, Zenon DEF Apart, SamePipe, SameWorkers, SameOutbox, SameCount
    <3>3. r # Head(queue) => (Held(r)' <=> Held(r))
      BY <1>4, <3>1, Zenon DEF Held, SamePipe, SameWorkers, SameOutbox
    <3>4. r = Head(queue) => Held(r) /\ ~Held(r)'
      BY <1>4, <3>1, Zenon DEF Apart, Held, SamePipe, SameWorkers, SameOutbox
    <3> QED BY <1>4, <3>2, <3>3, <3>4
  <2>4. RequestInv'
    BY <1>4, <2>2, <2>3 DEF RequestInv
  <2>5. CASE Head(queue) \in BadRequests
    <3>1. PICK q \in BadRequests : q = Head(queue)
      BY <2>5, Zenon
    <3>2. q \in Requests
      BY ConstantsAssumption DEF ConstantsAssumption
    <3>3. Held(q) /\ ~Held(q)' /\ SameCount(q) /\ KeepsBut(q)
      BY <2>3, <3>1, <3>2 DEF KeepsBut
    <3> QED BY <2>4, <3>3, Zenon
  <2>6. CASE Head(queue) \notin BadRequests
    BY <1>6, <2>3, <2>4, <2>6 DEF KeepsAll
  <2> QED BY <2>5, <2>6
<1> QED BY <1>5, <1>6

\* Worker w answers its request; after close() the answer is lost.
LEMMA WorkerReplyRequests ==
    ASSUME TypeOK, RequestInv, NEW w \in Workers, WorkerReply(w)
    PROVE  /\ RequestInv'
           /\ ~Closed => KeepsAll
           /\ \A r \in Requests : (Held(r)' => Held(r)) /\ SameCount(r)
<1> DEFINE m == Msg("TP_PROCESS_RESPONSE", job[w])
<1>1. /\ worker[w] = "apply"
      /\ Send(w, m)
      /\ job' = [job EXCEPT ![w] = NoJob]
      /\ UNCHANGED <<toProcessor, queue, answers, sent>>
      /\ \/ worker' = [worker EXCEPT ![w] = "idle"]
         \/ worker' = [worker EXCEPT ![w] = "stuck"]
  BY DEF WorkerReply, rest, validatorVars
<1>2. /\ worker \in [Workers -> {"idle", "apply", "recv", "stuck", "exited"}]
      /\ job \in [Workers -> Requests \cup {NoJob}]
      /\ job[w] \in Requests
  BY <1>1 DEF TypeOK, TypeOKWorkers
<1>3. NoJob \notin Requests
  BY ConstantsAssumption DEF NoJob, ConstantsAssumption
<1>4. JobHeld'
  <2>1. /\ job'[w] = NoJob
        /\ \A v \in Workers \ {w} : worker'[v] = worker[v] /\ job'[v] = job[v]
    BY <1>1, <1>2, Zenon DEF NoJob
  <2> QED BY <2>1 DEF RequestInv, JobHeld, NoJob
<1>5. m \in WorkerMessages /\ m.type = "TP_PROCESS_RESPONSE" /\ m.id = job[w]
  BY <1>2 DEF Msg, WorkerMessages
<1>6. ASSUME NEW r \in Requests
      PROVE  /\ Single(r) /\ Apart(r)
             /\ SamePipe(r) /\ SameQueue(r) /\ SameCount(r)
             /\ \A v \in Workers : AtWorker(r, v)' <=> AtWorker(r, v) /\ v # w
             /\ Resp(r) = m <=> AtWorker(r, w)
  <2>1. \A v \in Workers : AtWorker(r, v)' <=> AtWorker(r, v) /\ v # w
    BY <1>1, <1>2, <1>3, ZenonT(30) DEF AtWorker
  <2>2. Resp(r) = m <=> AtWorker(r, w)
    BY <1>5, RespIs DEF AtWorker
  <2> QED BY <1>1, <2>1, <2>2, SameVars DEF RequestInv
<1>7. CASE Closed
  <2>1. outbox' = outbox
    BY <1>1, <1>7 DEF Send
  <2>2. ASSUME NEW r \in Requests
        PROVE  Single(r)' /\ Apart(r)' /\ (Held(r)' => Held(r)) /\ SameCount(r)
    <3>1. SameOutbox(r)
      BY <2>1, SameVars
    <3>2. Single(r)'
      BY <1>1, <1>6, <2>1, Zenon DEF Single
    <3>3. Apart(r)'
      BY <1>1, <1>6, <3>1, Zenon DEF Apart, SamePipe, SameQueue, SameOutbox, SameCount
    <3>4. Held(r)' => Held(r)
      BY <1>6, <3>1, Zenon DEF Held, SamePipe, SameQueue, SameOutbox
    <3> QED BY <1>6, <3>2, <3>3, <3>4
  <2> QED BY <1>4, <1>7, <2>2 DEF RequestInv
<1>8. CASE ~Closed
  <2>1. outbox' = [outbox EXCEPT ![w] = Append(@, m)]
    BY <1>1, <1>8 DEF Send
  <2>2. ASSUME NEW r \in Requests
        PROVE  Single(r)' /\ Apart(r)' /\ (Held(r)' <=> Held(r)) /\ SameCount(r)
    <3>1. /\ \A v \in Workers : v # w => /\ InOutbox(r, v)' <=> InOutbox(r, v)
                                         /\ Once(outbox'[v], Resp(r))
          /\ InOutbox(r, w)' <=> InOutbox(r, w) \/ Resp(r) = m
          /\ (Resp(r) = m => ~InOutbox(r, w)) => Once(outbox'[w], Resp(r))
      BY <1>5, <1>6, <2>1, OutboxWritten, Zenon
    <3>2. Once(outbox'[w], Resp(r))
      BY <1>6, <3>1, Zenon DEF Apart
    <3>3. Single(r)'
      BY <1>1, <1>6, <3>1, <3>2, Zenon DEF Single, Resp, Msg
    <3>4. Apart(r)'
      BY <1>1, <1>6, <3>1, Zenon DEF Apart, SamePipe, SameQueue, SameCount
    <3>5. Held(r)' <=> Held(r)
      BY <1>6, <3>1, Zenon DEF Held, SamePipe, SameQueue
    <3> QED BY <1>6, <3>3, <3>4, <3>5, Zenon
  <2> QED BY <1>4, <2>2 DEF RequestInv, KeepsAll
<1> QED BY <1>7, <1>8

\* The other steps of a worker move no request.
LEMMA WorkerOtherRequests ==
    ASSUME TypeOK, RequestInv, NEW w \in Workers,
           WorkerLeave(w) \/ WorkerCall(w) \/ WorkerReceive(w)
    PROVE  RequestInv' /\ KeepsAll
<1>1. UNCHANGED <<toProcessor, queue, job, answers, sent>>
  BY DEF WorkerLeave, WorkerCall, WorkerReceive, rest, validatorVars
<1>2. worker \in [Workers -> {"idle", "apply", "recv", "stuck", "exited"}]
  BY Zenon DEF TypeOK, TypeOKWorkers
<1>3. JobHeld'
  <2>1. /\ \A v \in Workers \ {w} : worker'[v] = worker[v]
        /\ worker'[w] \notin {"apply", "recv"} => worker[w] \notin {"apply", "recv"}
    BY <1>2 DEF WorkerLeave, WorkerCall, WorkerReceive
  <2> QED BY <1>1, <2>1, ZenonT(30) DEF RequestInv, JobHeld, NoJob
<1>4. ASSUME NEW r \in Requests PROVE Single(r)' /\ Same(r)
  <2>1. Single(r)
    BY DEF RequestInv
  <2>2. CASE outbox' = outbox
    <3>1. Single(r)'
      BY <1>1, <2>1, <2>2, Zenon DEF Single
    <3> QED BY <1>1, <2>2, <3>1, SameVars DEF Same
  <2>3. CASE WorkerCall(w) /\ outbox' # outbox
    <3> DEFINE m == Msg("TP_STATE_REQUEST", nextCall)
    <3>1. nextCall \in CallIds /\ outbox' = [outbox EXCEPT ![w] = Append(@, m)]
      BY <2>3, ZenonT(30) DEF WorkerCall, Send
    <3>2. m \in WorkerMessages /\ Resp(r) # m
      BY <3>1 DEF Msg, Resp, WorkerMessages
    <3>3. /\ \A v \in Workers : v # w => /\ InOutbox(r, v)' <=> InOutbox(r, v)
                                         /\ Once(outbox'[v], Resp(r))
          /\ InOutbox(r, w)' <=> InOutbox(r, w) \/ Resp(r) = m
          /\ (Resp(r) = m => ~InOutbox(r, w)) => Once(outbox'[w], Resp(r))
      BY <2>1, <3>1, <3>2, OutboxWritten, Zenon
    <3>4. SameOutbox(r)
      BY <3>2, <3>3, Zenon DEF SameOutbox
    <3>5. Single(r)'
      BY <1>1, <2>1, <3>2, <3>3, Zenon DEF Single, Resp, Msg
    <3> QED BY <1>1, <3>4, <3>5, SameVars, Zenon DEF Same
  <2> QED BY <2>2, <2>3 DEF WorkerLeave, WorkerReceive
<1>5. ASSUME NEW r \in Requests PROVE Apart(r)'
  BY <1>1, <1>4, KeptFrame DEF RequestInv
<1> QED BY <1>3, <1>4, <1>5, SameHeld, Zenon DEF RequestInv, KeepsAll

\* shutdown() drops what the workers had sent.
LEMMA ReceiveShutdownRequests ==
    ASSUME TypeOK, RequestInv, ReceiveShutdown
    PROVE  /\ RequestInv'
           /\ \A r \in Requests : (Held(r)' => Held(r)) /\ SameCount(r)
<1>1. /\ outbox' = [w \in Workers |-> <<>>]
      /\ UNCHANGED <<toProcessor, queue, job, worker, answers, sent>>
  BY DEF ReceiveShutdown, workerVars, validatorVars
<1>2. JobHeld'
  BY <1>1, Zenon DEF RequestInv, JobHeld
<1>3. ASSUME NEW r \in Requests
      PROVE  Single(r)' /\ Apart(r)' /\ (Held(r)' => Held(r)) /\ SameCount(r)
  <2>1. Single(r) /\ Apart(r)
    BY DEF RequestInv
  <2>2. \A w \in Workers : ~InOutbox(r, w)' /\ Once(outbox'[w], Resp(r))
    BY <1>1, HasEmpty DEF InOutbox
  <2>3. SamePipe(r) /\ SameQueue(r) /\ SameWorkers(r) /\ SameCount(r)
    BY <1>1, SameVars
  <2>4. Single(r)'
    BY <1>1, <2>1, <2>2, Zenon DEF Single, Resp, Msg
  <2>5. Apart(r)'
    BY <1>1, <2>1, <2>2, <2>3, Zenon DEF Apart, SamePipe, SameQueue, SameWorkers, SameCount
  <2>6. Held(r)' => Held(r)
    BY <2>2, <2>3, Zenon DEF Held, SamePipe, SameQueue, SameWorkers
  <2> QED BY <2>3, <2>4, <2>5, <2>6
<1> QED BY <1>2, <1>3 DEF RequestInv

\* The validator sends a request it has not sent on this connection.
LEMMA ValidatorRequestsRequests ==
    ASSUME TypeOK, RequestInv, NEW q \in Requests, ValidatorRequests(q)
    PROVE  /\ RequestInv'
           /\ ~Held(q) /\ answers[q] = 0 /\ Held(q)' /\ SameCount(q) /\ KeepsBut(q)
<1> DEFINE m == Msg("TP_PROCESS_REQUEST", q)
<1>1. /\ q \notin sent /\ sent' = sent \cup {q} /\ ValidatorSend(m)
      /\ UNCHANGED <<queue, job, worker, outbox, answers>>
  BY DEF ValidatorRequests, processorVars, workerVars
<1>2. m \in ValidatorMessages
  BY DEF Msg, ValidatorMessages
<1>3. JobHeld'
  BY <1>1, Zenon DEF RequestInv, JobHeld
<1>4. ~InPipe(q) /\ ~Held(q) /\ answers[q] = 0
  <2>1. Apart(q)
    BY DEF RequestInv
  <2>2. ~Held(q)
    BY <1>1, <2>1, Zenon DEF Apart, Held
  <2> QED BY <1>1, <2>1, <2>2 DEF Apart, Held
<1>5. ASSUME NEW r \in Requests
      PROVE  /\ Single(r)' /\ Apart(r)' /\ SameCount(r)
             /\ r # q => (Held(r)' <=> Held(r))
             /\ r = q => Held(r)'
  <2>1. Single(r) /\ Apart(r)
    BY DEF RequestInv
  <2>2. /\ InPipe(r)' <=> InPipe(r) \/ Req(r) = m
        /\ (Req(r) = m => ~InPipe(r)) => Once(toProcessor', Req(r))
    BY <1>1, <1>2, <2>1, PipeWritten
  <2>3. Req(r) = m <=> r = q
    BY DEF Req, Msg
  <2>4. SameQueue(r) /\ SameWorkers(r) /\ SameOutbox(r) /\ SameCount(r)
    BY <1>1, SameVars
  <2>5. Once(toProcessor', Req(r))
    BY <1>4, <2>2, <2>3
  <2>6. Single(r)'
    BY <1>1, <2>1, <2>5, Zenon DEF Single, Req, Msg
  <2>7. CASE r = q
    <3>1. /\ ~InQueue(r)' /\ answers'[r] = 0 /\ r \in sent'
          /\ \A w \in Workers : ~AtWorker(r, w)' /\ ~InOutbox(r, w)'
      BY <1>1, <1>4, <2>4, <2>7, Zenon DEF Held, SameQueue, SameWorkers, SameOutbox, SameCount
    <3>2. Apart(r)'
      BY <3>1 DEF Apart
    <3>3. Held(r)'
      BY <2>2, <2>3, <2>7, Zenon DEF Held
    <3> QED BY <2>4, <2>6, <2>7, <3>2, <3>3, Zenon
  <2>8. CASE r # q
    <3>1. Same(r)
      BY <2>2, <2>3, <2>4, <2>8 DEF Same, SamePipe
    <3>2. r \in sent => r \in sent'
      BY <1>1
    <3> QED BY <2>1, <2>6, <2>8, <3>1, <3>2, KeptFrame, SameHeld, Zenon
  <2> QED BY <2>7, <2>8
<1> QED BY <1>3, <1>4, <1>5 DEF RequestInv, KeepsBut

\* The validator sends anything else.
LEMMA OtherSent ==
    ASSUME TypeOK, RequestInv, NEW m \in ValidatorMessages, ValidatorSend(m),
           m.type # "TP_PROCESS_REQUEST",
           UNCHANGED <<queue, worker, job, outbox, answers, sent>>
    PROVE  RequestInv' /\ KeepsAll
<1>1. ASSUME NEW r \in Requests PROVE Single(r)' /\ Apart(r)' /\ Same(r)
  <2>1. Single(r) /\ Apart(r)
    BY DEF RequestInv
  <2>2. Req(r) # m
    BY ReqIs
  <2>3. SamePipe(r) /\ Once(toProcessor', Req(r))
    BY <2>1, <2>2, PipeWritten DEF SamePipe
  <2>4. Same(r)
    BY <2>3, SameVars DEF Same
  <2>5. Single(r)'
    BY <2>1, <2>3, Zenon DEF Single, Req, Msg
  <2> QED BY <2>1, <2>4, <2>5, KeptFrame
<1>2. JobHeld'
  BY Zenon DEF RequestInv, JobHeld
<1> QED BY <1>1, <1>2, SameHeld DEF RequestInv, KeepsAll
-----------------------------------------------------------------------------
(* What any step does to the requests.                                      *)

Serving     == ~Closed /\ main # "start"
SameServing == Serving' <=> Serving

Connects == ~Serving /\ Serving' /\ \A r \in Requests : ~Held(r)' /\ answers'[r] = 0
Keeps    == SameServing /\ KeepsAll
Answers  == Serving /\ Serving' /\ AnswersOne
Loses    == ~Serving' /\ \A r \in Requests : (Held(r)' => Held(r)) /\ SameCount(r)
Drops    == SameServing /\ \E q \in BadRequests :
               Held(q) /\ ~Held(q)' /\ SameCount(q) /\ KeepsBut(q)
Asks     == SameServing /\ \E q \in Requests :
               ~Held(q) /\ answers[q] = 0 /\ Held(q)' /\ SameCount(q) /\ KeepsBut(q)
Effect   == Connects \/ Keeps \/ Answers \/ Loses \/ Drops \/ Asks

\* A step that touches nothing the requests depend on.
LEMMA FrameEffect ==
    ASSUME RequestInv, UNCHANGED requestVars, SameServing PROVE RequestInv' /\ Effect
<1>1. ASSUME NEW r \in Requests PROVE Same(r)
  BY SameVars DEF requestVars, Same
<1> QED BY <1>1, RequestFrame, SameHeld DEF Effect, Keeps, KeepsAll

\* Every step of the router keeps the places apart and has one of the effects.
LEMMA RouterRequests == ASSUME TypeOK, RequestInv, Router PROVE RequestInv' /\ Effect
<1>1. CASE Start
  <2>1. ~Serving /\ Serving'
    BY <1>1 DEF Start, Serving, Closed
  <2>2. \A r \in Requests : ~Held(r)'
    BY <1>1, StartRequests, Zenon DEF Held
  <2> QED BY <1>1, <2>1, <2>2, StartRequests, ZenonT(30) DEF Effect, Connects
<1>2. CASE RegisterReceive
  <2>1. /\ toProcessor # <<>> /\ toProcessor' = Tail(toProcessor)
        /\ UNCHANGED <<worker, job, outbox, answers, sent>>
    BY <1>2 DEF RegisterReceive, workerVars
  <2>2. main = "register" /\ main' \in {"register", "poll", "failed"}
    BY <1>2 DEF RegisterReceive, RegisterUnexpected, RegisterConfirmed,
                RegisterRejected, Fail
  <2>3. SameServing
    BY <2>2 DEF SameServing, Serving, Closed
  <2>4. CASE RegisterUnexpected(Head(toProcessor))
    <3>1. /\ Head(toProcessor).type # "TP_REGISTER_RESPONSE"
          /\ queue' = Append(queue, Head(toProcessor).id)
      BY <2>4 DEF RegisterUnexpected
    <3> QED BY <2>1, <2>3, <3>1, RequestQueued, SMTT(30) DEF Effect, Keeps
  <2>5. CASE RegisterConfirmed(Head(toProcessor)) \/ RegisterRejected(Head(toProcessor))
    <3>1. Head(toProcessor).type # "TP_PROCESS_REQUEST" /\ queue' = queue
      BY <2>5 DEF RegisterConfirmed, RegisterRejected, RegisterResponse
    <3> QED BY <2>1, <2>3, <3>1, OtherRead, Zenon DEF Effect, Keeps
  <2> QED BY <1>2, <2>4, <2>5, SMTT(30) DEF RegisterReceive
<1>3. CASE ReceiveValidator
  <2>1. /\ toProcessor # <<>> /\ toProcessor' = Tail(toProcessor)
        /\ UNCHANGED <<worker, job, outbox, sent>>
    BY <1>3 DEF ReceiveValidator, workerVars, validatorVars
  <2>2. Serving /\ Serving' /\ SameServing
    BY <1>3 DEF ReceiveValidator, Turn, SameServing, Serving, Closed
  <2>3. CASE ReceiveRequest(Head(toProcessor))
    <3>1. Head(toProcessor).type = "TP_PROCESS_REQUEST"
      BY <2>3 DEF ReceiveRequest
    <3>2. CASE queue' = Append(queue, Head(toProcessor).id) /\ UNCHANGED answers
      BY <2>1, <2>2, <3>1, <3>2, RequestQueued, Zenon DEF Effect, Keeps
    <3>3. CASE Answer(Head(toProcessor).id) /\ UNCHANGED queue
      BY <2>1, <2>2, <3>1, <3>3, RequestDenied, Zenon DEF Effect, Answers
    <3> QED BY <2>3, <3>2, <3>3 DEF ReceiveRequest
  <2>4. CASE ReceivePing(Head(toProcessor)) \/ ReceiveResponse(Head(toProcessor))
    <3>1. Head(toProcessor).type # "TP_PROCESS_REQUEST" /\ UNCHANGED <<queue, answers>>
      BY <2>4 DEF ReceivePing, ReceiveResponse
    <3> QED BY <2>1, <2>2, <3>1, OtherRead, Zenon DEF Effect, Keeps
  <2> QED BY <1>3, <2>3, <2>4 DEF ReceiveValidator
<1>4. CASE ReceiveWorkers
  <2>1. Serving /\ Serving' /\ SameServing
    BY <1>4 DEF ReceiveWorkers, Turn, SameServing, Serving, Closed
  <2> QED BY <1>4, <2>1, ReceiveWorkersRequests, ZenonT(30) DEF Effect, Keeps, Answers
<1>5. CASE ReceiveShutdown
  <2>1. ~Serving'
    BY <1>5 DEF ReceiveShutdown, Serving, Closed
  <2> QED BY <1>5, <2>1, ReceiveShutdownRequests DEF Effect, Loses
<1>6. CASE RegisterShutdown \/ Poll \/ ReceiveMonitor \/ UnregisterTimeout \/ Join
  <2>1. UNCHANGED requestVars
    BY <1>6, Zenon DEF RegisterShutdown, Poll, ReceiveMonitor, UnregisterTimeout, Join,
                requestVars, workerVars, validatorVars
  <2>2. SameServing
    BY <1>6 DEF RegisterShutdown, Poll, ReceiveMonitor, UnregisterTimeout, Join,
                Fail, Turn, SameServing, Serving, Closed
  <2> QED BY <2>1, <2>2, FrameEffect, Zenon
<1> QED BY <1>1, <1>2, <1>3, <1>4, <1>5, <1>6, ZenonT(30) DEF Router

\* So has every step of a worker ...
LEMMA WorkerRequests ==
    ASSUME TypeOK, RequestInv, NEW w \in Workers, Worker(w)
    PROVE  RequestInv' /\ Effect
<1>1. main' = main
  BY DEF Worker, WorkerTake, WorkerLeave, WorkerCall, WorkerReceive, WorkerReply,
         rest, mainVars
<1>2. SameServing
  BY <1>1 DEF SameServing, Serving, Closed
<1>3. CASE WorkerTake(w)
  BY <1>2, <1>3, WorkerTakeRequests DEF Effect, Keeps, Drops
<1>4. CASE WorkerReply(w)
  <2>1. Closed => ~Serving'
    BY <1>1 DEF Serving, Closed
  <2> QED BY <1>2, <1>4, <2>1, WorkerReplyRequests, Zenon DEF Effect, Keeps, Loses
<1>5. CASE WorkerLeave(w) \/ WorkerCall(w) \/ WorkerReceive(w)
  BY <1>2, <1>5, WorkerOtherRequests DEF Effect, Keeps
<1> QED BY <1>3, <1>4, <1>5, ZenonT(30) DEF Worker

\* ... and every step of the validator, the network and the user.
LEMMA EnvironmentRequests ==
    ASSUME TypeOK, RequestInv, Environment PROVE RequestInv' /\ Effect
<1>1. UNCHANGED <<main, queue, worker, job, outbox, answers>>
  BY DEF Environment, ValidatorRegisters, ValidatorPings, Disconnect, Shutdown,
         ValidatorRequests, ValidatorAnswers, ValidatorRepeats, processorVars,
         mainVars, workerVars
<1>2. SameServing
  BY <1>1 DEF SameServing, Serving, Closed
<1>3. ASSUME NEW q \in Requests, ValidatorRequests(q) PROVE RequestInv' /\ Effect
  BY <1>2, <1>3, ValidatorRequestsRequests DEF Effect, Asks
<1>4. ASSUME NEW m \in ValidatorMessages, ValidatorSend(m),
             m.type # "TP_PROCESS_REQUEST", sent' = sent
      PROVE  RequestInv' /\ Effect
  BY <1>1, <1>2, <1>4, OtherSent, Zenon DEF Effect, Keeps
<1>5. CASE ValidatorRegisters
  <2>1. PICK status \in {"OK", "ERROR"} : ValidatorSend(RegisterResponse(status))
    BY <1>5, Zenon DEF ValidatorRegisters
  <2>2. RegisterResponse(status) \in ValidatorMessages
        /\ RegisterResponse(status).type # "TP_PROCESS_REQUEST"
    BY DEF RegisterResponse, ValidatorMessages
  <2>3. sent' = sent
    BY <1>5 DEF ValidatorRegisters
  <2> QED BY <1>4, <2>1, <2>2, <2>3
<1>6. CASE ValidatorPings
  <2>1. ValidatorSend(Msg("PING_REQUEST", Ping)) /\ sent' = sent
    BY <1>6 DEF ValidatorPings, validatorVars
  <2>2. Msg("PING_REQUEST", Ping) \in ValidatorMessages
        /\ Msg("PING_REQUEST", Ping).type # "TP_PROCESS_REQUEST"
    BY DEF Msg, ValidatorMessages
  <2> QED BY <1>4, <2>1, <2>2
<1>7. ASSUME NEW c \in CallIds, ValidatorAnswers(c) \/ ValidatorRepeats(c)
      PROVE  RequestInv' /\ Effect
  <2>1. ValidatorSend(Msg("TP_STATE_RESPONSE", c)) /\ sent' = sent
    BY <1>7, ZenonT(30) DEF ValidatorAnswers, ValidatorRepeats, validatorVars
  <2>2. Msg("TP_STATE_RESPONSE", c) \in ValidatorMessages
        /\ Msg("TP_STATE_RESPONSE", c).type # "TP_PROCESS_REQUEST"
    BY DEF Msg, ValidatorMessages
  <2> QED BY <1>4, <2>1, <2>2, Zenon
<1>8. CASE Disconnect \/ Shutdown
  <2>1. UNCHANGED requestVars
    BY <1>1, <1>8 DEF Disconnect, Shutdown, requestVars, validatorVars
  <2> QED BY <1>2, <2>1, FrameEffect, Zenon
<1> QED BY <1>3, <1>5, <1>6, <1>7, <1>8, ZenonT(30) DEF Environment

\* Every step of the processor, or of nobody.
LEMMA StepRequests ==
    ASSUME TypeOK, RequestInv, [Next]_vars PROVE RequestInv' /\ Effect
<1>1. CASE UNCHANGED vars
  <2>1. UNCHANGED requestVars /\ main' = main
    BY <1>1 DEF vars, requestVars, mainVars, workerVars, validatorVars
  <2> QED BY <2>1, FrameEffect, Zenon DEF SameServing, Serving, Closed
<1> QED BY <1>1, RouterRequests, WorkerRequests, EnvironmentRequests, SMTT(30) DEF Next

\* Every behaviour keeps each request in one place.
LEMMA RequestsHeld == Spec => [](TypeOK /\ RequestInv)
<1>1. RequestInv /\ TypeOK /\ [Next]_vars => RequestInv'
  BY StepRequests, ZenonT(30)
<1> QED BY <1>1, InitRequests, TypeCorrect, PTL DEF Spec
-----------------------------------------------------------------------------
(* The theorems.                                                            *)

\* A copy of a request is in one of the four places.
LEMMA CopyPlaces ==
    ASSUME NEW r, NEW p
    PROVE  p \in Copies(r) <=>
             \/ \E i \in DOMAIN toProcessor : toProcessor[i] = Req(r) /\ p = <<"pipe", i>>
             \/ \E i \in DOMAIN queue : queue[i] = r /\ p = <<"queue", i>>
             \/ \E w \in Workers : job[w] = r /\ p = <<"worker", w>>
             \/ \E w \in Workers : \E i \in DOMAIN outbox[w] :
                   outbox[w][i] = Resp(r) /\ p = <<"outbox", w, i>>
BY DEF Copies, Req, Resp

\* A request is present, as the mapping has it, exactly when it is held.
LEMMA PresentHeld == ASSUME NEW r PROVE Present(r) <=> Held(r)
BY Zenon DEF Present, Held, InPipe, InQueue, AtWorker, InOutbox, Has, Req, Resp

PresentSet == {r \in Requests : Present(r)}
HeldSet    == {r \in Requests : Held(r)}

\* The open requests of the mapping are the ones held.
LEMMA OpenHeld == PresentSet = HeldSet
BY PresentHeld DEF PresentSet, HeldSet

\* A request is never both denied and applied, applied by two workers or
\* answered twice: receiveValidator, the queue, the workers and receiveWorkers
\* hand each request on and keep no copy, for any pool and any queue.
THEOREM RequestsAnsweredAtMostOnce == Spec => []AnsweredAtMostOnce
<1>1. TypeOK /\ RequestInv => AnsweredAtMostOnce
  <2> SUFFICES ASSUME TypeOK, RequestInv, NEW r \in Requests
               PROVE  /\ answers[r] <= 1
                      /\ Present(r) => answers[r] = 0
                      /\ \A p, q \in Copies(r) : p = q
      BY DEF AnsweredAtMostOnce
  <2>1. Single(r) /\ Apart(r)
    BY DEF RequestInv
  <2>2. answers[r] <= 1
    BY <2>1 DEF Apart
  <2>3. Present(r) => answers[r] = 0
    BY <2>1, PresentHeld, Zenon DEF Apart, Held
  <2>4. ASSUME NEW p \in Copies(r), NEW q \in Copies(r) PROVE p = q
    <3> DEFINE PipeAt(x)   == \E i \in DOMAIN toProcessor :
                                toProcessor[i] = Req(r) /\ x = <<"pipe", i>>
               QueueAt(x)  == \E i \in DOMAIN queue : queue[i] = r /\ x = <<"queue", i>>
               WorkerAt(x) == \E w \in Workers : job[w] = r /\ x = <<"worker", w>>
               OutboxAt(x) == \E w \in Workers : \E i \in DOMAIN outbox[w] :
                                outbox[w][i] = Resp(r) /\ x = <<"outbox", w, i>>
    <3>a. PipeAt(p) \/ QueueAt(p) \/ WorkerAt(p) \/ OutboxAt(p)
      BY CopyPlaces, SMTT(30)
    <3>b. PipeAt(q) \/ QueueAt(q) \/ WorkerAt(q) \/ OutboxAt(q)
      BY CopyPlaces
    <3>c. /\ PipeAt(q) => InPipe(r)
          /\ QueueAt(q) => InQueue(r)
          /\ WorkerAt(q) => \E w \in Workers : AtWorker(r, w)
          /\ OutboxAt(q) => \E w \in Workers : InOutbox(r, w)
      BY Zenon DEF InPipe, InQueue, AtWorker, InOutbox, Has
    <3> HIDE DEF PipeAt, QueueAt, WorkerAt, OutboxAt
    <3>1. CASE PipeAt(p)
      <4>1. InPipe(r)
        BY <3>1, Zenon DEF PipeAt, InPipe, Has
      <4>2. ~InQueue(r) /\ \A w \in Workers : ~AtWorker(r, w) /\ ~InOutbox(r, w)
        BY <2>1, <4>1, Zenon DEF Apart
      <4>3. PipeAt(q)
        BY <3>b, <3>c, <4>2, Zenon
      <4> QED BY <2>1, <3>1, <4>3, Zenon DEF PipeAt, Single, Once
    <3>2. CASE QueueAt(p)
      <4>1. InQueue(r)
        BY <3>2, Zenon DEF QueueAt, InQueue, Has
      <4>2. ~InPipe(r) /\ \A w \in Workers : ~AtWorker(r, w) /\ ~InOutbox(r, w)
        BY <2>1, <4>1, Zenon DEF Apart
      <4>3. QueueAt(q)
        BY <3>b, <3>c, <4>2, Zenon
      <4> QED BY <2>1, <3>2, <4>3, Zenon DEF QueueAt, Single, Once
    <3>3. CASE WorkerAt(p)
      <4>1. \E w \in Workers : AtWorker(r, w)
        BY <3>3, Zenon DEF WorkerAt, AtWorker
      <4>2. ~InPipe(r) /\ ~InQueue(r) /\ \A w \in Workers : ~InOutbox(r, w)
        BY <2>1, <4>1, Zenon DEF Apart
      <4>3. WorkerAt(q)
        BY <3>b, <3>c, <4>2, Zenon
      <4> QED BY <2>1, <3>3, <4>3, Zenon DEF WorkerAt, Apart, AtWorker
    <3>4. CASE OutboxAt(p)
      <4>1. PICK v \in Workers : \E i \in DOMAIN outbox[v] :
               outbox[v][i] = Resp(r) /\ p = <<"outbox", v, i>>
        BY <3>4, Zenon DEF OutboxAt
      <4>2. InOutbox(r, v)
        BY <4>1, Zenon DEF InOutbox, Has
      <4>3. ~InPipe(r) /\ ~InQueue(r) /\ \A w \in Workers : ~AtWorker(r, w)
        BY <2>1, <4>2, Zenon DEF Apart
      <4>4. PICK w \in Workers : \E j \in DOMAIN outbox[w] :
               outbox[w][j] = Resp(r) /\ q = <<"outbox", w, j>>
        BY <3>b, <3>c, <4>3, Zenon DEF OutboxAt
      <4>5. v = w
        BY <2>1, <4>2, <4>4, Zenon DEF Apart, InOutbox, Has
      <4> QED BY <2>1, <4>1, <4>4, <4>5, Zenon DEF Single, Once
    <3> QED BY <3>a, <3>1, <3>2, <3>3, <3>4, ZenonT(30)
  <2> QED BY <2>2, <2>3, <2>4, SMTT(30)
<1> QED BY <1>1, RequestsHeld, PTL

\* The processor implements RequestService: on a connection it serves, a request
\* leaves it only by its answer, by ending a worker that cannot handle it, or
\* when shutdown() begins, and a restart begins with nothing.
THEOREM ProcessorIsRequestService == Spec => IsRequestService
<1>1. Init => Service!Init
  <2> SUFFICES ASSUME Init PROVE Service!Init
      OBVIOUS
  <2>1. ~(~Closed /\ main # "start")
    BY DEF Init
  <2>2. \A r \in Requests : ~Present(r)
    <3>1. \A r \in Requests : ~Held(r)
      BY HasEmpty, ConstantsAssumption, ZenonT(30)
      DEF Init, Held, InPipe, InQueue, AtWorker, InOutbox, NoJob, ConstantsAssumption
    <3> QED BY <3>1, PresentHeld, Zenon
  <2>3. \A r \in Requests : ~(answers[r] > 0)
    BY SMTT(30) DEF Init
  <2> QED BY <2>1, <2>2, <2>3, Zenon DEF Service!Init
<1>2. ASSUME TypeOK, RequestInv, [Next]_vars
      PROVE  [Service!Next]_<<~Closed /\ main # "start",
                             {r \in Requests : Present(r)},
                             {r \in Requests : answers[r] > 0}>>
  <2> DEFINE serving == ~Closed /\ main # "start"
             open == {r \in Requests : Present(r)}
             answered == {r \in Requests : answers[r] > 0}
  <2>1. (PresentSet = HeldSet)'
    BY OpenHeld, PTL
  <2>2. open = {r \in Requests : Held(r)} /\ open' = {r \in Requests : Held(r)'}
    BY <2>1, OpenHeld DEF PresentSet, HeldSet
  <2>3. Effect
    BY <1>2, StepRequests, SMTT(30)
  <2>4. (serving <=> Serving) /\ (serving' <=> Serving')
    BY DEF Serving
  <2>5. \A r \in Requests : answers[r] \in Nat
    BY <1>2, Zenon DEF TypeOK, TypeOKValidator
  <2>6. CASE Connects
    <3>1. ~serving /\ serving' = TRUE /\ open' = {} /\ answered' = {}
      BY <2>2, <2>4, <2>6, SMTT(30) DEF Connects
    <3> QED BY <3>1 DEF Service!Next, Service!Connect
  <2>7. CASE Keeps
    <3>1. UNCHANGED <<serving, open, answered>>
      BY <2>2, <2>4, <2>7, ZenonT(30) DEF Keeps, SameServing, KeepsAll, SameCount
    <3> QED BY <3>1, Zenon
  <2>8. CASE Answers
    <3>1. PICK q \in Requests :
            Held(q) /\ ~Held(q)' /\ answers'[q] = answers[q] + 1 /\ KeepsBut(q)
      BY <2>8, ZenonT(30) DEF Answers, AnswersOne
    <3>2. q \in open /\ open' = open \ {q}
      BY <2>2, <3>1, Zenon DEF KeepsBut
    <3>3. answered' = answered \cup {q}
      BY <2>5, <3>1 DEF KeepsBut, SameCount
    <3>4. serving /\ UNCHANGED serving
      BY <2>4, <2>8, Zenon DEF Answers
    <3> QED BY <3>2, <3>3, <3>4 DEF Service!Next, Service!Answer
  <2>9. CASE Loses
    <3>1. open' \subseteq open /\ UNCHANGED answered
      BY <2>2, <2>9, SMTT(30) DEF Loses, SameCount
    <3>2. serving' = FALSE
      BY <2>4, <2>9, ZenonT(30) DEF Loses
    <3> QED BY <3>1, <3>2, Zenon DEF Service!Next, Service!Lose
  <2>10. CASE Drops
    <3>1. PICK q \in BadRequests : Held(q) /\ ~Held(q)' /\ SameCount(q) /\ KeepsBut(q)
      BY <2>10, Zenon DEF Drops
    <3>2. q \in Requests
      BY ConstantsAssumption, ZenonT(30) DEF ConstantsAssumption
    <3>3. q \in open /\ open' = open \ {q} /\ UNCHANGED answered
      BY <2>2, <3>1, <3>2, SMTT(30) DEF KeepsBut, SameCount
    <3>4. UNCHANGED serving
      BY <2>4, <2>10, ZenonT(30) DEF Drops, SameServing
    <3> QED BY <3>2, <3>3, <3>4, SMTT(30) DEF Service!Next, Service!Drop
  <2>11. CASE Asks
    <3>1. PICK q \in Requests :
            /\ ~Held(q) /\ answers[q] = 0 /\ Held(q)'
            /\ SameCount(q) /\ KeepsBut(q)
      BY <2>11, ZenonT(30) DEF Asks
    <3>2. q \notin open \cup answered /\ open' = open \cup {q} /\ UNCHANGED answered
      BY <2>2, <3>1, SMTT(30) DEF KeepsBut, SameCount
    <3>3. UNCHANGED serving
      BY <2>4, <2>11, ZenonT(30) DEF Asks, SameServing
    <3> QED BY <3>2, <3>3, SMTT(30) DEF Service!Next, Service!Request
  <2> QED BY <2>3, <2>6, <2>7, <2>8, <2>9, <2>10, <2>11, Zenon DEF Effect
<1> QED BY <1>1, <1>2, RequestsHeld, PTL DEF Spec, IsRequestService, Service!Spec
-----------------------------------------------------------------------------
(* Denials.                                                                 *)

INSTANCE FiniteSetTheorems

\* The validator has sent finitely many requests, and nothing else gets into
\* the queue of a processor that goes on.
OccupancyInv ==
    /\ IsFiniteSet(sent)
    /\ main # "failed" => \A i \in DOMAIN queue : queue[i] \in Requests

\* start() does not go on once it has failed.
LEMMA FailedStays == Next /\ main' # "failed" => main # "failed"
<1>1. Router => main # "failed"
  BY ZenonT(30) DEF Router, Start, RegisterReceive, RegisterShutdown, Poll, ReceiveValidator,
         ReceiveMonitor, ReceiveWorkers, ReceiveShutdown, UnregisterTimeout, Join, Turn
<1>2. ASSUME NEW w \in Workers, Worker(w) PROVE main' = main
  BY <1>2, Zenon DEF Worker, WorkerTake, WorkerLeave, WorkerCall, WorkerReceive, WorkerReply,
                     rest, mainVars
<1>3. Environment => main' = main
  BY Zenon DEF Environment, ValidatorRegisters, ValidatorPings, Disconnect, Shutdown,
               ValidatorRequests, ValidatorAnswers, ValidatorRepeats, processorVars, mainVars
<1> QED BY <1>1, <1>2, <1>3, ZenonT(30) DEF Next

\* What a step does to the queue ...
LEMMA QueueStep ==
    ASSUME TypeOK, Next, main' # "failed"
    PROVE  \/ queue' \in {queue, <<>>}
           \/ queue # <<>> /\ queue' = Tail(queue)
           \/ \E r \in Requests : queue' = Append(queue, r)
<1>1. CASE Router
  <2>1. CASE RegisterReceive
    BY <2>1, ZenonT(30) DEF RegisterReceive, RegisterUnexpected, RegisterConfirmed, RegisterRejected, Fail
  <2>2. CASE ReceiveValidator
    <3>1. /\ Head(toProcessor) \in ValidatorMessages
          /\ \/ UNCHANGED queue
             \/ /\ Head(toProcessor).type = "TP_PROCESS_REQUEST"
                /\ queue' = Append(queue, Head(toProcessor).id)
      BY <2>2, HeadTailProperties, Zenon
      DEF TypeOK, TypeOKValidator, ReceiveValidator, ReceiveRequest, ReceivePing, ReceiveResponse
    <3>2. Head(toProcessor).type = "TP_PROCESS_REQUEST" => Head(toProcessor).id \in Requests
      BY <3>1, ZenonT(30) DEF ValidatorMessages
    <3> QED BY <3>1, <3>2, ZenonT(30)
  <2>3. CASE Start \/ RegisterShutdown \/ Poll \/ ReceiveMonitor \/ ReceiveWorkers
             \/ ReceiveShutdown \/ UnregisterTimeout \/ Join
    BY <2>3, Zenon DEF Start, RegisterShutdown, Poll, ReceiveMonitor, ReceiveWorkers,
                       ReceiveShutdown, UnregisterTimeout, Join
  <2> QED BY <1>1, <2>1, <2>2, <2>3, ZenonT(30) DEF Router
<1>2. ASSUME NEW w \in Workers, Worker(w)
      PROVE  queue' = queue \/ (queue # <<>> /\ queue' = Tail(queue))
  BY <1>2, Zenon DEF Worker, WorkerTake, WorkerLeave, WorkerCall, WorkerReceive, WorkerReply
<1>3. Environment => queue' = queue
  BY Zenon DEF Environment, ValidatorRegisters, ValidatorPings, Disconnect, Shutdown,
               ValidatorRequests, ValidatorAnswers, ValidatorRepeats, processorVars
<1> QED BY <1>1, <1>2, <1>3, Zenon DEF Next

\* ... and to the requests sent.
LEMMA SentStep ==
    ASSUME Next PROVE sent' \in {sent, {}} \/ \E r : sent' = sent \cup {r}
<1>1. Router => sent' \in {sent, {}}
  BY Zenon DEF Router, Start, RegisterReceive, RegisterShutdown, Poll, ReceiveValidator,
         ReceiveMonitor, ReceiveWorkers, ReceiveShutdown, UnregisterTimeout, Join,
         validatorVars
<1>2. ASSUME NEW w \in Workers, Worker(w) PROVE sent' = sent
  BY <1>2, Zenon DEF Worker, WorkerTake, WorkerLeave, WorkerCall, WorkerReceive, WorkerReply,
                     rest, validatorVars
<1>3. Environment => sent' = sent \/ \E r : sent' = sent \cup {r}
  BY Zenon DEF Environment, ValidatorRegisters, ValidatorPings, Disconnect, Shutdown,
               ValidatorRequests, ValidatorAnswers, ValidatorRepeats, validatorVars
<1> QED BY <1>1, <1>2, <1>3, ZenonT(30) DEF Next

\* OccupancyInv over every step.
LEMMA StepOccupancy == TypeOK /\ OccupancyInv /\ [Next]_vars => OccupancyInv'
<1> SUFFICES ASSUME TypeOK, OccupancyInv, [Next]_vars PROVE OccupancyInv'
    OBVIOUS
<1>1. CASE UNCHANGED vars
  BY <1>1, Zenon DEF vars, mainVars, validatorVars, OccupancyInv
<1>2. CASE Next
  <2>1. IsFiniteSet(sent')
    <3>1. ASSUME NEW r PROVE IsFiniteSet(sent \cup {r})
      BY FS_AddElement, ZenonT(30) DEF OccupancyInv
    <3> QED BY <1>2, <3>1, SentStep, FS_EmptySet, Zenon DEF OccupancyInv
  <2>2. ASSUME main' # "failed" PROVE \A i \in DOMAIN queue' : queue'[i] \in Requests
    <3>1. queue \in Seq(MessageIds) /\ \A i \in DOMAIN queue : queue[i] \in Requests
      BY <1>2, <2>2, FailedStays, Zenon DEF OccupancyInv, TypeOK, TypeOKRouter
    <3>2. queue \in Seq(Requests)
      BY <3>1, LenProperties, SMTT(30)
    <3>3. queue' \in Seq(Requests)
      <4>1. CASE queue' \in {queue, <<>>}
        BY <3>2, <4>1, EmptySeq, ZenonT(30)
      <4>2. CASE queue # <<>> /\ queue' = Tail(queue)
        BY <3>2, <4>2, HeadTailProperties, Zenon
      <4>3. ASSUME NEW r \in Requests, queue' = Append(queue, r) PROVE queue' \in Seq(Requests)
        BY <3>2, <4>3, AppendProperties, Zenon
      <4> QED BY <1>2, <2>2, <4>1, <4>2, <4>3, QueueStep, Zenon
    <3> QED BY <3>3, LenProperties, Zenon
  <2> QED BY <2>1, <2>2, ZenonT(30) DEF OccupancyInv
<1> QED BY <1>1, <1>2, Zenon

\* Only a denial answers a request and leaves the workers' pipes alone.
LEMMA DenialOnly ==
    ASSUME TypeOK, Next, outbox' = outbox, NEW r \in Requests, answers'[r] > answers[r]
    PROVE  /\ main = "poll" /\ toProcessor # <<>> /\ ~(Len(queue) < MaxQueue)
           /\ Head(toProcessor).type = "TP_PROCESS_REQUEST"
<1>1. answers \in [Requests -> Nat] /\ outbox \in [Workers -> Seq(WorkerMessages)]
  BY Zenon DEF TypeOK, TypeOKValidator, TypeOKWorkers
<1>2. answers' # answers
  BY <1>1, SMTT(30)
<1>3. CASE Router
  <2>1. ~Start
    BY <1>1, SMTT(30) DEF Start
  <2>2. ~ReceiveWorkers
    <3> SUFFICES ASSUME NEW w \in Workers, outbox[w] # <<>>,
                        outbox' = [outbox EXCEPT ![w] = Tail(@)]
                 PROVE  FALSE
        BY Zenon DEF ReceiveWorkers
    <3> DEFINE s == outbox[w]
    <3>1. s \in Seq(WorkerMessages) /\ s = Tail(s) /\ s # <<>>
      BY <1>1, Zenon
    <3> HIDE DEF s
    <3>2. Len(Tail(s)) = Len(s) - 1 /\ Len(s) \in Nat
      BY <3>1, HeadTailProperties, LenProperties, Zenon
    <3> QED BY <3>1, <3>2, SMTT(30)
  <2>3. ReceiveValidator
    BY <1>2, <1>3, <2>1, <2>2, Zenon
    DEF Router, RegisterReceive, RegisterShutdown, Poll, ReceiveMonitor, ReceiveShutdown,
        UnregisterTimeout, Join
  <2> QED BY <1>2, <2>3, Zenon DEF ReceiveValidator, Turn, ReceiveRequest, ReceivePing, ReceiveResponse
<1>4. ASSUME NEW w \in Workers, Worker(w) PROVE answers' = answers
  BY <1>4, Zenon DEF Worker, WorkerTake, WorkerLeave, WorkerCall, WorkerReceive, WorkerReply,
                     rest
<1>5. Environment => answers' = answers
  BY Zenon DEF Environment, ValidatorRegisters, ValidatorPings, Disconnect, Shutdown,
               ValidatorRequests, ValidatorAnswers, ValidatorRepeats
<1> QED BY <1>2, <1>3, <1>4, <1>5, Zenon DEF Next

\* It finds a full queue of distinct requests, and one more in the pipe.
LEMMA DenialOccupied ==
    ASSUME TypeOK, RequestInv, OccupancyInv, main = "poll", toProcessor # <<>>,
           ~(Len(queue) < MaxQueue), Head(toProcessor).type = "TP_PROCESS_REQUEST"
    PROVE  Cardinality({r \in Requests : Present(r)}) > MaxQueue
<1> DEFINE n == Len(queue)
           d == Head(toProcessor).id
           T == HeldSet \ {d}
<1>1. HeldSet \subseteq sent
  BY Zenon DEF HeldSet, Held, RequestInv, Apart
<1>2. IsFiniteSet(HeldSet)
  BY <1>1, FS_Subset, Zenon DEF OccupancyInv
<1>3. d \in Requests /\ InPipe(d)
  <2>1. Head(toProcessor) \in ValidatorMessages /\ toProcessor \in Seq(ValidatorMessages)
    BY HeadTailProperties, Zenon DEF TypeOK, TypeOKValidator
  <2>2. d \in Requests
    BY <2>1, Zenon DEF ValidatorMessages
  <2>3. Req(d) = Head(toProcessor)
    BY <2>1, ReqIs, Zenon
  <2>4. 1 \in DOMAIN toProcessor /\ Head(toProcessor) = toProcessor[1]
    BY <2>1, HeadTailProperties, LenProperties, EmptySeq, SMTT(30)
  <2> QED BY <2>2, <2>3, <2>4, Zenon DEF InPipe, Has
<1> HIDE DEF d
<1>4. d \in HeldSet /\ ~InQueue(d)
  BY <1>3, Zenon DEF HeldSet, Held, RequestInv, Apart
<1>5. queue \in Seq(MessageIds) /\ n \in Nat /\ DOMAIN queue = 1..n
  BY LenProperties, Zenon DEF TypeOK, TypeOKRouter
<1>6. \A i \in 1..n : queue[i] \in Requests /\ InQueue(queue[i])
  BY <1>5, Zenon DEF OccupancyInv, InQueue, Has
<1>7. \A i \in 1..n : queue[i] \in T
  BY <1>4, <1>6, Zenon DEF HeldSet, Held
<1>8. \A i, j \in 1..n : queue[i] = queue[j] => i = j
  BY <1>5, <1>6, Zenon DEF RequestInv, Single, Once
<1>9. IsFiniteSet(T) /\ Cardinality(T) = Cardinality(HeldSet) - 1
      /\ Cardinality(HeldSet) \in Nat
  BY <1>2, <1>4, FS_RemoveElement, FS_CardinalityType, ZenonT(30)
<1> HIDE DEF n, T
<1>10. Cardinality(1..n) <= Cardinality(T)
  <2> DEFINE D == 1..n
  <2>1. \A i \in D : queue[i] \in T
    BY <1>7, Zenon
  <2>2. \A i, j \in D : queue[i] = queue[j] => i = j
    BY <1>8
  <2>3. [i \in D |-> queue[i]] \in Injection(D, T)
    <3> HIDE DEF D
    <3> QED BY <2>1, <2>2, ZenonT(30) DEF Injection, IsInjective
  <2> HIDE DEF D
  <2>4. Cardinality(D) <= Cardinality(T)
    BY <1>9, <2>3, FS_Injection, ZenonT(30)
  <2> QED BY <2>4, ZenonT(30) DEF D
<1>11. Cardinality(1..n) = n
  <2> DEFINE one == 1
  <2>1. one \in Int /\ n \in Int
    BY <1>5, SMTT(30)
  <2> HIDE DEF one
  <2>2. Cardinality(one..n) = IF one > n THEN 0 ELSE n - one + 1
    BY <2>1, FS_Interval, Zenon
  <2> QED BY <1>5, <2>2, SMTT(30) DEF one
<1>12. Cardinality(HeldSet) > MaxQueue
  BY <1>5, <1>9, <1>10, <1>11, ConstantsAssumption, SMTT(30) DEF ConstantsAssumption, n
<1> QED BY <1>12, OpenHeld, ZenonT(30) DEF PresentSet

\* receiveValidator denies a request only when MaxQueue others are in the
\* processor, for any capacity of the queue and any number of workers.
THEOREM DenialsAreJustified == Spec => DeniedOnlyWhenOccupied
<1>1. Init => OccupancyInv
  BY FS_EmptySet DEF Init, OccupancyInv
<1>2. Spec => []OccupancyInv
  BY <1>1, StepOccupancy, RequestsHeld, PTL DEF Spec
<1>3. TypeOK /\ RequestInv /\ OccupancyInv /\ [Next]_vars => [DeniesOccupied]_vars
  <2> SUFFICES ASSUME TypeOK, RequestInv, OccupancyInv, Next PROVE DeniesOccupied
    OBVIOUS
  <2> QED BY DenialOnly, DenialOccupied, Zenon DEF DeniesOccupied
<1> QED BY <1>2, <1>3, RequestsHeld, PTL DEF Spec, DeniedOnlyWhenOccupied
=============================================================================
