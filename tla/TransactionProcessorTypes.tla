--------------------- MODULE TransactionProcessorTypes ----------------------
(* Type correctness of TransactionProcessor, for any workers, requests and  *)
(* bounds.                                                                  *)
EXTENDS TransactionProcessor, TLAPS, SequenceTheorems

(* Values in a sequence.                                                    *)

Has(s, x)  == \E i \in DOMAIN s : s[i] = x
Once(s, x) == \A i, j \in DOMAIN s : s[i] = x /\ s[j] = x => i = j

\* Nothing is in the empty sequence.
LEMMA HasEmpty == ASSUME NEW x PROVE ~Has(<<>>, x) /\ Once(<<>>, x)
BY DEF Has, Once

\* Append adds its element, and only that.
LEMMA HasAppend ==
    ASSUME NEW S, NEW s \in Seq(S), NEW y \in S, NEW x
    PROVE  /\ Has(Append(s, y), x) <=> Has(s, x) \/ x = y
           /\ Once(s, x) /\ (x = y => ~Has(s, x)) => Once(Append(s, y), x)
<1> DEFINE t == Append(s, y)
<1>1. /\ Len(s) \in Nat /\ DOMAIN s = 1..Len(s)
      /\ DOMAIN t = 1..(Len(s) + 1)
      /\ \A i \in 1..Len(s) : t[i] = s[i]
      /\ t[Len(s) + 1] = y
  BY AppendProperties, LenProperties
<1> HIDE DEF t
<1>2. DOMAIN t = DOMAIN s \cup {Len(s) + 1} /\ Len(s) + 1 \notin DOMAIN s
  BY <1>1
<1>3. \A i \in DOMAIN s : t[i] = s[i]
  BY <1>1
<1>4. Has(t, x) <=> Has(s, x) \/ x = y
  BY <1>1, <1>2, <1>3, Zenon DEF Has
<1>5. Once(s, x) /\ (x = y => ~Has(s, x)) => Once(t, x)
  BY <1>1, <1>2, <1>3 DEF Has, Once
<1> QED BY <1>4, <1>5 DEF t

\* Tail keeps every copy of a value other than the head.
LEMMA HasTailOther ==
    ASSUME NEW S, NEW s \in Seq(S), s # <<>>, NEW x, Has(s, x), x # Head(s)
    PROVE  Has(Tail(s), x)
<1> DEFINE t == Tail(s)
<1>1. /\ Len(s) \in Nat \ {0} /\ DOMAIN s = 1..Len(s)
      /\ DOMAIN t = 1..(Len(s) - 1)
      /\ \A i \in 1..(Len(s) - 1) : t[i] = s[i + 1]
      /\ Head(s) = s[1]
  BY HeadTailProperties, LenProperties, EmptySeq
<1> HIDE DEF t
<1>2. PICK i \in DOMAIN s : s[i] = x
  BY Zenon DEF Has
<1>3. i # 1
  BY <1>1, <1>2
<1>4. i - 1 \in DOMAIN t /\ t[i - 1] = x
  BY <1>1, <1>2, <1>3
<1> QED BY <1>4, Zenon DEF Has, t

\* Tail takes away the head, and nothing else.
LEMMA HasTail ==
    ASSUME NEW S, NEW s \in Seq(S), s # <<>>, NEW x, Once(s, x)
    PROVE  /\ Has(Tail(s), x) <=> Has(s, x) /\ x # Head(s)
           /\ x = Head(s) => Has(s, x)
           /\ Once(Tail(s), x)
<1> DEFINE t == Tail(s)
<1>1. /\ Len(s) \in Nat \ {0} /\ DOMAIN s = 1..Len(s)
      /\ DOMAIN t = 1..(Len(s) - 1)
      /\ \A i \in 1..(Len(s) - 1) : t[i] = s[i + 1]
      /\ Head(s) = s[1]
  BY HeadTailProperties, LenProperties, EmptySeq
<1> HIDE DEF t
<1>2. ASSUME NEW i \in DOMAIN t
      PROVE  i + 1 \in DOMAIN s /\ i + 1 # 1 /\ t[i] = s[i + 1]
  BY <1>1
<1>4. 1 \in DOMAIN s
  BY <1>1
<1>5. Has(t, x) => Has(s, x) /\ x # Head(s)
  <2> SUFFICES ASSUME Has(t, x) PROVE Has(s, x) /\ x # Head(s)
      OBVIOUS
  <2>1. PICK i \in DOMAIN t : t[i] = x
    BY Zenon DEF Has
  <2>2. i + 1 \in DOMAIN s /\ i + 1 # 1 /\ s[i + 1] = x
    BY <1>2, <2>1
  <2>3. Has(s, x)
    BY <2>2, Zenon DEF Has
  <2>4. s[1] # x
    BY <1>4, <2>2, Zenon DEF Once
  <2> QED BY <1>1, <2>3, <2>4
<1>6. Has(s, x) /\ x # Head(s) => Has(t, x)
  BY HasTailOther DEF t
<1>7. x = Head(s) => Has(s, x)
  BY <1>1, <1>4 DEF Has
<1>8. Once(t, x)
  <2> SUFFICES ASSUME NEW i \in DOMAIN t, NEW j \in DOMAIN t, t[i] = x, t[j] = x
               PROVE  i = j
      BY DEF Once
  <2>1. i + 1 = j + 1
    BY <1>2 DEF Once
  <2> QED BY <1>1, <2>1
<1> QED BY <1>5, <1>6, <1>7, <1>8 DEF t
-----------------------------------------------------------------------------
\* Writing to one of a family of pipes.
LEMMA PipeAppend ==
    ASSUME NEW S, NEW W, NEW f \in [W -> Seq(S)], NEW w \in W, NEW x \in S
    PROVE  [f EXCEPT ![w] = Append(@, x)] \in [W -> Seq(S)]
<1>1. Append(f[w], x) \in Seq(S)
  BY AppendProperties
<1> QED BY <1>1

\* Reading from one of a family of pipes.
LEMMA PipeTail ==
    ASSUME NEW S, NEW W, NEW f \in [W -> Seq(S)], NEW w \in W, f[w] # <<>>
    PROVE  /\ Head(f[w]) \in S
           /\ [f EXCEPT ![w] = Tail(@)] \in [W -> Seq(S)]
<1>1. f[w] \in Seq(S)
  OBVIOUS
<1>2. Head(f[w]) \in S /\ Tail(f[w]) \in Seq(S)
  BY <1>1, HeadTailProperties
<1> QED BY <1>2

\* What a message from the validator looks like.
LEMMA ValidatorMessageFields ==
    ASSUME NEW m \in ValidatorMessages
    PROVE  /\ m.type \in MessageTypes
           /\ m.type # "TP_REGISTER_RESPONSE" => m.id \in MessageIds
           /\ m.type = "TP_PROCESS_REQUEST" => m.id \in Requests
BY DEF ValidatorMessages, MessageTypes, MessageIds

\* What a message from a worker looks like.
LEMMA WorkerMessageFields ==
    ASSUME NEW m \in WorkerMessages
    PROVE  \/ m.type = "TP_PROCESS_RESPONSE" /\ m.id \in Requests
           \/ m.type = "TP_STATE_REQUEST" /\ m.id \in CallIds
BY DEF WorkerMessages
-----------------------------------------------------------------------------
(* Types.                                                                  *)

\* The type invariant holds initially.
LEMMA InitTypeOK == Init => TypeOK
<1> SUFFICES ASSUME Init PROVE TypeOK
    OBVIOUS
<1> USE ConstantsAssumption DEF ConstantsAssumption
<1>1. TypeOKRouter
  <2>1. DOMAIN ids = {}
    BY DEF Init
  <2>2. /\ main = "start" /\ cause = "none" /\ registering = 1 /\ polled = {}
        /\ monitored = FALSE /\ asked = FALSE
    BY DEF Init
  <2>3. queue \in Seq(MessageIds) /\ shutdowns \in Seq({"restart", "shutdown"})
    BY EmptySeq DEF Init
  <2>4. \A c \in DOMAIN ids : ids[c] \in Workers
    BY <2>1
  <2>5. registering \in 1..Registrations
    BY <2>2
  <2>6. monitored \in BOOLEAN /\ asked \in BOOLEAN
    BY <2>2, Zenon
  <2> QED BY <2>1, <2>2, <2>3, <2>4, <2>5, <2>6, Zenon DEF TypeOKRouter
<1>2. TypeOKWorkers
  BY DEF Init, TypeOKWorkers, CallIds, NoCall, NoJob
<1>3. TypeOKValidator
  <2>1. toProcessor \in Seq(ValidatorMessages)
    BY EmptySeq DEF Init
  <2> QED BY <2>1, Zenon DEF Init, TypeOKValidator
<1> QED BY <1>1, <1>2, <1>3 DEF TypeOK

\* Every step of the router keeps the types.
LEMMA RouterTypeOK == TypeOK /\ Router => TypeOK'
<1> SUFFICES ASSUME TypeOKRouter, TypeOKWorkers, TypeOKValidator, Router
             PROVE  TypeOKRouter' /\ TypeOKWorkers' /\ TypeOKValidator'
    BY DEF TypeOK
<1> USE ConstantsAssumption DEF ConstantsAssumption, mainVars, workerVars,
        shutdownVars, validatorVars, countVars
<1>1. CASE Start
  <2>1. TypeOKRouter'
    <3>1. DOMAIN ids' = {}
      BY <1>1 DEF Start
    <3>2. /\ queue' \in Seq(MessageIds)
          /\ shutdowns' \in Seq({"restart", "shutdown"})
      BY <1>1, EmptySeq DEF Start
    <3>3. /\ main' = "register" /\ cause' = "none" /\ registering' = 1
          /\ polled' = {} /\ monitored' = FALSE /\ asked' = asked
      BY <1>1 DEF Start
    <3>4. \A c \in DOMAIN ids' : ids'[c] \in Workers
      BY <3>1
    <3>5. registering' \in 1..Registrations
      BY <3>3
    <3>6. monitored' \in BOOLEAN /\ asked' \in BOOLEAN
      BY <3>3, Zenon DEF TypeOKRouter
    <3> QED BY <3>1, <3>2, <3>3, <3>4, <3>5, <3>6, Zenon DEF TypeOKRouter
  <2>2. TypeOKWorkers'
    BY <1>1 DEF Start, TypeOKWorkers, NoJob, NoCall
  <2>3. TypeOKValidator'
    BY <1>1 DEF Start, TypeOKValidator
  <2> QED BY <2>1, <2>2, <2>3
<1>2. CASE RegisterReceive
  <2> DEFINE m == Head(toProcessor)
  <2>1. /\ m \in ValidatorMessages
        /\ toProcessor' \in Seq(ValidatorMessages)
    BY <1>2, HeadTailProperties DEF RegisterReceive, TypeOKValidator
  <2>2. TypeOKWorkers'
    BY <1>2 DEF RegisterReceive, TypeOKWorkers
  <2>3. CASE RegisterUnexpected(m)
    <3>1. m.id \in MessageIds /\ m.type \in MessageTypes
      BY <2>1, <2>3, ValidatorMessageFields DEF RegisterUnexpected
    <3>2. queue' \in Seq(MessageIds)
      BY <2>3, <3>1, AppendProperties DEF RegisterUnexpected, TypeOKRouter
    <3>3. TypeOKRouter'
      BY <1>2, <2>3, <3>1, <3>2, ZenonT(30)
      DEF RegisterReceive, RegisterUnexpected, Fail, TypeOKRouter
    <3>4. TypeOKValidator'
      BY <1>2, <2>1, <2>3 DEF RegisterReceive, RegisterUnexpected, TypeOKValidator
    <3> QED BY <2>2, <3>3, <3>4
  <2>4. CASE RegisterConfirmed(m)
    <3>1. TypeOKRouter'
      BY <1>2, <2>4 DEF RegisterReceive, RegisterConfirmed, TypeOKRouter
    <3>2. TypeOKValidator'
      BY <1>2, <2>1, <2>4 DEF RegisterReceive, RegisterConfirmed, TypeOKValidator
    <3> QED BY <2>2, <3>1, <3>2
  <2>5. CASE RegisterRejected(m)
    BY <1>2, <2>1, <2>2, <2>5
    DEF RegisterReceive, RegisterRejected, Fail, TypeOKRouter, TypeOKValidator
  <2> QED BY <1>2, <2>3, <2>4, <2>5 DEF RegisterReceive
<1>3. CASE RegisterShutdown
  BY <1>3 DEF RegisterShutdown, Fail, TypeOKRouter, TypeOKWorkers, TypeOKValidator
<1>4. CASE Poll
  BY <1>4 DEF Poll, TypeOKRouter, TypeOKWorkers, TypeOKValidator
<1>5. CASE ReceiveValidator
  <2> DEFINE m == Head(toProcessor)
  <2>1. /\ m \in ValidatorMessages
        /\ toProcessor' \in Seq(ValidatorMessages)
    BY <1>5, HeadTailProperties DEF ReceiveValidator, TypeOKValidator
  <2>2. CASE ReceiveRequest(m)
    <3>1. m.id \in Requests /\ m.id \in MessageIds
      BY <2>1, <2>2, ValidatorMessageFields DEF ReceiveRequest
    <3>2. queue' \in Seq(MessageIds)
      <4>1. queue \in Seq(MessageIds) /\ queue' \in {queue, Append(queue, m.id)}
        BY <2>2, Zenon DEF ReceiveRequest, TypeOKRouter
      <4> QED BY <3>1, <4>1, AppendProperties
    <3>3. answers' \in [Requests -> Nat]
      BY <2>2, <3>1, SMTT(30) DEF ReceiveRequest, Answer, TypeOKValidator
    <3>4. TypeOKRouter'
      BY <1>5, <2>2, <3>2, Zenon DEF ReceiveValidator, ReceiveRequest, TypeOKRouter
    <3>5. TypeOKWorkers'
      BY <1>5, <2>2, SMTT(30) DEF ReceiveValidator, ReceiveRequest, TypeOKWorkers
    <3>6. TypeOKValidator'
      BY <1>5, <2>1, <2>2, <3>3, Zenon DEF ReceiveValidator, ReceiveRequest, TypeOKValidator
    <3> QED BY <3>4, <3>5, <3>6
  <2>3. CASE ReceivePing(m)
    BY <1>5, <2>1, <2>3
    DEF ReceiveValidator, ReceivePing, TypeOKRouter, TypeOKWorkers, TypeOKValidator
  <2>4. CASE ReceiveResponse(m)
    <3>1. inbox' \in [Workers -> Seq(CallIds)]
      <4>1. CASE m.id \in DOMAIN ids
        <5>1. m.id \in CallIds /\ ids[m.id] \in Workers
          BY <4>1 DEF TypeOKRouter
        <5>2. inbox' = [inbox EXCEPT ![ids[m.id]] = Append(@, m.id)]
          BY <2>4, <4>1 DEF ReceiveResponse
        <5>3. inbox \in [Workers -> Seq(CallIds)]
          BY DEF TypeOKWorkers
        <5> QED BY <5>1, <5>2, <5>3, PipeAppend
      <4>2. CASE m.id \notin DOMAIN ids
        BY <2>4, <4>2 DEF ReceiveResponse, TypeOKWorkers
      <4> QED BY <4>1, <4>2, ZenonT(30)
    <3>2. DOMAIN ids' \subseteq CallIds /\ \A c \in DOMAIN ids' : ids'[c] \in Workers
      <4>1. CASE m.id \in DOMAIN ids
        <5>1. ids' = [c \in DOMAIN ids \ {m.id} |-> ids[c]]
          BY <2>4, <4>1 DEF ReceiveResponse
        <5> QED BY <5>1 DEF TypeOKRouter
      <4>2. CASE m.id \notin DOMAIN ids
        BY <2>4, <4>2, Zenon DEF ReceiveResponse, TypeOKRouter
      <4> QED BY <4>1, <4>2
    <3>3. TypeOKRouter'
      BY <1>5, <2>4, <3>2, Zenon DEF ReceiveValidator, ReceiveResponse, TypeOKRouter
    <3>4. TypeOKWorkers'
      BY <1>5, <2>4, <3>1, ZenonT(30) DEF ReceiveValidator, ReceiveResponse, TypeOKWorkers
    <3>5. TypeOKValidator'
      BY <1>5, <2>1, <2>4, SMTT(30) DEF ReceiveValidator, ReceiveResponse, TypeOKValidator
    <3> QED BY <3>3, <3>4, <3>5
  <2> QED BY <1>5, <2>2, <2>3, <2>4 DEF ReceiveValidator
<1>6. CASE ReceiveMonitor
  <2>1. shutdowns' \in Seq({"restart", "shutdown"})
    BY <1>6, AppendProperties DEF ReceiveMonitor, TypeOKRouter
  <2> QED BY <1>6, <2>1, ZenonT(30)
          DEF ReceiveMonitor, TypeOKRouter, TypeOKWorkers, TypeOKValidator
<1>7. CASE ReceiveWorkers
  <2>1. PICK w \in Workers :
          /\ outbox[w] # <<>>
          /\ outbox' = [outbox EXCEPT ![w] = Tail(@)]
          /\ \/ ForwardCall(w, Head(outbox[w]))
             \/ ForwardResponse(Head(outbox[w]))
    BY <1>7, Zenon DEF ReceiveWorkers
  <2> DEFINE m == Head(outbox[w])
  <2>2. outbox \in [Workers -> Seq(WorkerMessages)]
    BY DEF TypeOKWorkers
  <2>3. m \in WorkerMessages /\ outbox' \in [Workers -> Seq(WorkerMessages)]
    BY <2>1, <2>2, PipeTail, SMTT(30)
  <2>4. TypeOKWorkers'
    BY <1>7, <2>3 DEF ReceiveWorkers, TypeOKWorkers
  <2>5. CASE ForwardCall(w, m)
    <3>1. m.id \in CallIds
      BY <2>3, <2>5, WorkerMessageFields, SMTT(30) DEF ForwardCall
    <3>2. DOMAIN ids' \subseteq CallIds /\ \A c \in DOMAIN ids' : ids'[c] \in Workers
      BY <2>5, <3>1 DEF ForwardCall, TypeOKRouter
    <3>3. TypeOKRouter'
      BY <1>7, <2>5, <3>2, Zenon DEF ReceiveWorkers, ForwardCall, TypeOKRouter
    <3>4. TypeOKValidator'
      BY <1>7, <2>5, <3>1 DEF ReceiveWorkers, ForwardCall, TypeOKValidator
    <3> QED BY <2>4, <3>3, <3>4
  <2>6. CASE ForwardResponse(m)
    <3>1. m.id \in Requests
      BY <2>3, <2>6, WorkerMessageFields, SMTT(30) DEF ForwardResponse
    <3>2. TypeOKRouter'
      BY <1>7, <2>6, ZenonT(30) DEF ReceiveWorkers, ForwardResponse, TypeOKRouter
    <3>3. TypeOKValidator'
      BY <1>7, <2>6, <3>1 DEF ReceiveWorkers, ForwardResponse, Answer, TypeOKValidator
    <3> QED BY <2>4, <3>2, <3>3
  <2> QED BY <2>1, <2>5, <2>6
<1>8. CASE ReceiveShutdown
  <2>1. /\ Head(shutdowns) \in {"restart", "shutdown"}
        /\ shutdowns' \in Seq({"restart", "shutdown"})
    BY <1>8, HeadTailProperties DEF ReceiveShutdown, TypeOKRouter
  <2>2. TypeOKRouter'
    BY <1>8, <2>1 DEF ReceiveShutdown, TypeOKRouter
  <2>3. TypeOKWorkers'
    BY <1>8 DEF ReceiveShutdown, TypeOKWorkers
  <2>4. TypeOKValidator'
    BY <1>8, Zenon DEF ReceiveShutdown, TypeOKValidator
  <2> QED BY <2>2, <2>3, <2>4
<1>9. CASE UnregisterTimeout
  BY <1>9, Zenon DEF UnregisterTimeout, TypeOKRouter, TypeOKWorkers, TypeOKValidator
<1>10. CASE Join
  BY <1>10 DEF Join, TypeOKRouter, TypeOKWorkers, TypeOKValidator
<1> QED BY <1>1, <1>2, <1>3, <1>4, <1>5, <1>6, <1>7, <1>8, <1>9, <1>10, ZenonT(30) DEF Router

\* Every step of a worker keeps the types.
LEMMA WorkerTypeOK == ASSUME NEW w \in Workers PROVE TypeOK /\ Worker(w) => TypeOK'
<1> SUFFICES ASSUME TypeOKRouter, TypeOKWorkers, TypeOKValidator, Worker(w)
             PROVE  TypeOKRouter' /\ TypeOKWorkers' /\ TypeOKValidator'
    BY Zenon DEF TypeOK
<1> USE ConstantsAssumption DEF ConstantsAssumption, mainVars, shutdownVars,
        validatorVars, countVars
<1>1. TypeOKValidator'
  BY DEF Worker, WorkerTake, WorkerLeave, WorkerCall, WorkerReceive, WorkerReply,
         rest, TypeOKValidator
<1>2. CASE WorkerTake(w)
  <2>1. queue' \in Seq(MessageIds)
    BY <1>2, HeadTailProperties DEF WorkerTake, TypeOKRouter
  <2>2. TypeOKRouter'
    BY <1>2, <2>1 DEF WorkerTake, rest, TypeOKRouter
  <2>3. TypeOKWorkers'
    <3>1. CASE Head(queue) \in Requests \ BadRequests
      <4>1. /\ worker' = [worker EXCEPT ![w] = "apply"]
            /\ job' = [job EXCEPT ![w] = Head(queue)]
            /\ UNCHANGED <<call, saved, nextCall, outbox, inbox>>
        BY <1>2, <3>1 DEF WorkerTake
      <4> QED BY <3>1, <4>1 DEF TypeOKWorkers
    <3>2. CASE Head(queue) \notin Requests \ BadRequests
      <4>1. /\ worker' = [worker EXCEPT ![w] = "exited"]
            /\ UNCHANGED <<job, call, saved, nextCall, outbox, inbox>>
        BY <1>2, <3>2 DEF WorkerTake
      <4> QED BY <4>1 DEF TypeOKWorkers
    <3> QED BY <3>1, <3>2
  <2> QED BY <1>1, <2>2, <2>3
<1>3. CASE WorkerLeave(w)
  BY <1>1, <1>3 DEF WorkerLeave, rest, TypeOKRouter, TypeOKWorkers
<1>4. CASE WorkerCall(w)
  <2>1. TypeOKRouter'
    BY <1>4 DEF WorkerCall, rest, TypeOKRouter
  <2>2. Msg("TP_STATE_REQUEST", nextCall) \in WorkerMessages
    BY <1>4 DEF WorkerCall, Msg, WorkerMessages
  <2>3. outbox' \in [Workers -> Seq(WorkerMessages)]
    <3>1. outbox \in [Workers -> Seq(WorkerMessages)]
      BY DEF TypeOKWorkers
    <3>2. [outbox EXCEPT ![w] = Append(@, Msg("TP_STATE_REQUEST", nextCall))]
             \in [Workers -> Seq(WorkerMessages)]
      BY <2>2, <3>1, PipeAppend
    <3> QED BY <1>4, <3>1, <3>2 DEF WorkerCall, Send
  <2>4. /\ worker[w] = "apply" /\ nextCall \in CallIds
        /\ call' = [call EXCEPT ![w] = nextCall]
        /\ nextCall' = nextCall + 1
        /\ worker' = [worker EXCEPT ![w] = "recv"]
        /\ UNCHANGED <<job, saved, inbox>>
    BY <1>4 DEF WorkerCall
  <2>5. nextCall' \in 1..(MaxCalls + 1)
    BY <2>4 DEF CallIds
  <2>6. TypeOKWorkers'
    BY <2>3, <2>4, <2>5, ZenonT(30) DEF TypeOKWorkers
  <2> QED BY <1>1, <2>1, <2>6
<1>5. CASE WorkerReceive(w)
  <2>1. TypeOKRouter'
    BY <1>5 DEF WorkerReceive, rest, TypeOKRouter
  <2>2. Head(inbox[w]) \in CallIds /\ inbox' \in [Workers -> Seq(CallIds)]
    <3>1. inbox \in [Workers -> Seq(CallIds)]
      BY DEF TypeOKWorkers
    <3> QED BY <1>5, <3>1, PipeTail DEF WorkerReceive
  <2>3. TypeOKWorkers'
    <3>1. CASE Head(inbox[w]) = call[w]
      <4>1. /\ worker[w] = "recv"
            /\ worker' = [worker EXCEPT ![w] = "apply"]
            /\ call' = [call EXCEPT ![w] = NoCall]
            /\ UNCHANGED <<job, saved, nextCall, outbox>>
        BY <1>5, <3>1 DEF WorkerReceive
      <4> QED BY <2>2, <4>1 DEF TypeOKWorkers
    <3>2. CASE Head(inbox[w]) # call[w]
      <4>1. /\ saved' = [saved EXCEPT ![w] = @ \cup {Head(inbox[w])}]
            /\ UNCHANGED <<worker, job, call, nextCall, outbox>>
        BY <1>5, <3>2 DEF WorkerReceive
      <4> QED BY <2>2, <4>1 DEF TypeOKWorkers
    <3> QED BY <3>1, <3>2
  <2> QED BY <1>1, <2>1, <2>3
<1>6. CASE WorkerReply(w)
  <2>1. TypeOKRouter'
    BY <1>6, Zenon DEF WorkerReply, rest, TypeOKRouter
  <2>2. Msg("TP_PROCESS_RESPONSE", job[w]) \in WorkerMessages
    BY <1>6 DEF WorkerReply, Msg, WorkerMessages, TypeOKWorkers
  <2>3. outbox' \in [Workers -> Seq(WorkerMessages)]
    <3>1. outbox \in [Workers -> Seq(WorkerMessages)]
      BY DEF TypeOKWorkers
    <3>2. [outbox EXCEPT ![w] = Append(@, Msg("TP_PROCESS_RESPONSE", job[w]))]
             \in [Workers -> Seq(WorkerMessages)]
      BY <2>2, <3>1, PipeAppend
    <3> QED BY <1>6, <3>1, <3>2 DEF WorkerReply, Send
  <2>4. TypeOKWorkers'
    BY <1>6, <2>3, Zenon DEF WorkerReply, TypeOKWorkers
  <2> QED BY <1>1, <2>1, <2>4
<1> QED BY <1>2, <1>3, <1>4, <1>5, <1>6 DEF Worker

\* Every step of the environment keeps the types.
LEMMA EnvironmentTypeOK == TypeOK /\ Environment => TypeOK'
<1> SUFFICES ASSUME TypeOKRouter, TypeOKWorkers, TypeOKValidator, Environment
             PROVE  TypeOKRouter' /\ TypeOKWorkers' /\ TypeOKValidator'
    BY DEF TypeOK
<1> USE ConstantsAssumption DEF ConstantsAssumption, processorVars, mainVars,
        workerVars, shutdownVars, validatorVars, countVars
<1>1. ASSUME NEW m \in ValidatorMessages, ValidatorSend(m)
      PROVE  toProcessor' \in Seq(ValidatorMessages)
  BY <1>1, AppendProperties DEF ValidatorSend, TypeOKValidator
<1>2. TypeOKWorkers'
  BY Zenon DEF Environment, ValidatorRegisters, ValidatorPings, Disconnect, Shutdown,
         ValidatorRequests, ValidatorAnswers, ValidatorRepeats, TypeOKWorkers
<1>3. CASE ValidatorRegisters
  <2>1. PICK status \in {"OK", "ERROR"} : ValidatorSend(RegisterResponse(status))
    BY <1>3, Zenon DEF ValidatorRegisters
  <2>2. RegisterResponse(status) \in ValidatorMessages
    BY Zenon DEF RegisterResponse, ValidatorMessages
  <2>3. toProcessor' \in Seq(ValidatorMessages)
    BY <1>1, <2>1, <2>2, Zenon
  <2> QED BY <1>2, <1>3, <2>3 DEF ValidatorRegisters, TypeOKRouter, TypeOKValidator
<1>4. ASSUME NEW r \in Requests, ValidatorRequests(r)
      PROVE  TypeOKRouter' /\ TypeOKValidator'
  <2>1. Msg("TP_PROCESS_REQUEST", r) \in ValidatorMessages
    BY DEF Msg, ValidatorMessages
  <2>2. toProcessor' \in Seq(ValidatorMessages)
    BY <1>1, <1>4, <2>1, Zenon DEF ValidatorRequests
  <2> QED BY <1>4, <2>2, ZenonT(30) DEF ValidatorRequests, TypeOKRouter, TypeOKValidator
<1>5. CASE ValidatorPings
  <2>1. Msg("PING_REQUEST", Ping) \in ValidatorMessages
    BY DEF Msg, ValidatorMessages
  <2>2. toProcessor' \in Seq(ValidatorMessages)
    BY <1>1, <1>5, <2>1 DEF ValidatorPings
  <2> QED BY <1>2, <1>5, <2>2 DEF ValidatorPings, TypeOKRouter, TypeOKValidator
<1>6. ASSUME NEW c \in CallIds, ValidatorAnswers(c) \/ ValidatorRepeats(c)
      PROVE  TypeOKRouter' /\ TypeOKValidator'
  <2>1. Msg("TP_STATE_RESPONSE", c) \in ValidatorMessages
    BY DEF Msg, ValidatorMessages
  <2>2. toProcessor' \in Seq(ValidatorMessages)
    BY <1>1, <1>6, <2>1, Zenon DEF ValidatorAnswers, ValidatorRepeats
  <2>3. TypeOKRouter'
    BY <1>6, Zenon DEF ValidatorAnswers, ValidatorRepeats, TypeOKRouter
  <2>4. TypeOKValidator'
    BY <1>6, <2>2, SMTT(30) DEF ValidatorAnswers, ValidatorRepeats, TypeOKValidator
  <2> QED BY <2>3, <2>4
<1>7. CASE Disconnect
  <2>1. TypeOKRouter'
    BY <1>7 DEF Disconnect, TypeOKRouter
  <2>2. TypeOKValidator'
    <3>1. linked' \in BOOLEAN
      BY <1>7, Zenon DEF Disconnect
    <3> QED BY <1>7, <3>1 DEF Disconnect, TypeOKValidator
  <2> QED BY <1>2, <2>1, <2>2
<1>8. CASE Shutdown
  <2>1. shutdowns' \in Seq({"restart", "shutdown"})
    BY <1>8, AppendProperties DEF Shutdown, TypeOKRouter
  <2>2. TypeOKRouter'
    BY <1>8, <2>1 DEF Shutdown, TypeOKRouter
  <2>3. TypeOKValidator'
    BY <1>8, Zenon DEF Shutdown, TypeOKValidator
  <2> QED BY <1>2, <2>2, <2>3
<1> QED BY <1>2, <1>3, <1>4, <1>5, <1>6, <1>7, <1>8, Zenon DEF Environment

\* A step that changes nothing keeps the types.
LEMMA StutterTypeOK == TypeOK /\ UNCHANGED vars => TypeOK'
BY DEF TypeOK, TypeOKRouter, TypeOKWorkers, TypeOKValidator, vars, mainVars,
       workerVars, shutdownVars, validatorVars, countVars

\* Type correctness of the transaction processor.
THEOREM TypeCorrect == Spec => []TypeOK
<1>1. TypeOK /\ [Next]_vars => TypeOK'
  BY RouterTypeOK, WorkerTypeOK, EnvironmentTypeOK, StutterTypeOK DEF Next
<1> QED BY <1>1, InitTypeOK, PTL DEF Spec
=============================================================================
