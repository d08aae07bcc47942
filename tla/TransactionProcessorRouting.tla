-------------------- MODULE TransactionProcessorRouting ---------------------
(* State calls: RoutedToCaller and NoLostCall, for any workers, requests    *)
(* and bounds; and what follows from them for the processor as a whole,     *)
(* NoStandstill.                                                            *)
EXTENDS TransactionProcessorTypes

(* Routing.  RoutedToCaller is not inductive: it says nothing of what is   *)
(* still to come.  The parts below follow a call from the worker's pipe,   *)
(* through `ids', to the worker's inbox.                                   *)

\* An entry of `ids' names the worker that waits for that call.
IdsAwaited ==
    \A c \in DOMAIN ids :
       worker[ids[c]] = "recv" /\ call[ids[c]] = c /\ inbox[ids[c]] = <<>>

\* A call the router has not read is the last thing its worker sent, and the
\* worker waits for its answer.
CallPending ==
    \A w \in Workers : \A i \in 1..Len(outbox[w]) :
       outbox[w][i].type = "TP_STATE_REQUEST" =>
          /\ i = Len(outbox[w])
          /\ worker[w] = "recv" /\ outbox[w][i].id = call[w]
          /\ inbox[w] = <<>> /\ call[w] \notin DOMAIN ids

\* An answer delivered is the one awaited, and its entry is deleted.
InboxAwaited ==
    \A w \in Workers : inbox[w] # <<>> =>
       worker[w] = "recv" /\ inbox[w] = <<call[w]>> /\ call[w] \notin DOMAIN ids

\* Correlation ids are fresh, so no two workers wait for the same one.
CallsFresh ==
    /\ \A w \in Workers : worker[w] = "recv" => call[w] < nextCall
    /\ \A v, w \in Workers :
          worker[v] = "recv" /\ worker[w] = "recv" /\ call[v] = call[w] => v = w

NothingSaved == \A w \in Workers : saved[w] = {}

RoutingInv == IdsAwaited /\ CallPending /\ InboxAwaited /\ CallsFresh /\ NothingSaved

routingVars == <<ids, worker, call, saved, nextCall, outbox, inbox>>

\* Steps that touch none of the variables routing is about.
LEMMA RoutingFrame == RoutingInv /\ UNCHANGED routingVars => RoutingInv'
<1> SUFFICES ASSUME RoutingInv, UNCHANGED routingVars PROVE RoutingInv'
    OBVIOUS
<1>1. IdsAwaited'
  BY DEF RoutingInv, IdsAwaited, routingVars
<1>2. CallPending'
  BY DEF RoutingInv, CallPending, routingVars
<1>3. InboxAwaited'
  BY DEF RoutingInv, InboxAwaited, routingVars
<1>4. CallsFresh' /\ NothingSaved'
  BY DEF RoutingInv, CallsFresh, NothingSaved, routingVars
<1> QED BY <1>1, <1>2, <1>3, <1>4 DEF RoutingInv

\* Routing is correct before the first connection.
LEMMA InitRouting == Init => RoutingInv
<1> SUFFICES ASSUME Init PROVE RoutingInv
    OBVIOUS
<1>1. DOMAIN ids = {}
  BY DEF Init
<1>2. IdsAwaited
  BY <1>1 DEF IdsAwaited
<1>3. CallPending
  BY DEF Init, CallPending
<1>4. InboxAwaited /\ CallsFresh /\ NothingSaved
  BY ZenonT(30) DEF Init, InboxAwaited, CallsFresh, NothingSaved
<1> QED BY <1>2, <1>3, <1>4 DEF RoutingInv

\* receiveValidator delivers an answer to the one worker that waits for it.
LEMMA ReceiveValidatorRouting == TypeOK /\ RoutingInv /\ ReceiveValidator => RoutingInv'
<1> SUFFICES ASSUME TypeOK, RoutingInv, ReceiveValidator PROVE RoutingInv'
    OBVIOUS
<1> DEFINE m == Head(toProcessor)
<1>1. UNCHANGED <<worker, call, saved, nextCall, outbox>>
  BY DEF ReceiveValidator, workerVars
<1>2. CASE ids' = ids /\ inbox' = inbox
  BY <1>1, <1>2, RoutingFrame DEF routingVars
<1>3. CASE m.id \in DOMAIN ids /\ ReceiveResponse(m)
  <2> DEFINE w == ids[m.id]
  <2>1. /\ inbox' = [inbox EXCEPT ![w] = Append(@, m.id)]
        /\ ids' = [c \in DOMAIN ids \ {m.id} |-> ids[c]]
    BY <1>3 DEF ReceiveResponse
  <2>2. w \in Workers /\ inbox \in [Workers -> Seq(CallIds)] /\ m.id \in CallIds
    BY <1>3 DEF TypeOK, TypeOKRouter, TypeOKWorkers
  <2>3. worker[w] = "recv" /\ call[w] = m.id /\ inbox[w] = <<>>
    BY <1>3, Zenon DEF RoutingInv, IdsAwaited
  <2>4. inbox'[w] = <<m.id>> /\ \A v \in Workers \ {w} : inbox'[v] = inbox[v]
    BY <2>1, <2>2, <2>3, SMTT(30)
  <2>5. DOMAIN ids' = DOMAIN ids \ {m.id} /\ \A c \in DOMAIN ids' : ids'[c] = ids[c]
    BY <2>1
  <2>6. IdsAwaited'
    <3> SUFFICES ASSUME NEW c \in DOMAIN ids'
                 PROVE  /\ worker'[ids'[c]] = "recv" /\ call'[ids'[c]] = c
                        /\ inbox'[ids'[c]] = <<>>
        BY DEF IdsAwaited
    <3>1. c \in DOMAIN ids /\ c # m.id /\ ids'[c] = ids[c] /\ ids[c] \in Workers
      BY <2>5 DEF TypeOK, TypeOKRouter
    <3>2. worker[ids[c]] = "recv" /\ call[ids[c]] = c /\ inbox[ids[c]] = <<>>
      BY <3>1 DEF RoutingInv, IdsAwaited
    <3>3. ids[c] # w
      BY <2>3, <3>1, <3>2
    <3> QED BY <1>1, <2>4, <3>1, <3>2, <3>3
  <2>7. CallPending'
    <3> SUFFICES ASSUME NEW v \in Workers, NEW i \in 1..Len(outbox[v]),
                        outbox[v][i].type = "TP_STATE_REQUEST"
                 PROVE  /\ i = Len(outbox[v])
                        /\ worker[v] = "recv" /\ outbox[v][i].id = call[v]
                        /\ inbox'[v] = <<>> /\ call[v] \notin DOMAIN ids'
        BY <1>1 DEF CallPending
    <3>1. /\ i = Len(outbox[v])
          /\ worker[v] = "recv" /\ outbox[v][i].id = call[v]
          /\ inbox[v] = <<>> /\ call[v] \notin DOMAIN ids
      BY DEF RoutingInv, CallPending
    <3>2. v # w
      BY <1>3, <2>3, <3>1
    <3> QED BY <2>4, <2>5, <3>1, <3>2
  <2>8. InboxAwaited'
    <3> SUFFICES ASSUME NEW v \in Workers, inbox'[v] # <<>>
                 PROVE  /\ worker[v] = "recv" /\ inbox'[v] = <<call[v]>>
                        /\ call[v] \notin DOMAIN ids'
        BY <1>1, ZenonT(30) DEF InboxAwaited
    <3>1. CASE v = w
      BY <2>3, <2>4, <2>5, <3>1, Zenon
    <3>2. CASE v # w
      BY <2>4, <2>5, <3>2 DEF RoutingInv, InboxAwaited
    <3> QED BY <3>1, <3>2
  <2>9. CallsFresh' /\ NothingSaved'
    BY <1>1 DEF RoutingInv, CallsFresh, NothingSaved
  <2> QED BY <2>6, <2>7, <2>8, <2>9, Zenon DEF RoutingInv
<1> QED BY <1>2, <1>3, Zenon
        DEF ReceiveValidator, ReceiveRequest, ReceivePing, ReceiveResponse

\* receiveWorkers records a call for the worker it read it from.
LEMMA ReceiveWorkersRouting == TypeOK /\ RoutingInv /\ ReceiveWorkers => RoutingInv'
<1> SUFFICES ASSUME TypeOK, RoutingInv, ReceiveWorkers PROVE RoutingInv'
    OBVIOUS
<1>1. UNCHANGED <<worker, call, saved, nextCall, inbox>>
  BY DEF ReceiveWorkers, workerVars
<1>2. PICK w \in Workers :
        /\ outbox[w] # <<>>
        /\ outbox' = [outbox EXCEPT ![w] = Tail(@)]
        /\ ForwardCall(w, Head(outbox[w])) \/ ForwardResponse(Head(outbox[w]))
  BY Zenon DEF ReceiveWorkers
<1> DEFINE m == Head(outbox[w])
<1>3. outbox \in [Workers -> Seq(WorkerMessages)]
  BY DEF TypeOK, TypeOKWorkers
<1>4. /\ m \in WorkerMessages /\ m = outbox[w][1]
      /\ Len(outbox[w]) \in Nat \ {0}
      /\ outbox'[w] = Tail(outbox[w])
      /\ Len(outbox'[w]) = Len(outbox[w]) - 1
      /\ \A i \in 1..Len(outbox'[w]) : outbox'[w][i] = outbox[w][i + 1]
      /\ \A v \in Workers \ {w} : outbox'[v] = outbox[v]
  <2>1. outbox[w] \in Seq(WorkerMessages)
    BY <1>3
  <2>2. /\ m \in WorkerMessages /\ m = outbox[w][1]
        /\ Len(outbox[w]) \in Nat \ {0}
        /\ Len(Tail(outbox[w])) = Len(outbox[w]) - 1
        /\ \A i \in 1..Len(Tail(outbox[w])) : Tail(outbox[w])[i] = outbox[w][i + 1]
    BY <1>2, <2>1, HeadTailProperties, EmptySeq
  <2> QED BY <1>2, <1>3, <2>2
<1>5. CASE ForwardResponse(m)
  <2>1. ids' = ids
    BY <1>5 DEF ForwardResponse
  <2>2. CallPending'
    <3> SUFFICES ASSUME NEW v \in Workers, NEW i \in 1..Len(outbox'[v]),
                        outbox'[v][i].type = "TP_STATE_REQUEST"
                 PROVE  /\ i = Len(outbox'[v])
                        /\ worker[v] = "recv" /\ outbox'[v][i].id = call[v]
                        /\ inbox[v] = <<>> /\ call[v] \notin DOMAIN ids
        BY <1>1, <2>1 DEF CallPending
    <3>1. CASE v = w
      <4>1. i \in 1..(Len(outbox[w]) - 1) /\ i \in 1..Len(outbox'[w])
        BY <1>4, <3>1, Zenon
      <4>2. i + 1 \in 1..Len(outbox[w])
        BY <1>4, <4>1
      <4>3. outbox[w][i + 1] = outbox'[w][i]
        BY <1>4, <4>1
      <4>4. /\ i + 1 = Len(outbox[w])
            /\ worker[w] = "recv" /\ outbox[w][i + 1].id = call[w]
            /\ inbox[w] = <<>> /\ call[w] \notin DOMAIN ids
        BY <3>1, <4>2, <4>3, Zenon DEF RoutingInv, CallPending
      <4>5. i = Len(outbox'[w])
        BY <1>4, <4>1, <4>4, SMTT(30)
      <4> QED BY <3>1, <4>3, <4>4, <4>5
    <3>2. CASE v # w
      BY <1>4, <3>2 DEF RoutingInv, CallPending
    <3> QED BY <3>1, <3>2, Zenon
  <2>3. IdsAwaited' /\ InboxAwaited' /\ CallsFresh' /\ NothingSaved'
    BY <1>1, <2>1 DEF RoutingInv, IdsAwaited, InboxAwaited, CallsFresh, NothingSaved
  <2> QED BY <2>2, <2>3 DEF RoutingInv
<1>6. CASE ForwardCall(w, m)
  <2>1. m.type = "TP_STATE_REQUEST"
    BY <1>4, <1>6, WorkerMessageFields DEF ForwardCall
  <2>2. /\ Len(outbox[w]) = 1 /\ Len(outbox'[w]) = 0
        /\ worker[w] = "recv" /\ m.id = call[w]
        /\ inbox[w] = <<>> /\ call[w] \notin DOMAIN ids
    <3>1. 1 \in 1..Len(outbox[w])
      BY <1>4
    <3>2. outbox[w][1].type = "TP_STATE_REQUEST"
      BY <1>4, <2>1
    <3>3. /\ 1 = Len(outbox[w])
          /\ worker[w] = "recv" /\ outbox[w][1].id = call[w]
          /\ inbox[w] = <<>> /\ call[w] \notin DOMAIN ids
      BY <3>1, <3>2, Zenon DEF RoutingInv, CallPending
    <3> QED BY <1>4, <3>3
  <2>3. /\ DOMAIN ids' = DOMAIN ids \cup {m.id}
        /\ \A c \in DOMAIN ids' : ids'[c] = IF c = m.id THEN w ELSE ids[c]
    BY <1>6, Zenon DEF ForwardCall
  <2>4. IdsAwaited'
    BY <1>1, <2>2, <2>3 DEF RoutingInv, IdsAwaited
  <2>5. \A v \in Workers \ {w} : worker[v] = "recv" => call[v] # m.id
    BY <2>2, Zenon DEF RoutingInv, CallsFresh
  <2>6. CallPending'
    <3> SUFFICES ASSUME NEW v \in Workers, NEW i \in 1..Len(outbox'[v]),
                        outbox'[v][i].type = "TP_STATE_REQUEST"
                 PROVE  /\ i = Len(outbox'[v])
                        /\ worker[v] = "recv" /\ outbox'[v][i].id = call[v]
                        /\ inbox[v] = <<>> /\ call[v] \notin DOMAIN ids'
        BY <1>1 DEF CallPending
    <3>1. v # w
      BY <2>2
    <3>2. /\ i = Len(outbox[v])
          /\ worker[v] = "recv" /\ outbox[v][i].id = call[v]
          /\ inbox[v] = <<>> /\ call[v] \notin DOMAIN ids
      BY <1>4, <3>1, Zenon DEF RoutingInv, CallPending
    <3> QED BY <1>4, <2>3, <2>5, <3>1, <3>2
  <2>7. InboxAwaited'
    BY <1>1, <2>2, <2>3, <2>5 DEF RoutingInv, InboxAwaited
  <2>8. CallsFresh' /\ NothingSaved'
    BY <1>1 DEF RoutingInv, CallsFresh, NothingSaved
  <2> QED BY <2>4, <2>6, <2>7, <2>8, Zenon DEF RoutingInv
<1> QED BY <1>2, <1>5, <1>6

\* Every step of the router keeps routing correct.
LEMMA RouterRouting == TypeOK /\ RoutingInv /\ Router => RoutingInv'
<1> SUFFICES ASSUME TypeOK, RoutingInv, Router PROVE RoutingInv'
    OBVIOUS
<1>1. CASE Start
  <2>1. DOMAIN ids' = {}
    BY <1>1 DEF Start
  <2>2. IdsAwaited'
    BY <2>1 DEF IdsAwaited
  <2>3. CallPending'
    BY <1>1 DEF Start, CallPending
  <2>4. InboxAwaited' /\ CallsFresh' /\ NothingSaved'
    BY <1>1 DEF Start, InboxAwaited, CallsFresh, NothingSaved
  <2> QED BY <2>2, <2>3, <2>4 DEF RoutingInv
<1>2. CASE ReceiveShutdown
  <2>1. UNCHANGED <<ids, worker, call, saved, nextCall, inbox>>
    BY <1>2 DEF ReceiveShutdown, workerVars
  <2>2. CallPending'
    BY <1>2 DEF ReceiveShutdown, CallPending
  <2>3. IdsAwaited' /\ InboxAwaited' /\ CallsFresh' /\ NothingSaved'
    BY <2>1 DEF RoutingInv, IdsAwaited, InboxAwaited, CallsFresh, NothingSaved
  <2> QED BY <2>2, <2>3 DEF RoutingInv
<1>3. CASE \/ RegisterReceive \/ RegisterShutdown \/ Poll \/ ReceiveMonitor
           \/ UnregisterTimeout \/ Join
  <2>1. UNCHANGED routingVars
    BY <1>3 DEF RegisterReceive, RegisterShutdown, Poll, ReceiveMonitor,
                UnregisterTimeout, Join, routingVars, workerVars
  <2> QED BY <2>1, RoutingFrame, Zenon
<1> QED BY <1>1, <1>2, <1>3, ReceiveValidatorRouting, ReceiveWorkersRouting DEF Router

\* Every step of a worker keeps routing correct.
LEMMA WorkerRouting ==
    ASSUME NEW w \in Workers PROVE TypeOK /\ RoutingInv /\ Worker(w) => RoutingInv'
<1> SUFFICES ASSUME TypeOK, RoutingInv, Worker(w) PROVE RoutingInv'
    BY Zenon
<1>a. UNCHANGED ids
  BY DEF Worker, WorkerTake, WorkerLeave, WorkerCall, WorkerReceive, WorkerReply, rest
<1>b. \A c \in DOMAIN ids : ids[c] \in Workers
  BY DEF TypeOK, TypeOKRouter
<1>c. /\ worker \in [Workers -> {"idle", "apply", "recv", "stuck", "exited"}]
      /\ call \in [Workers -> CallIds \cup {NoCall}]
  BY DEF TypeOK, TypeOKWorkers
<1>d. outbox \in [Workers -> Seq(WorkerMessages)]
  BY DEF TypeOK, TypeOKWorkers
<1>e. inbox \in [Workers -> Seq(CallIds)]
  BY DEF TypeOK, TypeOKWorkers
<1>1. CASE WorkerTake(w) \/ WorkerLeave(w)
  <2>1. /\ worker[w] # "recv" /\ worker'[w] # "recv"
        /\ \A v \in Workers \ {w} : worker'[v] = worker[v]
        /\ UNCHANGED <<call, saved, nextCall, outbox, inbox>>
    BY <1>1, <1>c DEF WorkerTake, WorkerLeave
  <2>2. \A v \in Workers : worker[v] = "recv" <=> worker'[v] = "recv"
    BY <2>1
  <2>3. IdsAwaited'
    BY <1>a, <1>b, <2>1, <2>2 DEF RoutingInv, IdsAwaited
  <2>4. CallPending'
    BY <1>a, <2>1, <2>2 DEF RoutingInv, CallPending
  <2>5. InboxAwaited'
    BY <1>a, <2>1, <2>2, Zenon DEF RoutingInv, InboxAwaited
  <2>6. CallsFresh' /\ NothingSaved'
    BY <2>1, <2>2 DEF RoutingInv, CallsFresh, NothingSaved
  <2> QED BY <2>3, <2>4, <2>5, <2>6 DEF RoutingInv
<1>2. CASE WorkerCall(w)
  <2>1. /\ worker[w] = "apply" /\ worker'[w] = "recv"
        /\ call'[w] = nextCall /\ nextCall' = nextCall + 1
        /\ nextCall \in CallIds
        /\ \A v \in Workers \ {w} : worker'[v] = worker[v] /\ call'[v] = call[v]
        /\ UNCHANGED <<saved, inbox>>
    BY <1>2, <1>c, Zenon DEF WorkerCall
  <2>2. nextCall \in Nat /\ \A v \in Workers : call[v] \in Nat
    <3>1. CallIds \subseteq Nat /\ NoCall \in Nat
      BY ConstantsAssumption DEF ConstantsAssumption, CallIds, NoCall
    <3> QED BY <1>c, <2>1, <3>1
  <2>3. inbox[w] = <<>>
    BY <2>1 DEF RoutingInv, InboxAwaited
  <2>4. \A c \in DOMAIN ids : ids[c] # w /\ c # nextCall
    BY <1>b, <2>1, <2>2, SMTT(30) DEF RoutingInv, IdsAwaited, CallsFresh
  <2>5. \A i \in 1..Len(outbox[w]) : outbox[w][i].type # "TP_STATE_REQUEST"
    BY <2>1, Zenon DEF RoutingInv, CallPending
  <2>6. IdsAwaited'
    BY <1>a, <1>b, <2>1, <2>4 DEF RoutingInv, IdsAwaited
  <2>7. CallPending'
    <3> DEFINE m == Msg("TP_STATE_REQUEST", nextCall)
    <3>1. CASE Closed
      <4>1. outbox' = outbox
        BY <1>2, <3>1, Zenon DEF WorkerCall, Send
      <4> QED BY <1>a, <2>1, <2>5, <4>1 DEF RoutingInv, CallPending
    <3>2. CASE ~Closed
      <4>1. outbox' = [outbox EXCEPT ![w] = Append(@, m)]
        BY <1>2, <3>2, Zenon DEF WorkerCall, Send
      <4>2. m \in WorkerMessages /\ m.id = nextCall
        BY <2>1, Zenon DEF Msg, WorkerMessages
      <4>3. /\ Len(outbox[w]) \in Nat
            /\ Len(outbox'[w]) = Len(outbox[w]) + 1
            /\ \A i \in 1..Len(outbox[w]) : outbox'[w][i] = outbox[w][i]
            /\ outbox'[w][Len(outbox[w]) + 1] = m
            /\ \A v \in Workers \ {w} : outbox'[v] = outbox[v]
        <5>1. outbox[w] \in Seq(WorkerMessages)
          BY <1>d, Zenon
        <5>2. /\ Len(outbox[w]) \in Nat
              /\ Len(Append(outbox[w], m)) = Len(outbox[w]) + 1
              /\ \A i \in 1..Len(outbox[w]) : Append(outbox[w], m)[i] = outbox[w][i]
              /\ Append(outbox[w], m)[Len(outbox[w]) + 1] = m
          BY <4>2, <5>1, AppendProperties, LenProperties, SMTT(30)
        <5> QED BY <1>d, <4>1, <5>2
      <4> SUFFICES ASSUME NEW v \in Workers, NEW i \in 1..Len(outbox'[v]),
                          outbox'[v][i].type = "TP_STATE_REQUEST"
                   PROVE  /\ i = Len(outbox'[v])
                          /\ worker'[v] = "recv" /\ outbox'[v][i].id = call'[v]
                          /\ inbox'[v] = <<>> /\ call'[v] \notin DOMAIN ids'
          BY DEF CallPending
      <4>4. CASE v = w
        <5>1. i \in 1..(Len(outbox[w]) + 1)
          BY <4>3, <4>4
        <5>2. i = Len(outbox[w]) + 1
          BY <2>5, <4>3, <4>4, <5>1, SMTT(30)
        <5> QED BY <1>a, <2>1, <2>3, <2>4, <4>2, <4>3, <4>4, <5>2, Zenon
      <4>5. CASE v # w
        <5>1. outbox'[v] = outbox[v]
          BY <4>3, <4>5, Zenon
        <5>2. /\ i = Len(outbox[v])
              /\ worker[v] = "recv" /\ outbox[v][i].id = call[v]
              /\ inbox[v] = <<>> /\ call[v] \notin DOMAIN ids
          BY <5>1 DEF RoutingInv, CallPending
        <5> QED BY <1>a, <2>1, <4>5, <5>1, <5>2, Zenon
      <4> QED BY <4>4, <4>5
    <3> QED BY <3>1, <3>2
  <2>8. InboxAwaited'
    BY <1>a, <2>1, <2>3, Zenon DEF RoutingInv, InboxAwaited
  <2>9. CallsFresh'
    BY <2>1, <2>2 DEF RoutingInv, CallsFresh
  <2>10. NothingSaved'
    BY <2>1, Zenon DEF RoutingInv, NothingSaved
  <2> QED BY <2>6, <2>7, <2>8, <2>9, <2>10 DEF RoutingInv
<1>3. CASE WorkerReceive(w)
  <2>1. worker[w] = "recv" /\ inbox[w] = <<call[w]>> /\ call[w] \notin DOMAIN ids
    BY <1>3 DEF WorkerReceive, RoutingInv, InboxAwaited
  <2>2. Head(inbox[w]) = call[w] /\ Tail(inbox[w]) = <<>>
    BY <2>1
  <2>3. /\ worker'[w] = "apply" /\ inbox'[w] = <<>>
        /\ \A v \in Workers \ {w} :
              worker'[v] = worker[v] /\ call'[v] = call[v] /\ inbox'[v] = inbox[v]
        /\ UNCHANGED <<saved, nextCall, outbox>>
    BY <1>3, <1>c, <1>e, <2>2 DEF WorkerReceive
  <2>4. \A c \in DOMAIN ids : ids[c] # w
    BY <2>1 DEF RoutingInv, IdsAwaited
  <2>5. \A i \in 1..Len(outbox[w]) : outbox[w][i].type # "TP_STATE_REQUEST"
    BY <2>1 DEF RoutingInv, CallPending
  <2>6. IdsAwaited'
    BY <1>a, <1>b, <2>3, <2>4, Zenon DEF RoutingInv, IdsAwaited
  <2>7. CallPending'
    BY <1>a, <2>3, <2>5 DEF RoutingInv, CallPending
  <2>8. InboxAwaited'
    BY <1>a, <2>3 DEF RoutingInv, InboxAwaited
  <2>9. CallsFresh'
    <3>1. \A v \in Workers : worker'[v] = "recv" =>
             v # w /\ worker[v] = "recv" /\ call'[v] = call[v]
      BY <2>3
    <3> QED BY <2>3, <3>1 DEF RoutingInv, CallsFresh
  <2>10. NothingSaved'
    BY <2>3 DEF RoutingInv, NothingSaved
  <2> QED BY <2>6, <2>7, <2>8, <2>9, <2>10 DEF RoutingInv
<1>4. CASE WorkerReply(w)
  <2> DEFINE m == Msg("TP_PROCESS_RESPONSE", job[w])
  <2>1. /\ worker[w] = "apply" /\ worker'[w] # "recv"
        /\ \A v \in Workers \ {w} : worker'[v] = worker[v]
        /\ UNCHANGED <<call, saved, nextCall, inbox>>
    BY <1>4, <1>c DEF WorkerReply
  <2>2. \A v \in Workers : worker[v] = "recv" <=> worker'[v] = "recv"
    BY <2>1
  <2>3. IdsAwaited' /\ InboxAwaited' /\ CallsFresh' /\ NothingSaved'
    <3>1. IdsAwaited'
      BY <1>a, <1>b, <2>1, <2>2, ZenonT(30) DEF RoutingInv, IdsAwaited
    <3>2. InboxAwaited'
      BY <1>a, <2>1, <2>2 DEF RoutingInv, InboxAwaited
    <3>3. CallsFresh' /\ NothingSaved'
      BY <2>1, <2>2, Zenon DEF RoutingInv, CallsFresh, NothingSaved
    <3> QED BY <3>1, <3>2, <3>3, Zenon
  <2>4. CallPending'
    <3>1. CASE Closed
      <4>1. outbox' = outbox
        BY <1>4, <3>1 DEF WorkerReply, Send
      <4> QED BY <1>a, <2>1, <2>2, <4>1 DEF RoutingInv, CallPending
    <3>2. CASE ~Closed
      <4>1. outbox' = [outbox EXCEPT ![w] = Append(@, m)]
        BY <1>4, <3>2, Zenon DEF WorkerReply, Send
      <4>2. m \in WorkerMessages /\ m.type = "TP_PROCESS_RESPONSE"
        BY <2>1 DEF Msg, WorkerMessages, TypeOK, TypeOKWorkers
      <4>3. /\ Len(outbox[w]) \in Nat
            /\ Len(outbox'[w]) = Len(outbox[w]) + 1
            /\ \A i \in 1..Len(outbox[w]) : outbox'[w][i] = outbox[w][i]
            /\ outbox'[w][Len(outbox[w]) + 1] = m
            /\ \A v \in Workers \ {w} : outbox'[v] = outbox[v]
        <5>1. outbox[w] \in Seq(WorkerMessages)
          BY <1>d
        <5>2. /\ Len(outbox[w]) \in Nat
              /\ Len(Append(outbox[w], m)) = Len(outbox[w]) + 1
              /\ \A i \in 1..Len(outbox[w]) : Append(outbox[w], m)[i] = outbox[w][i]
              /\ Append(outbox[w], m)[Len(outbox[w]) + 1] = m
          BY <4>2, <5>1, AppendProperties, LenProperties, SMTT(30)
        <5> QED BY <1>d, <4>1, <5>2, Zenon
      <4>4. \A i \in 1..Len(outbox[w]) : outbox[w][i].type # "TP_STATE_REQUEST"
        BY <2>1, Zenon DEF RoutingInv, CallPending
      <4>5. \A i \in 1..Len(outbox'[w]) : outbox'[w][i].type # "TP_STATE_REQUEST"
        <5> SUFFICES ASSUME NEW i \in 1..Len(outbox'[w])
                     PROVE  outbox'[w][i].type # "TP_STATE_REQUEST"
            OBVIOUS
        <5>1. i \in 1..Len(outbox[w]) \/ i = Len(outbox[w]) + 1
          BY <4>3
        <5> QED BY <4>2, <4>3, <4>4, <5>1, Zenon
      <4> SUFFICES ASSUME NEW v \in Workers, NEW i \in 1..Len(outbox'[v]),
                          outbox'[v][i].type = "TP_STATE_REQUEST"
                   PROVE  /\ i = Len(outbox'[v])
                          /\ worker'[v] = "recv" /\ outbox'[v][i].id = call'[v]
                          /\ inbox'[v] = <<>> /\ call'[v] \notin DOMAIN ids'
          BY DEF CallPending
      <4>6. v # w
        BY <4>5
      <4>7. outbox'[v] = outbox[v]
        BY <4>3, <4>6
      <4>8. /\ i = Len(outbox[v])
            /\ worker[v] = "recv" /\ outbox[v][i].id = call[v]
            /\ inbox[v] = <<>> /\ call[v] \notin DOMAIN ids
        BY <4>7 DEF RoutingInv, CallPending
      <4> QED BY <1>a, <2>1, <4>6, <4>7, <4>8
    <3> QED BY <3>1, <3>2
  <2> QED BY <2>3, <2>4 DEF RoutingInv
<1> QED BY <1>1, <1>2, <1>3, <1>4 DEF Worker

\* The environment does not touch the routing.
LEMMA EnvironmentRouting == RoutingInv /\ Environment => RoutingInv'
<1>1. Environment => UNCHANGED routingVars
  BY DEF Environment, ValidatorRegisters, ValidatorPings, Disconnect, Shutdown,
         ValidatorRequests, ValidatorAnswers, ValidatorRepeats, routingVars,
         processorVars, workerVars
<1> QED BY <1>1, RoutingFrame, ZenonT(30)

\* The routing stays correct.
LEMMA RoutingHeld == Spec => [](TypeOK /\ RoutingInv)
<1>1. TypeOK /\ RoutingInv /\ [Next]_vars => RoutingInv'
  <2>1. UNCHANGED vars => UNCHANGED routingVars
    BY DEF vars, routingVars, workerVars
  <2> QED BY <2>1, RouterRouting, WorkerRouting, EnvironmentRouting, RoutingFrame
          DEF Next
<1> QED BY <1>1, InitRouting, TypeCorrect, PTL DEF Spec

\* The answer to a state call reaches the worker that made it, while it waits
\* and only once: receiveWorkers and receiveValidator route correctly for any
\* pool, any queue, any order of answers and any number of repeated ones.
THEOREM RoutingCorrect == Spec => []RoutedToCaller
<1>1. RoutingInv => RoutedToCaller
  BY DEF RoutingInv, InboxAwaited, NothingSaved, RoutedToCaller
<1> QED BY <1>1, RoutingHeld, PTL
-----------------------------------------------------------------------------
(* Calls: none is lost.                                                     *)

Call(c)   == Msg("TP_STATE_REQUEST", c)
Return(c) == Msg("TP_STATE_RESPONSE", c)

\* Where the call a worker waits for is.
Delivered(w) == inbox[w] # <<>>
Unread(w)    == Has(outbox[w], Call(call[w]))
Routed(w)    == call[w] \in DOMAIN ids /\ ids[call[w]] = w
Coming(c)    == c \in calls \/ Has(toProcessor, Return(c))

Tracked(w) ==
    worker[w] = "recv" => Delivered(w) \/ Unread(w) \/ (Routed(w) /\ Coming(call[w]))

\* A connection the router registers on or serves, not lost.
Live == main \in {"register", "poll"} /\ linked

\* NoLostCall, from the first registration request on.
CallInv == Live => \A w \in Workers : Tracked(w)

\* A step that does not change a worker's wait and loses no answer to it.
LEMMA TrackedFrame ==
    ASSUME NEW w, Tracked(w),
           worker'[w] = "recv" =>
              /\ worker[w] = "recv" /\ call'[w] = call[w]
              /\ Delivered(w) => Delivered(w)'
              /\ Unread(w) => Unread(w)'
              /\ Routed(w) => Routed(w)'
              /\ Routed(w) /\ Coming(call[w]) => Coming(call[w])'
    PROVE  Tracked(w)'
BY Zenon DEF Tracked

\* Reading a message that answers no call, or writing one.
LEMMA ComingRead ==
    ASSUME TypeOK, toProcessor # <<>>, toProcessor' = Tail(toProcessor), calls' = calls,
           NEW c, Head(toProcessor) # Return(c), Coming(c)
    PROVE  c \in calls' \/ Has(toProcessor', Return(c))
<1>1. toProcessor \in Seq(ValidatorMessages)
  BY DEF TypeOK, TypeOKValidator
<1>2. CASE c \in calls
  BY <1>2
<1>3. CASE Has(toProcessor, Return(c))
  BY <1>1, <1>3, HasTailOther
<1> QED BY <1>2, <1>3 DEF Coming

\* The validator writes: a call that was coming back still is.
LEMMA ComingWritten ==
    ASSUME TypeOK, NEW m \in ValidatorMessages, ValidatorSend(m),
           NEW c, Coming(c), c \in calls => c \in calls' \/ m = Return(c)
    PROVE  c \in calls' \/ Has(toProcessor', Return(c))
<1>1. toProcessor \in Seq(ValidatorMessages) /\ toProcessor' = Append(toProcessor, m)
  BY DEF TypeOK, TypeOKValidator, ValidatorSend
<1>2. Has(Append(toProcessor, m), Return(c)) <=> Has(toProcessor, Return(c)) \/ Return(c) = m
  BY <1>1, HasAppend
<1> QED BY <1>1, <1>2 DEF Coming

\* A step that touches none of the variables.
LEMMA CallFrame ==
    ASSUME CallInv,
           UNCHANGED <<main, linked, worker, call, ids, inbox, outbox, calls, toProcessor>>
    PROVE  CallInv'
<1> SUFFICES ASSUME Live', NEW w \in Workers PROVE Tracked(w)'
    BY DEF CallInv
<1>1. Tracked(w)
  BY DEF Live, CallInv
<1> QED BY <1>1, Zenon
        DEF Tracked, Delivered, Unread, Routed, Coming, Call, Return, Msg

\* At the start no worker waits for an answer.
LEMMA InitCalls == Init => CallInv
BY DEF Init, CallInv, Live

\* Every step of the router keeps the calls tracked.
LEMMA RouterCalls == ASSUME TypeOK, RoutingInv, CallInv, Router PROVE CallInv'
<1>1. CASE Start
  <2>1. worker' = [w \in Workers |-> "idle"]
    BY <1>1, Zenon DEF Start
  <2>2. \A w \in Workers : worker'[w] # "recv"
    BY <2>1
  <2> QED BY <2>2, Zenon DEF CallInv, Tracked
<1>2. CASE RegisterReceive
  <2> SUFFICES ASSUME Live', NEW w \in Workers PROVE Tracked(w)'
      BY DEF CallInv
  <2>1. /\ main = "register" /\ toProcessor # <<>> /\ toProcessor' = Tail(toProcessor)
        /\ UNCHANGED <<worker, call, ids, inbox, outbox, linked, calls>>
    BY <1>2 DEF RegisterReceive, workerVars
  <2>2. Live /\ Tracked(w)
    BY <2>1 DEF Live, CallInv
  <2>3. Head(toProcessor) = RegisterResponse("OK")
    BY <1>2 DEF RegisterReceive, RegisterUnexpected, RegisterConfirmed,
                RegisterRejected, Fail, Live
  <2>4. Head(toProcessor) # Return(call[w])
    BY <2>3 DEF RegisterResponse, Return, Msg
  <2>5. Coming(call[w]) => call[w] \in calls' \/ Has(toProcessor', Return(call[w]))
    BY <2>1, <2>4, ComingRead
  <2>6. Coming(call[w]) => Coming(call[w])'
    BY <2>1, <2>5, Zenon DEF Coming, Return, Msg
  <2>7. (Delivered(w) => Delivered(w)') /\ (Unread(w) => Unread(w)') /\ (Routed(w) => Routed(w)')
    BY <2>1, Zenon DEF Delivered, Unread, Routed, Call, Msg
  <2> QED BY <2>1, <2>2, <2>6, <2>7, TrackedFrame, Zenon
<1>3. CASE ReceiveValidator
  <2> DEFINE m == Head(toProcessor)
  <2> SUFFICES ASSUME Live', NEW w \in Workers, worker'[w] = "recv" PROVE Tracked(w)'
      BY Zenon DEF CallInv, Tracked
  <2>1. /\ main = "poll" /\ toProcessor # <<>> /\ toProcessor' = Tail(toProcessor)
        /\ UNCHANGED <<worker, call, outbox, linked, calls>>
    BY <1>3 DEF ReceiveValidator, Turn, workerVars, validatorVars
  <2>2. Live /\ Tracked(w) /\ worker[w] = "recv"
    BY <2>1 DEF Live, CallInv
  <2>3. Unread(w) => Unread(w)'
    BY <2>1, Zenon DEF Unread, Call, Msg
  <2>4. CASE ids' = ids /\ inbox' = inbox /\ (Routed(w) => m # Return(call[w]))
    <3>1. Routed(w) /\ Coming(call[w]) =>
             call[w] \in calls' \/ Has(toProcessor', Return(call[w]))
      BY <2>1, <2>4, ComingRead
    <3>2. Routed(w) /\ Coming(call[w]) => Coming(call[w])'
      BY <2>1, <3>1, Zenon DEF Coming, Return, Msg
    <3>3. (Delivered(w) => Delivered(w)') /\ (Routed(w) => Routed(w)')
      BY <2>1, <2>4, Zenon DEF Delivered, Routed
    <3> QED BY <2>1, <2>2, <2>3, <3>2, <3>3, TrackedFrame, ZenonT(30)
  <2>5. CASE ReceiveRequest(m) \/ ReceivePing(m)
    <3>1. m # Return(call[w]) /\ ids' = ids /\ inbox' = inbox
      BY <2>5 DEF ReceiveRequest, ReceivePing, Return, Msg
    <3> QED BY <2>4, <3>1
  <2>6. CASE ReceiveResponse(m) /\ m.id \notin DOMAIN ids
    <3>1. ids' = ids /\ inbox' = inbox
      BY <2>6 DEF ReceiveResponse
    <3>2. Routed(w) => m # Return(call[w])
      BY <2>6 DEF Routed, Return, Msg
    <3> QED BY <2>4, <3>1, <3>2
  <2>7. CASE ReceiveResponse(m) /\ m.id \in DOMAIN ids
    <3> DEFINE v == ids[m.id]
    <3>1. /\ inbox' = [inbox EXCEPT ![v] = Append(@, m.id)]
          /\ ids' = [c \in DOMAIN ids \ {m.id} |-> ids[c]]
      BY <2>7, Zenon DEF ReceiveResponse
    <3>2. v \in Workers /\ inbox \in [Workers -> Seq(CallIds)] /\ m.id \in CallIds
      BY <2>7 DEF TypeOK, TypeOKRouter, TypeOKWorkers
    <3>3. worker[v] = "recv" /\ call[v] = m.id
      BY <2>7 DEF RoutingInv, IdsAwaited
    <3>4. CASE w = v
      <4>1. inbox'[w] = Append(inbox[w], m.id) /\ inbox[w] \in Seq(CallIds)
        BY <3>1, <3>2, <3>4
      <4>2. inbox'[w] # <<>>
        BY <3>2, <4>1, AppendProperties, SMTT(30)
      <4> QED BY <4>2, ZenonT(30) DEF Tracked, Delivered
    <3>5. CASE w # v
      <4>1. call[w] # m.id
        BY <2>2, <3>2, <3>3, <3>5, Zenon DEF RoutingInv, CallsFresh
      <4>2. m # Return(call[w])
        BY <4>1, SMTT(30) DEF Return, Msg
      <4>3. Coming(call[w]) => call[w] \in calls' \/ Has(toProcessor', Return(call[w]))
        BY <2>1, <4>2, ComingRead
      <4>4. Coming(call[w]) => Coming(call[w])'
        BY <2>1, <4>3, Zenon DEF Coming, Return, Msg
      <4>5. inbox'[w] = inbox[w]
        BY <3>1, <3>2, <3>5, ZenonT(30)
      <4>6. Routed(w) => Routed(w)'
        BY <2>1, <3>1, <4>1 DEF Routed
      <4>7. Delivered(w) => Delivered(w)'
        BY <4>5, Zenon DEF Delivered
      <4> QED BY <2>1, <2>2, <2>3, <4>4, <4>6, <4>7, TrackedFrame, Zenon
    <3> QED BY <3>4, <3>5, Zenon
  <2> QED BY <1>3, <2>5, <2>6, <2>7, ZenonT(30) DEF ReceiveValidator
<1>4. CASE ReceiveWorkers
  <2> SUFFICES ASSUME Live', NEW w \in Workers, worker'[w] = "recv" PROVE Tracked(w)'
      BY DEF CallInv, Tracked
  <2>1. /\ main = "poll"
        /\ UNCHANGED <<worker, call, inbox, toProcessor, linked>>
    BY <1>4 DEF ReceiveWorkers, Turn, workerVars
  <2>2. Live /\ linked /\ Tracked(w) /\ worker[w] = "recv"
    BY <2>1 DEF Live, CallInv
  <2>3. PICK v \in Workers :
          /\ outbox[v] # <<>>
          /\ outbox' = [outbox EXCEPT ![v] = Tail(@)]
          /\ ForwardCall(v, Head(outbox[v])) \/ ForwardResponse(Head(outbox[v]))
    BY <1>4, Zenon DEF ReceiveWorkers
  <2> DEFINE m == Head(outbox[v])
  <2>4. outbox \in [Workers -> Seq(WorkerMessages)]
    BY DEF TypeOK, TypeOKWorkers
  <2>5. /\ outbox[v] \in Seq(WorkerMessages) /\ m \in WorkerMessages
        /\ outbox'[v] = Tail(outbox[v]) /\ (w # v => outbox'[w] = outbox[w])
    BY <2>3, <2>4, HeadTailProperties
  <2>6. Delivered(w) => Delivered(w)'
    BY <2>1, Zenon DEF Delivered
  <2>7. w # v \/ m # Call(call[w]) => (Unread(w) => Unread(w)')
    <3>1. CASE w # v
      BY <2>1, <2>5, <3>1, Zenon DEF Unread, Call, Msg
    <3>2. CASE w = v /\ m # Call(call[w]) /\ Unread(w)
      <4>1. Has(Tail(outbox[v]), Call(call[w]))
        BY <2>3, <2>5, <3>2, HasTailOther, SMTT(30) DEF Unread
      <4> QED BY <2>1, <2>5, <3>2, <4>1, ZenonT(30) DEF Unread, Call, Msg
    <3> QED BY <3>1, <3>2
  <2>8. CASE ForwardResponse(m)
    <3>1. m # Call(call[w]) /\ ids' = ids /\ calls' = calls
      BY <2>8 DEF ForwardResponse, Call, Msg
    <3>2. (Routed(w) => Routed(w)') /\ (Coming(call[w]) => Coming(call[w])')
      BY <2>1, <3>1, Zenon DEF Routed, Coming, Return, Msg
    <3> QED BY <2>1, <2>2, <2>6, <2>7, <3>1, <3>2, TrackedFrame, Zenon
  <2>9. CASE ForwardCall(v, m)
    <3>1. /\ DOMAIN ids' = DOMAIN ids \cup {m.id}
          /\ \A c \in DOMAIN ids' : ids'[c] = IF c = m.id THEN v ELSE ids[c]
          /\ calls' = calls \cup {m.id}
      BY <2>2, <2>9, Zenon DEF ForwardCall
    <3>2. m.type = "TP_STATE_REQUEST"
      BY <2>5, <2>9, WorkerMessageFields DEF ForwardCall
    <3>3. worker[v] = "recv" /\ m.id = call[v]
      <4>1. 1 \in 1..Len(outbox[v]) /\ outbox[v][1] = m
        BY <2>3, <2>5, HeadTailProperties, LenProperties, EmptySeq, SMTT(30)
      <4> QED BY <3>2, <4>1, Zenon DEF RoutingInv, CallPending
    <3>4. CASE w = v
      BY <2>1, <3>1, <3>3, <3>4, SMTT(30) DEF Tracked, Routed, Coming
    <3>5. CASE w # v
      <4>1. call[w] # m.id
        BY <2>2, <3>3, <3>5, SMTT(30) DEF RoutingInv, CallsFresh
      <4>2. Routed(w) => Routed(w)'
        BY <2>1, <3>1, <4>1, ZenonT(30) DEF Routed
      <4>3. Coming(call[w]) => Coming(call[w])'
        BY <2>1, <3>1 DEF Coming, Return, Msg
      <4> QED BY <2>1, <2>2, <2>6, <2>7, <3>5, <4>2, <4>3, TrackedFrame, ZenonT(30)
    <3> QED BY <3>4, <3>5, Zenon
  <2> QED BY <2>3, <2>8, <2>9
<1>5. CASE ReceiveShutdown \/ RegisterShutdown \/ UnregisterTimeout \/ Join
  <2>1. main' \notin {"register", "poll"}
    BY <1>5 DEF ReceiveShutdown, RegisterShutdown, UnregisterTimeout, Join, Fail
  <2> QED BY <2>1, Zenon DEF CallInv, Live
<1>6. CASE Poll \/ ReceiveMonitor
  <2>1. UNCHANGED <<main, linked, worker, call, ids, inbox, outbox, calls, toProcessor>>
    BY <1>6 DEF Poll, ReceiveMonitor, workerVars, validatorVars
  <2> QED BY <2>1, CallFrame, Zenon
<1> QED BY <1>1, <1>2, <1>3, <1>4, <1>5, <1>6, Zenon DEF Router

\* Every step of a worker keeps the calls tracked, its own and the others'.
LEMMA WorkerCalls ==
    ASSUME TypeOK, RoutingInv, CallInv, NEW v \in Workers, Worker(v) PROVE CallInv'
<1>1. UNCHANGED <<main, linked, ids, calls, toProcessor>>
  BY Zenon DEF Worker, WorkerTake, WorkerLeave, WorkerCall, WorkerReceive, WorkerReply,
         rest, mainVars, validatorVars
<1> SUFFICES ASSUME Live', NEW w \in Workers, worker'[w] = "recv" PROVE Tracked(w)'
    BY Zenon DEF CallInv, Tracked
<1>2. Live /\ Tracked(w)
  BY <1>1 DEF Live, CallInv
<1>3. ~Closed
  BY <1>2, Zenon DEF Live, Closed
<1>4. /\ worker \in [Workers -> {"idle", "apply", "recv", "stuck", "exited"}]
      /\ call \in [Workers -> CallIds \cup {NoCall}]
  BY DEF TypeOK, TypeOKWorkers
<1>5. outbox \in [Workers -> Seq(WorkerMessages)]
  BY DEF TypeOK, TypeOKWorkers
<1>6. inbox \in [Workers -> Seq(CallIds)]
  BY DEF TypeOK, TypeOKWorkers
<1>7. CASE w # v
  <2>1. worker'[w] = worker[w] /\ call'[w] = call[w]
    BY <1>4, <1>7, Zenon DEF Worker, WorkerTake, WorkerLeave, WorkerCall, WorkerReceive,
                      WorkerReply
  <2>2. outbox'[w] = outbox[w]
    BY <1>5, <1>7, Zenon DEF Worker, WorkerTake, WorkerLeave, WorkerCall, WorkerReceive,
                      WorkerReply, Send
  <2>3. inbox'[w] = inbox[w]
    BY <1>6, <1>7 DEF Worker, WorkerTake, WorkerLeave, WorkerCall, WorkerReceive,
                      WorkerReply
  <2>4. (Delivered(w) => Delivered(w)') /\ (Unread(w) => Unread(w)')
    BY <2>1, <2>2, <2>3, Zenon DEF Delivered, Unread, Call, Msg
  <2>5. (Routed(w) => Routed(w)') /\ (Coming(call[w]) => Coming(call[w])')
    BY <1>1, <2>1, Zenon DEF Routed, Coming, Return, Msg
  <2> QED BY <1>2, <2>1, <2>4, <2>5, TrackedFrame, ZenonT(30)
<1>8. CASE w = v
  <2>1. CASE WorkerTake(v) \/ WorkerLeave(v) \/ WorkerReply(v)
    <3>1. worker'[v] # "recv"
      BY <1>4, <2>1 DEF WorkerTake, WorkerLeave, WorkerReply
    <3> QED BY <1>8, <3>1, Zenon
  <2>2. CASE WorkerReceive(v)
    <3>1. inbox[v] # <<>> /\ inbox[v] = <<call[v]>>
      BY <2>2 DEF WorkerReceive, RoutingInv, InboxAwaited
    <3>2. Head(inbox[v]) = call[v]
      BY <3>1
    <3>3. worker'[v] = "apply"
      BY <1>4, <2>2, <3>2 DEF WorkerReceive
    <3> QED BY <1>8, <3>3, Zenon
  <2>3. CASE WorkerCall(v)
    <3>1. /\ nextCall \in CallIds /\ call'[v] = nextCall
          /\ outbox' = [outbox EXCEPT ![v] = Append(@, Call(nextCall))]
      BY <1>3, <1>4, <2>3, Zenon DEF WorkerCall, Send, Call
    <3>2. Call(nextCall) \in WorkerMessages
      BY <3>1 DEF Call, Msg, WorkerMessages
    <3>3. outbox[v] \in Seq(WorkerMessages) /\ outbox'[v] = Append(outbox[v], Call(nextCall))
      BY <1>5, <3>1, ZenonT(30)
    <3>4. Has(outbox'[v], Call(nextCall))
      BY <3>2, <3>3, HasAppend
    <3>5. Unread(v)'
      BY <3>1, <3>4, Zenon DEF Unread, Call, Msg
    <3> QED BY <1>8, <3>5, Zenon DEF Tracked
  <2> QED BY <2>1, <2>2, <2>3 DEF Worker
<1> QED BY <1>7, <1>8, SMTT(30)

\* Every step of the validator, the network and the user keeps them tracked.
LEMMA EnvironmentCalls == ASSUME TypeOK, CallInv, Environment PROVE CallInv'
<1>1. UNCHANGED <<main, worker, call, ids, inbox, outbox>>
  BY Zenon DEF Environment, ValidatorRegisters, ValidatorPings, Disconnect, Shutdown,
         ValidatorRequests, ValidatorAnswers, ValidatorRepeats, processorVars,
         mainVars, workerVars
<1>2. ASSUME NEW m \in ValidatorMessages, ValidatorSend(m), linked' = linked,
             \A c \in calls : c \in calls' \/ m = Return(c)
      PROVE  CallInv'
  <2> SUFFICES ASSUME Live', NEW w \in Workers PROVE Tracked(w)'
      BY DEF CallInv
  <2>1. Tracked(w)
    BY <1>1, <1>2 DEF Live, CallInv
  <2>2. (Delivered(w) => Delivered(w)') /\ (Unread(w) => Unread(w)') /\ (Routed(w) => Routed(w)')
    BY <1>1, Zenon DEF Delivered, Unread, Routed, Call, Msg
  <2>3. Coming(call[w]) => call[w] \in calls' \/ Has(toProcessor', Return(call[w]))
    BY <1>2, ComingWritten
  <2>4. Coming(call[w]) => Coming(call[w])'
    BY <1>1, <2>3, Zenon DEF Coming, Return, Msg
  <2> QED BY <1>1, <2>1, <2>2, <2>4, TrackedFrame, Zenon
<1>3. CASE ValidatorRegisters
  <2>1. PICK status \in {"OK", "ERROR"} : ValidatorSend(RegisterResponse(status))
    BY <1>3, Zenon DEF ValidatorRegisters
  <2>2. RegisterResponse(status) \in ValidatorMessages
    BY DEF RegisterResponse, ValidatorMessages
  <2>3. UNCHANGED <<linked, calls>>
    BY <1>3 DEF ValidatorRegisters
  <2> QED BY <1>2, <2>1, <2>2, <2>3
<1>4. ASSUME NEW r \in Requests, ValidatorRequests(r) PROVE CallInv'
  <2>1. ValidatorSend(Msg("TP_PROCESS_REQUEST", r)) /\ UNCHANGED <<linked, calls>>
    BY <1>4 DEF ValidatorRequests
  <2>2. Msg("TP_PROCESS_REQUEST", r) \in ValidatorMessages
    BY DEF Msg, ValidatorMessages
  <2> QED BY <1>2, <2>1, <2>2
<1>5. CASE ValidatorPings
  <2>1. ValidatorSend(Msg("PING_REQUEST", Ping)) /\ UNCHANGED <<linked, calls>>
    BY <1>5 DEF ValidatorPings, validatorVars
  <2>2. Msg("PING_REQUEST", Ping) \in ValidatorMessages
    BY DEF Msg, ValidatorMessages
  <2> QED BY <1>2, <2>1, <2>2
<1>6. ASSUME NEW c \in CallIds, ValidatorAnswers(c) \/ ValidatorRepeats(c)
      PROVE  CallInv'
  <2>1. /\ ValidatorSend(Return(c)) /\ linked' = linked
        /\ \A d \in calls : d \in calls' \/ d = c
    BY <1>6 DEF ValidatorAnswers, ValidatorRepeats, validatorVars, Return
  <2>2. Return(c) \in ValidatorMessages
    BY DEF Return, Msg, ValidatorMessages
  <2> QED BY <1>2, <2>1, <2>2
<1>7. CASE Disconnect
  <2>1. ~linked'
    BY <1>7 DEF Disconnect
  <2> QED BY <2>1, Zenon DEF CallInv, Live
<1>8. CASE Shutdown
  <2>1. UNCHANGED <<linked, calls, toProcessor>>
    BY <1>8 DEF Shutdown, validatorVars
  <2> QED BY <1>1, <2>1, CallFrame
<1> QED BY <1>3, <1>4, <1>5, <1>6, <1>7, <1>8 DEF Environment, Zenon

\* The calls stay tracked.
LEMMA CallsHeld == Spec => []CallInv
<1>1. TypeOK /\ RoutingInv /\ CallInv /\ [Next]_vars => CallInv'
  <2>1. ASSUME CallInv, UNCHANGED vars PROVE CallInv'
    <3>1. UNCHANGED <<main, linked, worker, call, ids, inbox, outbox, calls, toProcessor>>
      BY <2>1 DEF vars, mainVars, workerVars, validatorVars
    <3> QED BY <2>1, <3>1, CallFrame
  <2> QED BY <2>1, RouterCalls, WorkerCalls, EnvironmentCalls DEF Next
<1> QED BY <1>1, InitCalls, RoutingHeld, PTL DEF Spec

\* While the connection lives, the call a worker is blocked on is in its pipe,
\* with the validator, on its way back or delivered: no call is lost between
\* receiveWorkers and receiveValidator, whatever the order of the answers.
THEOREM CallsNeverLost == Spec => []NoLostCall
<1>1. CallInv => NoLostCall
  BY Zenon DEF CallInv, NoLostCall, Live, Tracked, Delivered, Unread, Routed, Coming,
               Has, Call, Return
<1> QED BY <1>1, CallsHeld, PTL
-----------------------------------------------------------------------------
(* No standstill.                                                           *)

\* A lost connection is on the monitor socket, or has become a command.
LossNoticed == main \in {"register", "poll"} /\ ~linked => monitored \/ shutdowns # <<>>

\* register() has put nothing in the queue, and its confirmation is to come.
ConfirmationComing ==
    main = "register" =>
       /\ polled = {} /\ queue = <<>>
       /\ linked => registration = "requested" \/ toProcessor # <<>>

\* What a poll reported is still there when its turn comes.
PolledReady ==
    main = "poll" =>
       /\ "validator" \in polled => toProcessor # <<>>
       /\ "monitor" \in polled => monitored
       /\ "workers" \in polled => \E w \in Workers : outbox[w] # <<>>
       /\ "shutdown" \in polled => shutdowns # <<>>

\* A worker has a request only while it applies it, and is stuck only after the
\* router has closed its socket.
WorkersAtWork ==
    \A w \in Workers :
       /\ worker[w] \notin {"apply", "recv"} => job[w] = NoJob
       /\ worker[w] = "stuck" => Closed

StandInv == LossNoticed /\ ConfirmationComing /\ PolledReady /\ WorkersAtWork

\* A pipe that was written to is not empty.
LEMMA AppendNonempty == ASSUME NEW S, NEW s \in Seq(S), NEW x PROVE Append(s, x) # <<>>
<1>1. Len(s) \in Nat /\ Len(Append(s, x)) = Len(s) + 1
  OBVIOUS
<1>2. Len(<<>>) = 0
  OBVIOUS
<1> QED BY <1>1, <1>2

\* StandInv holds before the first connection.
LEMMA InitStand == Init => StandInv
BY DEF Init, StandInv, LossNoticed, ConfirmationComing, PolledReady, WorkersAtWork

\* Every step of the router keeps StandInv.
LEMMA RouterStand == TypeOK /\ StandInv /\ Router => StandInv'
<1> SUFFICES ASSUME TypeOK, StandInv, Router PROVE StandInv'
    OBVIOUS
<1> USE DEF mainVars, workerVars, shutdownVars, validatorVars
<1>1. CASE Start
  <2>1. LossNoticed' /\ ConfirmationComing' /\ PolledReady'
    BY <1>1 DEF Start, LossNoticed, ConfirmationComing, PolledReady
  <2>2. WorkersAtWork'
    BY <1>1 DEF Start, WorkersAtWork
  <2> QED BY <2>1, <2>2, Zenon DEF StandInv
<1>2. CASE RegisterReceive
  <2>1. /\ main = "register" /\ UNCHANGED <<polled, linked, monitored, shutdowns, worker, job>>
        /\ \/ main' = "register" /\ registration' = "requested" /\ queue' = queue
           \/ main' \in {"poll", "failed"}
    BY <1>2 DEF RegisterReceive, RegisterUnexpected, RegisterConfirmed, RegisterRejected, Fail
  <2>2. LossNoticed'
    BY <2>1, Zenon DEF StandInv, LossNoticed
  <2>3. ConfirmationComing' /\ PolledReady'
    BY <2>1 DEF StandInv, ConfirmationComing, PolledReady
  <2>4. WorkersAtWork'
    BY <2>1, Zenon DEF StandInv, WorkersAtWork, Closed
  <2> QED BY <2>2, <2>3, <2>4, ZenonT(30) DEF StandInv
<1>3. CASE RegisterShutdown
  <2>1. main = "register" /\ main' = "failed" /\ UNCHANGED <<worker, job>>
    BY <1>3 DEF RegisterShutdown, Fail
  <2>2. WorkersAtWork'
    BY <2>1 DEF StandInv, WorkersAtWork, Closed
  <2> QED BY <2>1, <2>2 DEF StandInv, LossNoticed, ConfirmationComing, PolledReady
<1>4. CASE Poll
  <2>1. main = "poll" /\ UNCHANGED <<main, linked, monitored, shutdowns, worker, job, toProcessor, outbox>>
    BY <1>4 DEF Poll
  <2>2. PolledReady'
    BY <1>4, <2>1 DEF Poll, PolledReady, Readable
  <2>3. LossNoticed' /\ ConfirmationComing'
    BY <2>1 DEF StandInv, LossNoticed, ConfirmationComing
  <2>4. WorkersAtWork'
    BY <2>1, Zenon DEF StandInv, WorkersAtWork, Closed
  <2> QED BY <2>2, <2>3, <2>4 DEF StandInv
<1>5. CASE ReceiveValidator
  <2>1. /\ main = "poll" /\ polled' = polled \ {"validator"}
        /\ UNCHANGED <<main, linked, monitored, shutdowns, worker, job, outbox>>
    BY <1>5 DEF ReceiveValidator, Turn
  <2>2. PolledReady'
    BY <2>1 DEF StandInv, PolledReady
  <2>3. LossNoticed' /\ ConfirmationComing'
    BY <2>1 DEF StandInv, LossNoticed, ConfirmationComing
  <2>4. WorkersAtWork'
    BY <2>1, Zenon DEF StandInv, WorkersAtWork, Closed
  <2> QED BY <2>2, <2>3, <2>4 DEF StandInv
<1>6. CASE ReceiveMonitor
  <2>1. /\ main = "poll" /\ polled' = polled \ {"monitor"}
        /\ UNCHANGED <<main, linked, worker, job, outbox, toProcessor>>
    BY <1>6, Zenon DEF ReceiveMonitor, Turn
  <2>2. shutdowns' # <<>>
    BY <1>6, AppendNonempty, Zenon DEF ReceiveMonitor, TypeOK, TypeOKRouter
  <2>3. PolledReady'
    BY <2>1, <2>2 DEF StandInv, PolledReady
  <2>4. LossNoticed' /\ ConfirmationComing'
    BY <2>1, <2>2, SMTT(30) DEF LossNoticed, ConfirmationComing
  <2>5. WorkersAtWork'
    BY <2>1, Zenon DEF StandInv, WorkersAtWork, Closed
  <2> QED BY <2>3, <2>4, <2>5 DEF StandInv
<1>7. CASE ReceiveWorkers
  <2>1. /\ main = "poll" /\ polled' = polled \ {"workers"}
        /\ UNCHANGED <<main, linked, monitored, shutdowns, worker, job, toProcessor>>
    BY <1>7 DEF ReceiveWorkers, Turn
  <2>2. PolledReady'
    BY <2>1 DEF StandInv, PolledReady
  <2>3. LossNoticed' /\ ConfirmationComing'
    BY <2>1 DEF StandInv, LossNoticed, ConfirmationComing
  <2>4. WorkersAtWork'
    BY <2>1 DEF StandInv, WorkersAtWork, Closed
  <2> QED BY <2>2, <2>3, <2>4 DEF StandInv
<1>8. CASE ReceiveShutdown \/ UnregisterTimeout
  <2>1. main' \in {"unregister", "join"} /\ UNCHANGED <<worker, job>>
    BY <1>8 DEF ReceiveShutdown, UnregisterTimeout
  <2>2. WorkersAtWork'
    BY <2>1, ZenonT(30) DEF StandInv, WorkersAtWork, Closed
  <2> QED BY <2>1, <2>2, Zenon DEF StandInv, LossNoticed, ConfirmationComing, PolledReady
<1>9. CASE Join
  <2>1. /\ main' \in {"start", "stopped"} /\ UNCHANGED <<worker, job>>
        /\ \A w \in Workers : worker[w] = "exited"
    BY <1>9 DEF Join
  <2>2. WorkersAtWork'
    BY <2>1 DEF StandInv, WorkersAtWork
  <2> QED BY <2>1, <2>2 DEF StandInv, LossNoticed, ConfirmationComing, PolledReady
<1> QED BY <1>1, <1>2, <1>3, <1>4, <1>5, <1>6, <1>7, <1>8, <1>9, Zenon DEF Router

\* Every step of a worker keeps StandInv.
LEMMA WorkerStand ==
    ASSUME NEW w \in Workers PROVE TypeOK /\ StandInv /\ Worker(w) => StandInv'
<1> SUFFICES ASSUME TypeOK, StandInv, Worker(w) PROVE StandInv'
    OBVIOUS
<1>1. UNCHANGED <<main, polled, linked, monitored, shutdowns, registration, toProcessor>>
  BY Zenon DEF Worker, WorkerTake, WorkerLeave, WorkerCall, WorkerReceive, WorkerReply, rest,
         mainVars, shutdownVars, validatorVars
<1>2. LossNoticed'
  BY <1>1 DEF StandInv, LossNoticed
<1>3. ConfirmationComing'
  <2>1. queue = <<>> => queue' = queue
    BY SMTT(30) DEF Worker, WorkerTake, WorkerLeave, WorkerCall, WorkerReceive, WorkerReply
  <2> QED BY <1>1, <2>1, Zenon DEF StandInv, ConfirmationComing
<1>4. PolledReady'
  <2>1. ASSUME NEW v \in Workers, outbox[v] # <<>> PROVE outbox'[v] # <<>>
    <3>1. outbox \in [Workers -> Seq(WorkerMessages)]
      BY Zenon DEF TypeOK, TypeOKWorkers
    <3>2. \/ outbox' = outbox
          \/ \E m : outbox' = [outbox EXCEPT ![w] = Append(@, m)]
      BY Zenon DEF Worker, WorkerTake, WorkerLeave, WorkerCall, WorkerReceive, WorkerReply, Send
    <3>3. outbox[w] \in Seq(WorkerMessages)
      BY <3>1
    <3> QED BY <2>1, <3>1, <3>2, <3>3, AppendNonempty
  <2> QED BY <1>1, <2>1, Zenon DEF StandInv, PolledReady
<1>5. WorkersAtWork'
  <2>1. /\ worker \in [Workers -> {"idle", "apply", "recv", "stuck", "exited"}]
        /\ job \in [Workers -> Requests \cup {NoJob}]
    BY Zenon DEF TypeOK, TypeOKWorkers
  <2>2. Closed' <=> Closed
    BY <1>1, ZenonT(30) DEF Closed
  <2>3. \A v \in Workers \ {w} : worker'[v] = worker[v] /\ job'[v] = job[v]
    BY <2>1, SMTT(30) DEF Worker, WorkerTake, WorkerLeave, WorkerCall, WorkerReceive, WorkerReply
  <2>4. /\ worker'[w] \notin {"apply", "recv"} => job'[w] = NoJob
        /\ worker'[w] = "stuck" => Closed
    BY <2>1, Zenon DEF Worker, WorkerTake, WorkerLeave, WorkerCall, WorkerReceive, WorkerReply,
                StandInv, WorkersAtWork
  <2> QED BY <2>2, <2>3, <2>4, Zenon DEF StandInv, WorkersAtWork
<1> QED BY <1>2, <1>3, <1>4, <1>5, SMTT(30) DEF StandInv

\* Every step of the validator, the network and the user keeps StandInv.
LEMMA EnvironmentStand == TypeOK /\ StandInv /\ Environment => StandInv'
<1> SUFFICES ASSUME TypeOK, StandInv, Environment PROVE StandInv'
    OBVIOUS
<1>1. UNCHANGED <<main, polled, queue, worker, job, outbox>>
  BY Zenon DEF Environment, ValidatorRegisters, ValidatorPings, Disconnect, Shutdown,
         ValidatorRequests, ValidatorAnswers, ValidatorRepeats, processorVars,
         mainVars, workerVars
<1>2. WorkersAtWork'
  BY <1>1 DEF StandInv, WorkersAtWork, Closed
<1>3. /\ toProcessor # <<>> => toProcessor' # <<>>
      /\ monitored => monitored'
      /\ shutdowns # <<>> => shutdowns' # <<>>
  <2>1. toProcessor' = toProcessor \/ \E m : toProcessor' = Append(toProcessor, m)
    BY Zenon DEF Environment, ValidatorRegisters, ValidatorPings, Disconnect, Shutdown,
           ValidatorRequests, ValidatorAnswers, ValidatorRepeats, ValidatorSend
  <2>2. shutdowns' = shutdowns \/ shutdowns' = Append(shutdowns, "shutdown")
    BY Zenon DEF Environment, ValidatorRegisters, ValidatorPings, Disconnect, Shutdown,
           ValidatorRequests, ValidatorAnswers, ValidatorRepeats, shutdownVars
  <2>3. monitored => monitored'
    BY Zenon DEF Environment, ValidatorRegisters, ValidatorPings, Disconnect, Shutdown,
           ValidatorRequests, ValidatorAnswers, ValidatorRepeats, shutdownVars
  <2>4. toProcessor \in Seq(ValidatorMessages) /\ shutdowns \in Seq({"restart", "shutdown"})
    BY SMTT(30) DEF TypeOK, TypeOKRouter, TypeOKValidator
  <2> QED BY <2>1, <2>2, <2>3, <2>4, AppendNonempty
<1>4. PolledReady'
  BY <1>1, <1>3, Zenon DEF StandInv, PolledReady
<1>5. LossNoticed'
  <2>1. linked' = linked \/ monitored'
    BY Zenon DEF Environment, ValidatorRegisters, ValidatorPings, Disconnect, Shutdown,
           ValidatorRequests, ValidatorAnswers, ValidatorRepeats
  <2> QED BY <1>1, <1>3, <2>1 DEF StandInv, LossNoticed
<1>6. ConfirmationComing'
  <2>1. CASE ValidatorRegisters
    <3>1. toProcessor' # <<>>
      BY <2>1, AppendNonempty, ZenonT(30) DEF ValidatorRegisters, ValidatorSend, TypeOK, TypeOKValidator
    <3> QED BY <1>1, <3>1, Zenon DEF StandInv, ConfirmationComing
  <2>2. CASE ~ValidatorRegisters
    <3>1. ~linked' \/ (linked' = linked /\ registration' = registration)
      BY <2>2, Zenon DEF Environment, ValidatorPings, Disconnect, Shutdown,
             ValidatorRequests, ValidatorAnswers, ValidatorRepeats, validatorVars
    <3> QED BY <1>1, <1>3, <3>1 DEF StandInv, ConfirmationComing
  <2> QED BY <2>1, <2>2
<1> QED BY <1>2, <1>4, <1>5, <1>6, Zenon DEF StandInv

\* StandInv holds in every reachable state.
LEMMA StandHeld == Spec => []StandInv
<1>1. TypeOK /\ StandInv /\ [Next]_vars => StandInv'
  <2>1. StandInv /\ UNCHANGED vars => StandInv'
    <3> SUFFICES ASSUME StandInv, UNCHANGED vars PROVE StandInv'
        OBVIOUS
    <3>1. UNCHANGED <<main, polled, queue, linked, monitored, shutdowns, registration, toProcessor,
                      worker, job, outbox>>
      BY DEF vars, mainVars, workerVars, shutdownVars, validatorVars
    <3>2. LossNoticed' /\ ConfirmationComing' /\ PolledReady'
      BY <3>1, Zenon DEF StandInv, LossNoticed, ConfirmationComing, PolledReady
    <3>3. WorkersAtWork'
      BY <3>1 DEF StandInv, WorkersAtWork, Closed
    <3> QED BY <3>2, <3>3 DEF StandInv
  <2> QED BY <2>1, RouterStand, WorkerStand, EnvironmentStand, Zenon DEF Next
<1> QED BY <1>1, InitStand, TypeCorrect, PTL DEF Spec

\* Router, workers and validator never all wait for each other, with any number
\* of workers and any queue: what is polled is there to be read, a worker waits
\* only for a call that is on its way, and a lost connection is heard of.
THEOREM ProcessorGoesOn == Spec => []NoStandstill
<1>1. TypeOK /\ CallInv /\ StandInv => NoStandstill
  <2> SUFFICES ASSUME TypeOK, CallInv, StandInv PROVE NoStandstill
      OBVIOUS
  <2>1. ASSUME main = "poll", polled # {} PROVE Moving
    <3>1. PICK s \in Sockets : s \in polled
      BY <2>1 DEF TypeOK, TypeOKRouter
    <3>2. Readable(s)
      BY <2>1, <3>1, Zenon DEF StandInv, PolledReady, Sockets, Readable
    <3> QED BY <3>1, <3>2, Zenon DEF Moving
  <2>2. ASSUME main = "poll",
               toProcessor # <<>> \/ monitored \/ shutdowns # <<>>
                 \/ \E w \in Workers : outbox[w] # <<>>
        PROVE  Moving
    <3>1. \E s \in Sockets : Readable(s)
      BY <2>2 DEF Sockets, Readable
    <3> QED BY <2>1, <2>2, <3>1, Zenon DEF Moving
  <2>3. ASSUME main = "poll", NEW w \in Workers, worker[w] \in {"apply", "recv"} PROVE Moving
    <3>1. CASE ~linked
      BY <2>2, <2>3, <3>1, Zenon DEF StandInv, LossNoticed
    <3>2. CASE worker[w] = "apply"
      BY <3>2, Zenon DEF Moving
    <3>3. CASE linked /\ worker[w] = "recv"
      <4>1. Delivered(w) \/ Unread(w) \/ Coming(call[w])
        BY <2>3, <3>3, Zenon DEF CallInv, Live, Tracked
      <4>2. CASE Delivered(w)
        BY <3>3, <4>2, Zenon DEF Moving, Delivered
      <4>3. CASE Unread(w)
        <5>1. outbox[w] # <<>>
          BY <4>3, SMTT(30) DEF Unread, Has
        <5> QED BY <2>2, <2>3, <5>1, ZenonT(30)
      <4>4. CASE call[w] \in calls
        BY <4>4, Zenon DEF Moving
      <4>5. CASE Has(toProcessor, Return(call[w]))
        <5>1. toProcessor # <<>>
          BY <4>5 DEF Has
        <5> QED BY <2>2, <2>3, <5>1, ZenonT(30)
      <4> QED BY <4>1, <4>2, <4>3, <4>4, <4>5, Zenon DEF Coming
    <3> QED BY <2>3, <3>1, <3>2, <3>3, Zenon
  <2>4. ASSUME main = "poll", NEW r \in Requests, Present(r)
        PROVE  Moving \/ \A w \in Workers : worker[w] = "exited"
    <3>1. \/ toProcessor # <<>> \/ queue # <<>> \/ \E w \in Workers : outbox[w] # <<>>
          \/ \E w \in Workers : job[w] = r
      BY <2>4, SMTT(30) DEF Present
    <3>2. CASE toProcessor # <<>> \/ \E w \in Workers : outbox[w] # <<>>
      BY <2>2, <2>4, <3>2, Zenon
    <3>3. CASE \E w \in Workers : job[w] = r
      <4>1. PICK w \in Workers : job[w] = r
        BY <3>3, Zenon
      <4>2. worker[w] \in {"apply", "recv"}
        BY <4>1, ConstantsAssumption, Zenon DEF StandInv, WorkersAtWork, NoJob
      <4> QED BY <2>3, <2>4, <4>2
    <3>4. CASE queue # <<>>
      <4> SUFFICES ASSUME NEW w \in Workers, worker[w] # "exited" PROVE Moving
          OBVIOUS
      <4>1. worker[w] # "stuck"
        BY <2>4, Zenon DEF StandInv, WorkersAtWork, Closed
      <4>2. worker[w] \in {"idle", "apply", "recv"}
        BY <4>1 DEF TypeOK, TypeOKWorkers
      <4>3. CASE worker[w] = "idle"
        BY <3>4, <4>3, Zenon DEF Moving
      <4> QED BY <2>3, <2>4, <4>2, <4>3, Zenon
    <3> QED BY <3>1, <3>2, <3>3, <3>4, ZenonT(30)
  <2>5. main = "poll" /\ ~linked => Moving /\ (monitored \/ shutdowns # <<>>)
    BY <2>2 DEF StandInv, LossNoticed
  <2>6. main = "register" /\ linked =>
           queue = <<>> /\ (registration = "requested" \/ toProcessor # <<>>)
    BY DEF StandInv, ConfirmationComing
  <2> QED BY <2>4, <2>5, <2>6, Zenon DEF NoStandstill
<1> QED BY <1>1, TypeCorrect, CallsHeld, StandHeld, PTL
=============================================================================
