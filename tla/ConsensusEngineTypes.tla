------------------------ MODULE ConsensusEngineTypes ------------------------
(* The inductive invariant of ConsensusEngine, and the parts of it that are *)
(* about types, channels and registration, for any channel capacity and any *)
(* number of calls, notifications and connections.                          *)
EXTENDS ConsensusEngine, TLAPS, SequenceTheorems

(* The inductive invariant.                                                 *)

\* A pass of Start() that has no implementation yet.
Fresh(g) == g > gen \/ (g = gen /\ main \in {"register", "wait"})

\* A value is nowhere in a sequence.
Lacks(s, x) == \A i \in DOMAIN s : s[i] # x

\* The channel and the service of such a pass are as they were made.  Those of
\* the pass the loop serves are open, with no shutdown update in the channel,
\* and performShutdown takes them from there step by step.
ChannelInv ==
    /\ \A g \in Gens : Fresh(g) =>
          updates[g] = <<>> /\ ~told[g] /\ ~closed[g] /\ ~cut[g]
    /\ main \in {"poll", "update", "shutdown"} =>
          ~told[gen] /\ ~closed[gen] /\ ~cut[gen] /\ Lacks(updates[gen], ShutdownUpdate)
    /\ main = "closing" => Announced(gen)
    /\ main = "cutting" => closed[gen]
    /\ main = "leaving" \/ (main = "start" /\ gen \in Gens) => cut[gen]
    /\ ShutdownIsLast

\* Nobody holds a service of a pass to come, and a goroutine in a call is of a
\* pass no later than the service it calls.
Calling(g) ==
    /\ Fresh(g) => impl[g] = "none" /\ corrIds[g] = {}
    /\ using[g] # 0 => ~Fresh(using[g])
    /\ impl[g] \in InCall =>
          using[g] # 0 /\ g <= using[g] /\ call[g] # NoCall /\ call[g] < nextCall

\* Calls have ids of their own.
Distinct ==
    \A g, h \in Gens :
       impl[g] \in InCall /\ impl[h] \in InCall /\ call[g] = call[h] => g = h

\* ServiceIsolated of one goroutine, with what the present service has recorded.
Apart(g) ==
    impl[g] \in InCall /\ using[g] # gen =>
       /\ Lacks(serviceOut, call[g]) /\ Lacks(serviceIn, call[g])
       /\ call[g] \notin calls /\ call[g] \notin corrIds[gen]

CallInv ==
    /\ field # 0 => ~Fresh(field)
    /\ \A g \in Gens : Calling(g)
    /\ Distinct
    /\ \A g \in Gens : Apart(g)

\* While it registers, the engine has at most one answer to come, none as long
\* as the validator has not seen its request, and reads of an activation only
\* after the validator has made it.
IsAnswer(m) == m.type = "REGISTER_RESPONSE"
Registering ==
    main = "register" /\ linked =>
       /\ \A i, j \in DOMAIN toEngine :
             IsAnswer(toEngine[i]) /\ IsAnswer(toEngine[j]) => i = j
       /\ registration = "requested" => \A i \in DOMAIN toEngine : ~IsAnswer(toEngine[i])
       /\ \A i \in DOMAIN toEngine :
             toEngine[i] = RegisterResponse("OK_STATE") => registration = "active"

RegisterInv == Registering /\ ActiveTogether
-----------------------------------------------------------------------------
(* Type correctness.                                                        *)

\* What a message from the validator looks like.
LEMMA MessageFields ==
    ASSUME NEW m \in ValidatorMessages
    PROVE  /\ m.type \in MessageTypes
           /\ m.type = "NOTIFY" => m.id \in Nat
BY DEF ValidatorMessages, MessageTypes

\* The validator's pipe is read.
LEMMA PipeRead ==
    ASSUME TypeOKValidator, toEngine # <<>>
    PROVE  Head(toEngine) \in ValidatorMessages /\ Tail(toEngine) \in Seq(ValidatorMessages)
BY HeadTailProperties DEF TypeOKValidator

\* The variables of the implementations, their channels and their pipes are
\* left alone.
LEMMA ImplFrame ==
    ASSUME TypeOKImpl, UNCHANGED <<implVars, chanVars, serviceVars>> PROVE TypeOKImpl'
BY Zenon DEF TypeOKImpl, implVars, callVars, takenVars, storeVars, chanVars, serviceVars

\* Only where the implementations are changes.
LEMMA ImplMoves ==
    ASSUME TypeOKImpl, UNCHANGED <<field, callVars, takenVars, storeVars, chanVars, serviceVars>>,
           impl' \in [Gens -> ImplPlaces]
    PROVE  TypeOKImpl'
BY Zenon DEF TypeOKImpl, callVars, takenVars, storeVars, chanVars, serviceVars

\* The implementation of the present pass starts.
LEMMA ActivateMoves ==
    ASSUME TypeOKImpl, Activate PROVE impl' \in [Gens -> ImplPlaces]
BY Zenon DEF TypeOKImpl, Activate, ImplPlaces

\* A send on a channel that has room.
LEMMA ChannelSend ==
    ASSUME TypeOKImpl, gen \in Gens, Len(updates[gen]) < ChanSize,
           NEW u \in Updates,
           updates' = [updates EXCEPT ![gen] = Append(@, u)]
    PROVE  /\ updates' \in [Gens -> Seq(Updates)]
           /\ \A g \in Gens : Len(updates'[g]) <= ChanSize
<1>1. updates \in [Gens -> Seq(Updates)] /\ \A g \in Gens : Len(updates[g]) <= ChanSize
  BY DEF TypeOKImpl
<1>2. updates[gen] \in Seq(Updates)
  BY <1>1
<1>3. /\ Append(updates[gen], u) \in Seq(Updates)
      /\ Len(Append(updates[gen], u)) = Len(updates[gen]) + 1
  BY <1>2, AppendProperties
<1>4. Len(updates[gen]) \in Nat
  BY <1>2, LenProperties
<1>5. Len(Append(updates[gen], u)) <= ChanSize
  BY <1>3, <1>4, BoundsAssumption DEF BoundsAssumption
<1>6. \A g \in Gens : updates'[g] = IF g = gen THEN Append(updates[gen], u) ELSE updates[g]
  BY <1>1
<1> QED BY <1>1, <1>3, <1>5, <1>6

\* Every step of the engine goroutine keeps the types.
LEMMA EngineTypeOK == ASSUME TypeOK, Engine PROVE TypeOK'
<1> USE BoundsAssumption DEF BoundsAssumption, TypeOK
<1>1. CASE Start
  <2>1. TypeOKEngine'
    <3>1. /\ main' = "register" /\ cause' = "none" /\ polled' = {} /\ monitored' = FALSE
          /\ UNCHANGED <<pending, asked>>
      BY <1>1 DEF Start
    <3>2. shutdowns' \in Seq({"restart", "shutdown"})
      BY <1>1, EmptySeq DEF Start
    <3>3. gen' \in Gens /\ gen' \in 0..(MaxDisconnects + 1)
      BY <1>1 DEF Start, Gens
    <3> QED BY <3>1, <3>2, <3>3, Zenon DEF TypeOKEngine
  <2>2. TypeOKImpl'
    <3>1. taken' \in [Gens -> Nat]
      BY <1>1 DEF Start, TypeOKImpl, TypeOKValidator
    <3>2. serviceOut' \in Seq(CallIds) /\ serviceIn' \in Seq(CallIds)
      BY <1>1, EmptySeq DEF Start
    <3>3. UNCHANGED <<impl, field, callVars, told, storeVars, chanVars>>
      BY <1>1 DEF Start
    <3> QED BY <3>1, <3>2, <3>3, Zenon DEF TypeOKImpl, callVars, storeVars, chanVars
  <2>3. TypeOKValidator'
    BY <1>1, EmptySeq DEF Start, TypeOKValidator
  <2> QED BY <2>1, <2>2, <2>3
<1>2. CASE Register
  <2>1. Head(toEngine) \in ValidatorMessages /\ Tail(toEngine) \in Seq(ValidatorMessages)
    BY <1>2, PipeRead DEF Register
  <2>3. Head(toEngine).type \in MessageTypes
    BY <2>1, MessageFields
  <2>4. TypeOKEngine'
    <3>1. main' \in {"register", "poll", "wait", "failed"} /\ cause' \in {cause, Head(toEngine).type}
      BY <1>2 DEF Register, RegisterOK, RegisterNotReady, RegisterFails, Activate, Fail
    <3>2. UNCHANGED <<polled, pending, gen, monitored, asked, shutdowns>> /\ main = "register"
      BY <1>2 DEF Register, shutdownVars
    <3> QED BY <2>3, <3>1, <3>2 DEF TypeOKEngine
  <2>5. TypeOKImpl'
    <3>1. Activate \/ UNCHANGED impl
      BY <1>2 DEF Register, RegisterOK, RegisterNotReady, RegisterFails
    <3>2. UNCHANGED <<field, callVars, takenVars, storeVars, chanVars, serviceVars>>
      BY <1>2 DEF Register
    <3>3. impl' \in [Gens -> ImplPlaces]
      BY <3>1, ActivateMoves DEF TypeOKImpl
    <3> QED BY <3>2, <3>3, ImplMoves
  <2>6. TypeOKValidator'
    <3>1. registration' \in {registration, "requested"}
      BY <1>2 DEF Register, RegisterOK, RegisterNotReady, RegisterFails
    <3>2. UNCHANGED <<linked, calls, notes, acked, pings, pongs, notReady, repeats, disconnects>>
      BY <1>2 DEF Register, countVars
    <3>3. toEngine' = Tail(toEngine)
      BY <1>2 DEF Register
    <3> QED BY <2>1, <3>1, <3>2, <3>3 DEF TypeOKValidator
  <2> QED BY <2>4, <2>5, <2>6
<1>3. CASE WaitUntilActive
  <2>1. Head(toEngine) \in ValidatorMessages /\ Tail(toEngine) \in Seq(ValidatorMessages)
    BY <1>3, PipeRead DEF WaitUntilActive
  <2>3. Head(toEngine).type \in MessageTypes
    BY <2>1, MessageFields
  <2>4. TypeOKEngine'
    <3>1. main' \in {"poll", "failed"} /\ cause' \in {cause, Head(toEngine).type}
      BY <1>3 DEF WaitUntilActive, Activate, Fail
    <3>2. UNCHANGED <<polled, pending, gen, monitored, asked, shutdowns>> /\ main = "wait"
      BY <1>3 DEF WaitUntilActive, shutdownVars
    <3> QED BY <2>3, <3>1, <3>2 DEF TypeOKEngine
  <2>5. TypeOKImpl'
    <3>1. Activate \/ UNCHANGED impl
      BY <1>3 DEF WaitUntilActive
    <3>2. UNCHANGED <<field, callVars, takenVars, storeVars, chanVars, serviceVars>>
      BY <1>3 DEF WaitUntilActive
    <3>3. impl' \in [Gens -> ImplPlaces]
      BY <3>1, ActivateMoves DEF TypeOKImpl
    <3> QED BY <3>2, <3>3, ImplMoves
  <2>6. TypeOKValidator'
    <3>1. registration' \in {registration, "active"}
      BY <1>3 DEF WaitUntilActive
    <3>2. UNCHANGED <<linked, calls, notes, acked, pings, pongs, notReady, repeats, disconnects>>
      BY <1>3 DEF WaitUntilActive, countVars
    <3>3. toEngine' = Tail(toEngine)
      BY <1>3 DEF WaitUntilActive
    <3> QED BY <2>1, <3>1, <3>2, <3>3 DEF TypeOKValidator
  <2> QED BY <2>4, <2>5, <2>6
<1>4. CASE StartupShutdown \/ Poll \/ ReceiveMonitor \/ ReceiveShutdown
  <2>1. TypeOKEngine'
    <3>1. main' \in {main, "failed", "shutdown"} /\ main # "start"
      BY <1>4 DEF StartupShutdown, Poll, ReceiveMonitor, ReceiveShutdown, Fail, Turn
    <3>2. shutdowns' \in Seq({"restart", "shutdown"}) /\ cause' \in {"none", "restart", "shutdown"} \cup MessageTypes
      <4>1. CASE StartupShutdown
        BY <4>1 DEF StartupShutdown, Fail, shutdownVars, TypeOKEngine
      <4>2. CASE Poll
        BY <4>2 DEF Poll, shutdownVars, TypeOKEngine
      <4>3. CASE ReceiveMonitor
        BY <4>3, AppendProperties DEF ReceiveMonitor, TypeOKEngine
      <4>4. CASE ReceiveShutdown
        BY <4>4, HeadTailProperties DEF ReceiveShutdown, TypeOKEngine
      <4> QED BY <1>4, <4>1, <4>2, <4>3, <4>4
    <3>3. polled' \subseteq Sockets
      BY <1>4 DEF StartupShutdown, Poll, ReceiveMonitor, ReceiveShutdown, TypeOKEngine
    <3>4. UNCHANGED <<pending, gen, asked>> /\ monitored' \in {monitored, FALSE}
      BY <1>4, Zenon DEF StartupShutdown, Poll, ReceiveMonitor, ReceiveShutdown, shutdownVars
    <3> QED BY <3>1, <3>2, <3>3, <3>4, Zenon DEF TypeOKEngine
  <2>2. TypeOKImpl'
    <3>1. UNCHANGED <<implVars, chanVars, serviceVars>>
      BY <1>4, Zenon DEF StartupShutdown, Poll, ReceiveMonitor, ReceiveShutdown
    <3> QED BY <3>1, ImplFrame
  <2>3. TypeOKValidator'
    <3>1. UNCHANGED <<toEngine, linked, validatorVars, notes, acked, countVars>>
      BY <1>4, Zenon DEF StartupShutdown, Poll, ReceiveMonitor, ReceiveShutdown
    <3> QED BY <3>1, Zenon DEF TypeOKValidator, validatorVars, countVars
  <2> QED BY <2>1, <2>2, <2>3
<1>5. CASE ReceiveValidator
  <2>1. Head(toEngine) \in ValidatorMessages /\ Tail(toEngine) \in Seq(ValidatorMessages)
    BY <1>5, PipeRead DEF ReceiveValidator
  <2>2. main = "poll" /\ gen \in Gens
    BY <1>5 DEF ReceiveValidator, Turn, TypeOKEngine
  <2>3. corrIds[gen] \subseteq CallIds
    BY <2>2 DEF TypeOKImpl
  <2>4. TypeOKEngine'
    <3>1. main' \in {"poll", "update", "crashed"} /\ polled' = polled \ {"validator"}
      BY <1>5, <2>2 DEF ReceiveValidator, ReceiveNotification, ReceivePing, ReceiveResponse, Crash
    <3>2. pending' \in Nat
      BY <1>5, <2>1, MessageFields
      DEF ReceiveValidator, ReceiveNotification, ReceivePing, ReceiveResponse, TypeOKEngine
    <3>3. UNCHANGED <<cause, gen, monitored, asked, shutdowns>>
      BY <1>5 DEF ReceiveValidator, shutdownVars
    <3> QED BY <2>2, <3>1, <3>2, <3>3 DEF TypeOKEngine
  <2>5. TypeOKImpl'
    <3>1. impl' \in {impl, [g \in Gens |-> "none"]}
      BY <1>5 DEF ReceiveValidator, ReceiveNotification, ReceivePing, ReceiveResponse, Crash
    <3>2. serviceIn' = serviceIn \/ (Head(toEngine).id \in corrIds[gen] /\ serviceIn' = Append(serviceIn, Head(toEngine).id))
      BY <1>5 DEF ReceiveValidator, ReceiveNotification, ReceivePing, ReceiveResponse
    <3>3. serviceIn' \in Seq(CallIds)
      <4>1. serviceIn \in Seq(CallIds)
        BY DEF TypeOKImpl
      <4> QED BY <2>3, <3>2, <4>1, AppendProperties
    <3>4. UNCHANGED <<field, callVars, takenVars, storeVars, chanVars, serviceOut>>
      BY <1>5 DEF ReceiveValidator
    <3>5. impl' \in [Gens -> ImplPlaces]
      BY <3>1 DEF TypeOKImpl, ImplPlaces
    <3> QED BY <3>3, <3>4, <3>5, Zenon
            DEF TypeOKImpl, callVars, takenVars, storeVars, chanVars
  <2>6. TypeOKValidator'
    <3>1. linked' \in {linked, FALSE} /\ pongs' \in {pongs, pongs + 1}
      BY <1>5, Zenon DEF ReceiveValidator, ReceiveNotification, ReceivePing, ReceiveResponse, Crash
    <3>2. UNCHANGED <<registration, calls, notes, acked, pings, notReady, repeats, disconnects>>
      BY <1>5 DEF ReceiveValidator, validatorVars
    <3>3. toEngine' = Tail(toEngine)
      BY <1>5 DEF ReceiveValidator
    <3>4. linked' \in BOOLEAN
      BY <3>1, Zenon DEF TypeOKValidator
    <3>5. pongs \in Nat
      BY DEF TypeOKValidator
    <3>6. pongs' \in Nat
      BY <3>1, <3>5
    <3> QED BY <2>1, <3>2, <3>3, <3>4, <3>6, Zenon DEF TypeOKValidator
  <2> QED BY <2>4, <2>5, <2>6
<1>6. CASE HandleUpdate
  <2>1. TypeOKEngine' /\ gen \in Gens
    BY <1>6 DEF HandleUpdate, TypeOKEngine, shutdownVars
  <2>2. TypeOKImpl'
    <3>1. Update(pending) \in Updates
      BY DEF Update, Updates, TypeOKEngine
    <3>2. /\ updates' \in [Gens -> Seq(Updates)]
          /\ \A g \in Gens : Len(updates'[g]) <= ChanSize
      <4>1. CASE UNCHANGED updates
        BY <4>1 DEF TypeOKImpl
      <4>2. CASE Len(updates[gen]) < ChanSize
                 /\ updates' = [updates EXCEPT ![gen] = Append(@, Update(pending))]
        BY <2>1, <3>1, <4>2, ChannelSend, Zenon
      <4> QED BY <1>6, <4>1, <4>2, Zenon DEF HandleUpdate
    <3>3. UNCHANGED <<implVars, closed, cut, serviceVars>>
      BY <1>6 DEF HandleUpdate
    <3> QED BY <3>2, <3>3, Zenon
            DEF TypeOKImpl, implVars, callVars, takenVars, storeVars, serviceVars
  <2>3. TypeOKValidator'
    <3>1. UNCHANGED <<toEngine, linked, validatorVars, notes, countVars>> /\ acked' \in Nat
      BY <1>6 DEF HandleUpdate, TypeOKEngine
    <3> QED BY <3>1, Zenon DEF TypeOKValidator, validatorVars, countVars
  <2> QED BY <2>1, <2>2, <2>3
<1>7. CASE ReceiveService
  <2>1. TypeOKEngine'
    BY <1>7 DEF ReceiveService, TypeOKEngine, shutdownVars
  <2>2. Head(serviceOut) \in CallIds /\ Tail(serviceOut) \in Seq(CallIds)
    BY <1>7, HeadTailProperties DEF ReceiveService, TypeOKImpl
  <2>3. TypeOKImpl'
    <3>1. UNCHANGED <<implVars, chanVars, serviceIn>> /\ serviceOut' \in Seq(CallIds)
      BY <1>7, <2>2 DEF ReceiveService
    <3> QED BY <3>1, Zenon DEF TypeOKImpl, implVars, callVars, takenVars, storeVars, chanVars
  <2>4. TypeOKValidator'
    <3>1. calls' \subseteq CallIds
      BY <1>7, <2>2 DEF ReceiveService, TypeOKValidator
    <3>2. UNCHANGED <<toEngine, linked, registration, notes, acked, countVars>>
      BY <1>7 DEF ReceiveService
    <3> QED BY <3>1, <3>2, Zenon DEF TypeOKValidator, countVars
  <2> QED BY <2>1, <2>3, <2>4
<1>8. CASE PerformShutdown
  <2>1. TypeOKEngine' /\ gen \in Gens
    BY <1>8 DEF PerformShutdown, TypeOKEngine, shutdownVars
  <2>2. TypeOKImpl'
    <3>1. ShutdownUpdate \in Updates
      BY DEF ShutdownUpdate, Updates
    <3>2. /\ updates' \in [Gens -> Seq(Updates)]
          /\ \A g \in Gens : Len(updates'[g]) <= ChanSize
      BY <1>8, <2>1, <3>1, ChannelSend, Zenon DEF PerformShutdown
    <3>3. UNCHANGED <<implVars, closed, cut, serviceVars>>
      BY <1>8 DEF PerformShutdown
    <3> QED BY <3>2, <3>3, Zenon
            DEF TypeOKImpl, implVars, callVars, takenVars, storeVars, serviceVars
  <2>3. TypeOKValidator'
    BY <1>8, Zenon DEF PerformShutdown, TypeOKValidator, validatorVars, countVars
  <2> QED BY <2>1, <2>2, <2>3
<1>9. CASE CloseChannel \/ ShutdownService \/ CloseSockets
  <2>1. TypeOKEngine'
    <3>1. main' \in {"cutting", "leaving", "start", "stopped"} /\ main # "start"
      BY <1>9 DEF CloseChannel, ShutdownService, CloseSockets
    <3>2. UNCHANGED <<cause, polled, pending, gen, monitored, asked, shutdowns>>
      BY <1>9, Zenon DEF CloseChannel, ShutdownService, CloseSockets, shutdownVars
    <3> QED BY <3>1, <3>2, Zenon DEF TypeOKEngine
  <2>2. TypeOKImpl'
    <3>1. /\ closed' \in {closed, [closed EXCEPT ![gen] = TRUE]}
          /\ cut' \in {cut, [cut EXCEPT ![gen] = TRUE]}
          /\ serviceOut' \in {serviceOut, <<>>} /\ serviceIn' \in {serviceIn, <<>>}
          /\ UNCHANGED <<implVars, updates>>
      BY <1>9, Zenon DEF CloseChannel, ShutdownService, CloseSockets, chanVars, serviceVars
    <3>2. closed' \in [Gens -> BOOLEAN] /\ cut' \in [Gens -> BOOLEAN]
      BY <3>1, Zenon DEF TypeOKImpl
    <3>3. serviceOut' \in Seq(CallIds) /\ serviceIn' \in Seq(CallIds)
      <4>1. serviceOut \in Seq(CallIds) /\ serviceIn \in Seq(CallIds)
        BY DEF TypeOKImpl
      <4> QED BY <3>1, <4>1, EmptySeq, Zenon
    <3> QED BY <3>1, <3>2, <3>3, Zenon DEF TypeOKImpl, implVars, callVars, takenVars, storeVars
  <2>3. TypeOKValidator'
    <3>1. linked' \in {linked, FALSE} /\ UNCHANGED <<toEngine, validatorVars, notes, acked, countVars>>
      BY <1>9, Zenon DEF CloseChannel, ShutdownService, CloseSockets
    <3>2. linked' \in BOOLEAN
      BY <3>1, Zenon DEF TypeOKValidator
    <3> QED BY <3>1, <3>2, Zenon DEF TypeOKValidator, validatorVars, countVars
  <2> QED BY <2>1, <2>2, <2>3
<1> QED BY <1>1, <1>2, <1>3, <1>4, <1>5, <1>6, <1>7, <1>8, <1>9 DEF Engine
-----------------------------------------------------------------------------
\* What every step of an implementation has in common.
LEMMA ImplSteps ==
    ASSUME TypeOK, NEW g \in Gens, Impl(g)
    PROVE  /\ impl[g] # "none"
           /\ UNCHANGED rest
           /\ UNCHANGED <<main, linked>> \/ (main' = "crashed" /\ linked' = FALSE)
           /\ \/ UNCHANGED impl
              \/ \E p \in ImplPlaces : impl' = [impl EXCEPT ![g] = p]
              \/ impl' = [h \in Gens |-> "none"]
<1>1. CASE ImplBegin(g)
  BY <1>1, Zenon DEF ImplBegin, At, ImplPlaces
<1>2. CASE ImplTake(g)
  BY <1>2, Zenon DEF ImplTake, At, AfterUpdate, ImplPlaces
<1>3. CASE ImplTurn(g)
  BY <1>3 DEF ImplTurn, At, ImplPlaces
<1>4. CASE RpcSend(g)
  BY <1>4, SMTT(30) DEF RpcSend, CallFails, Crash, At, ImplPlaces, InCall
<1>5. CASE RpcRecord(g)
  BY <1>5 DEF RpcRecord, At, ImplPlaces, InCall
<1>6. CASE RpcLook(g)
  BY <1>6, Zenon DEF RpcLook, At, ImplPlaces, InCall
<1>7. CASE RpcReceive(g)
  BY <1>7 DEF RpcReceive, At, ImplPlaces, InCall
<1>8. CASE RpcClosed(g)
  BY <1>8 DEF RpcClosed, CallFails, Crash, At, ImplPlaces
<1>9. CASE RpcForget(g)
  BY <1>9, Zenon DEF RpcForget, At, ImplPlaces
<1>10. CASE RpcRace(g)
  BY <1>10 DEF RpcRace, Crash, InCall
<1> QED BY <1>1, <1>2, <1>3, <1>4, <1>5, <1>6, <1>7, <1>8, <1>9, <1>10, Zenon DEF Impl

\* The service and the id of a call.
LEMMA CallTypes ==
    ASSUME TypeOK, CallInv, NEW g \in Gens, impl[g] \in InCall
    PROVE  using[g] \in Gens /\ call[g] \in CallIds
BY DEF TypeOK, TypeOKImpl, CallInv, Calling

\* Every step of an implementation keeps the types.
LEMMA ImplTypeOK == ASSUME TypeOK, CallInv, NEW g \in Gens, Impl(g) PROVE TypeOK'
<1>1. UNCHANGED rest
  BY ImplSteps, Zenon
<1>2. main' \in {main, "crashed"} /\ linked' \in {linked, FALSE}
  BY ImplSteps, Zenon
<1>3. impl' \in [Gens -> ImplPlaces]
  <2>1. impl \in [Gens -> ImplPlaces] /\ "none" \in ImplPlaces
    BY DEF TypeOK, TypeOKImpl, ImplPlaces
  <2>2. \/ UNCHANGED impl
        \/ \E p \in ImplPlaces : impl' = [impl EXCEPT ![g] = p]
        \/ impl' = [h \in Gens |-> "none"]
    BY ImplSteps, Zenon
  <2> QED BY <2>1, <2>2
<1>4. TypeOKEngine'
  <2>1. UNCHANGED <<cause, polled, pending, gen, monitored, asked, shutdowns>>
    BY <1>1 DEF rest, shutdownVars
  <2>2. gen \in Gens
    <3>1. ~(g > gen)
      BY ImplSteps, Zenon DEF CallInv, Calling, Fresh
    <3> QED BY <3>1, BoundsAssumption DEF BoundsAssumption, Gens, TypeOK, TypeOKEngine
  <2> QED BY <1>2, <2>1, <2>2 DEF TypeOK, TypeOKEngine
<1>5. TypeOKValidator'
  <2>1. UNCHANGED <<toEngine, registration, calls, notes, acked, countVars>>
    BY <1>1 DEF rest, validatorVars
  <2>2. linked' \in BOOLEAN
    BY <1>2, Zenon DEF TypeOK, TypeOKValidator
  <2> QED BY <2>1, <2>2, Zenon DEF TypeOK, TypeOKValidator, countVars
<1>6. TypeOKImpl'
  <2>1. TypeOKImpl /\ UNCHANGED <<closed, cut>>
    BY <1>1 DEF TypeOK, rest
  <2>2. CASE ImplTake(g)
    <3>1. UNCHANGED <<field, callVars, storeVars, serviceVars>> /\ updates[g] # <<>>
          /\ updates' = [updates EXCEPT ![g] = Tail(@)]
          /\ taken' = [taken EXCEPT ![g] = IF Head(updates[g]).type = "Update"
                                           THEN Head(updates[g]).id ELSE @]
          /\ told' = [told EXCEPT ![g] = @ \/ Head(updates[g]) = ShutdownUpdate]
      BY <2>2, Zenon DEF ImplTake
    <3>2. updates \in [Gens -> Seq(Updates)] /\ (\A h \in Gens : Len(updates[h]) <= ChanSize)
          /\ taken \in [Gens -> Nat]
      BY <2>1 DEF TypeOKImpl
    <3>3. updates[g] \in Seq(Updates)
      BY <3>2
    <3>4. Head(updates[g]) \in Updates /\ Tail(updates[g]) \in Seq(Updates)
          /\ Len(Tail(updates[g])) = Len(updates[g]) - 1
      BY <3>1, <3>3, HeadTailProperties
    <3>5. updates' \in [Gens -> Seq(Updates)]
      BY <3>1, <3>2, <3>4
    <3>6. \A h \in Gens : Len(updates'[h]) <= ChanSize
      <4>1. Len(updates[g]) \in Nat /\ Len(updates[g]) <= ChanSize
        BY <3>2, <3>3, LenProperties
      <4>2. Len(Tail(updates[g])) <= ChanSize
        BY <3>4, <4>1, BoundsAssumption DEF BoundsAssumption
      <4> QED BY <3>1, <3>2, <4>2
    <3>7. Head(updates[g]).id \in Nat
      BY <3>4 DEF Updates
    <3>8. taken' \in [Gens -> Nat]
      BY <3>1, <3>2, <3>7
    <3>9. told' \in [Gens -> BOOLEAN]
      BY <2>1, <3>1, Zenon DEF TypeOKImpl
    <3> QED BY <1>3, <2>1, <3>1, <3>5, <3>6, <3>8, <3>9, Zenon
            DEF TypeOKImpl, callVars, storeVars, serviceVars
  <2>3. CASE RpcLook(g) \/ RpcClosed(g) \/ RpcRace(g)
    <3>1. UNCHANGED <<field, callVars, takenVars, storeVars, updates, serviceVars>>
      BY <2>3 DEF RpcLook, RpcClosed, RpcRace
    <3> QED BY <1>3, <2>1, <3>1, ImplMoves, Zenon DEF chanVars
  <2>4. CASE RpcSend(g)
    <3>1. UNCHANGED <<field, takenVars, storeVars, updates, serviceIn>>
          /\ nextCall + repeats \in CallIds /\ nextCall' = nextCall + 1
          /\ (UNCHANGED <<call, serviceOut>> \/
                (call' = [call EXCEPT ![g] = nextCall] /\ serviceOut' = Append(serviceOut, nextCall)))
      BY <2>4, Zenon DEF RpcSend
    <3>2. nextCall \in CallIds /\ nextCall' \in 1..(MaxCalls + 1)
      BY <3>1, BoundsAssumption
      DEF BoundsAssumption, CallIds, TypeOK, TypeOKImpl, TypeOKValidator
    <3>3. call' \in [Gens -> CallIds \cup {NoCall}]
      <4>1. call \in [Gens -> CallIds \cup {NoCall}]
        BY <2>1, Zenon DEF TypeOKImpl
      <4> QED BY <3>1, <3>2, <4>1
    <3>4. serviceOut' \in Seq(CallIds)
      <4>1. serviceOut \in Seq(CallIds) /\ serviceOut' \in {serviceOut, Append(serviceOut, nextCall)}
        BY <2>1, <3>1, Zenon DEF TypeOKImpl
      <4> QED BY <3>2, <4>1, AppendProperties
    <3>5. using' \in [Gens -> {0} \cup Gens]
      <4>1. PICK s \in Services(g) : using' = [using EXCEPT ![g] = s]
        BY <2>4, Zenon DEF RpcSend
      <4>2. s \in Gens
        BY <2>1 DEF Services, TypeOKImpl
      <4> QED BY <2>1, <4>1, <4>2, Zenon DEF TypeOKImpl
    <3> QED BY <1>3, <2>1, <3>1, <3>2, <3>3, <3>4, <3>5, Zenon
            DEF TypeOKImpl, takenVars, storeVars
  <2>5. CASE RpcRecord(g)
    <3>1. corrIds' = [corrIds EXCEPT ![using[g]] = @ \cup {call[g]}] /\ impl[g] \in InCall
          /\ UNCHANGED <<field, callVars, takenVars, saved, updates, serviceVars>>
      BY <2>5, Zenon DEF RpcRecord, At, InCall
    <3>2. call[g] \in CallIds
      BY <3>1, CallTypes, ZenonT(30)
    <3>3. corrIds' \in [Gens -> SUBSET CallIds]
      BY <2>1, <3>1, <3>2, Zenon DEF TypeOKImpl
    <3> QED BY <1>3, <2>1, <3>1, <3>3, Zenon DEF TypeOKImpl, callVars, takenVars, serviceVars
  <2>6. CASE RpcReceive(g)
    <3>1. Head(serviceIn) \in CallIds /\ Tail(serviceIn) \in Seq(CallIds)
      BY <2>1, <2>6, HeadTailProperties DEF RpcReceive, TypeOKImpl
    <3>2. saved' \in [Gens -> SUBSET CallIds]
      <4>1. saved \in [Gens -> SUBSET CallIds]
        BY <2>1 DEF TypeOKImpl
      <4>2. saved' = saved \/ saved' = [saved EXCEPT ![using[g]] = @ \cup {Head(serviceIn)}]
        BY <2>6, Zenon DEF RpcReceive
      <4> QED BY <3>1, <4>1, <4>2
    <3>3. UNCHANGED <<field, callVars, takenVars, corrIds, updates, serviceOut>>
          /\ serviceIn' = Tail(serviceIn)
      BY <2>6, Zenon DEF RpcReceive
    <3> QED BY <1>3, <2>1, <3>1, <3>2, <3>3, Zenon DEF TypeOKImpl, callVars, takenVars
  <2>7. CASE RpcForget(g)
    <3>1. corrIds' \in [Gens -> SUBSET CallIds]
          /\ call' \in [Gens -> CallIds \cup {NoCall}]
      BY <2>1, <2>7, Zenon DEF RpcForget, TypeOKImpl
    <3>2. UNCHANGED <<field, using, nextCall, takenVars, saved, updates, serviceVars>>
      BY <2>7 DEF RpcForget
    <3> QED BY <1>3, <2>1, <3>1, <3>2, Zenon DEF TypeOKImpl, takenVars, serviceVars
  <2>8. CASE ImplBegin(g)
    <3>1. field' \in Gens /\ UNCHANGED <<callVars, takenVars, storeVars, updates, serviceVars>>
      BY <2>8 DEF ImplBegin
    <3>2. field' \in {0} \cup Gens
      BY <3>1
    <3> QED BY <1>3, <2>1, <3>1, <3>2, Zenon
            DEF TypeOKImpl, callVars, takenVars, storeVars, serviceVars
  <2>9. CASE ImplTurn(g)
    <3>1. /\ using' = [using EXCEPT ![g] = 0]
          /\ UNCHANGED <<field, call, nextCall, takenVars, storeVars, updates, serviceVars>>
      BY <2>9 DEF ImplTurn
    <3>2. using' \in [Gens -> {0} \cup Gens]
      BY <2>1, <3>1 DEF TypeOKImpl
    <3> QED BY <1>3, <2>1, <3>1, <3>2, Zenon DEF TypeOKImpl, takenVars, storeVars, serviceVars
  <2> QED BY <2>2, <2>3, <2>4, <2>5, <2>6, <2>7, <2>8, <2>9, Zenon DEF Impl
<1> QED BY <1>4, <1>5, <1>6, ZenonT(30) DEF TypeOK

\* Every step of the environment keeps the types.
LEMMA EnvironmentTypeOK == ASSUME TypeOK, Environment PROVE TypeOK'
<1>1. UNCHANGED programVars
  BY Zenon DEF Environment, ValidatorRegisters, ValidatorActivates, ValidatorNotifies,
         ValidatorPings, ValidatorAnswers, ValidatorRepeats, Disconnect, Shutdown
<1>2. TypeOKImpl'
  BY <1>1, ImplFrame DEF programVars, TypeOK
<1>3. TypeOKEngine'
  <2>1. UNCHANGED <<main, cause, polled, pending, gen>>
    BY <1>1 DEF programVars, engineVars
  <2>2. monitored' \in {monitored, TRUE} /\ asked' \in {asked, TRUE}
        /\ shutdowns' \in {shutdowns, Append(shutdowns, "shutdown")}
    BY Zenon DEF Environment, ValidatorRegisters, ValidatorActivates, ValidatorNotifies,
           ValidatorPings, ValidatorAnswers, ValidatorRepeats, Disconnect, Shutdown, shutdownVars
  <2>3. shutdowns' \in Seq({"restart", "shutdown"})
    BY <2>2, AppendProperties DEF TypeOK, TypeOKEngine
  <2> QED BY <2>1, <2>2, <2>3, Zenon DEF TypeOK, TypeOKEngine
<1>4. TypeOKValidator'
  <2>1. TypeOKValidator /\ acked' = acked
    BY <1>1 DEF TypeOK, programVars
  <2>2. toEngine' \in Seq(ValidatorMessages)
    <3>1. UNCHANGED toEngine \/ \E m \in ValidatorMessages : toEngine' = Append(toEngine, m)
      <4>1. CASE ValidatorRegisters
        BY <4>1 DEF ValidatorRegisters, ValidatorSend, RegisterResponse, ValidatorMessages
      <4>2. CASE ValidatorActivates
        BY <4>2, Zenon DEF ValidatorActivates, ValidatorSend, Msg, ValidatorMessages, MessageTypes
      <4>3. CASE ValidatorNotifies
        BY <2>1, <4>3 DEF ValidatorNotifies, ValidatorSend, Msg, ValidatorMessages,
                          MessageTypes, TypeOKValidator
      <4>4. CASE ValidatorPings
        BY <4>4, Zenon DEF ValidatorPings, ValidatorSend, Msg, ValidatorMessages, MessageTypes
      <4>5. ASSUME NEW c \in CallIds, ValidatorAnswers(c) \/ ValidatorRepeats(c)
            PROVE  \E m \in ValidatorMessages : toEngine' = Append(toEngine, m)
        BY <4>5, BoundsAssumption DEF BoundsAssumption, CallIds, ValidatorAnswers,
           ValidatorRepeats, ValidatorSend, Msg, ValidatorMessages, MessageTypes
      <4>6. CASE Disconnect \/ Shutdown
        BY <4>6 DEF Disconnect, Shutdown
      <4> QED BY <4>1, <4>2, <4>3, <4>4, <4>5, <4>6, Zenon DEF Environment
    <3> QED BY <2>1, <3>1, AppendProperties DEF TypeOKValidator
  <2>3. linked' \in BOOLEAN
    <3>1. linked' = linked \/ linked' = FALSE
      BY Zenon DEF Environment, ValidatorRegisters, ValidatorActivates, ValidatorNotifies,
           ValidatorPings, ValidatorAnswers, ValidatorRepeats, Disconnect, Shutdown
    <3> QED BY <2>1, <3>1, Zenon DEF TypeOKValidator
  <2>4. calls' \subseteq calls
    BY DEF Environment, ValidatorRegisters, ValidatorActivates, ValidatorNotifies,
           ValidatorPings, ValidatorAnswers, ValidatorRepeats, Disconnect, Shutdown, validatorVars
  <2>5. registration' \in {"none", "requested", "refused", "registered", "activating", "active"}
    <3>1. ValidatorRegisters => registration' \in {"active", "registered", "refused"}
      BY SMTT(30) DEF ValidatorRegisters, Confirmations
    <3>2. ~ValidatorRegisters => registration' \in {registration, "activating", "none"}
      BY Zenon DEF Environment, ValidatorRegisters, ValidatorActivates, ValidatorNotifies,
           ValidatorPings, ValidatorAnswers, ValidatorRepeats, Disconnect, Shutdown, validatorVars
    <3> QED BY <2>1, <3>1, <3>2 DEF TypeOKValidator
  <2>6. /\ notes' \in {notes, notes + 1} /\ pings' \in {pings, pings + 1} /\ pongs' = pongs
        /\ notReady' \in {notReady, notReady + 1} /\ repeats' \in {repeats, repeats + 1}
        /\ disconnects' \in {disconnects, disconnects + 1}
    BY DEF Environment, ValidatorRegisters, ValidatorActivates, ValidatorNotifies,
           ValidatorPings, ValidatorAnswers, ValidatorRepeats, Disconnect, Shutdown, countVars
  <2>7. /\ notes \in Nat /\ pings \in Nat /\ pongs \in Nat /\ notReady \in Nat
        /\ repeats \in Nat /\ disconnects \in Nat
    BY <2>1, Zenon DEF TypeOKValidator
  <2>8. /\ notes' \in Nat /\ pings' \in Nat /\ pongs' \in Nat /\ notReady' \in Nat
        /\ repeats' \in Nat /\ disconnects' \in Nat
    BY <2>6, <2>7
  <2>9. calls' \subseteq CallIds /\ acked' \in Nat
    BY <2>1, <2>4, Zenon DEF TypeOKValidator
  <2> QED BY <2>2, <2>3, <2>5, <2>8, <2>9, Zenon DEF TypeOKValidator
<1> QED BY <1>2, <1>3, <1>4 DEF TypeOK
-----------------------------------------------------------------------------
(* Sequences.                                                               *)

\* What Append adds to a sequence.
LEMMA AppendElements ==
    ASSUME NEW S, NEW s \in Seq(S), NEW x
    PROVE  /\ Len(s) \in Nat /\ DOMAIN s = 1..Len(s) /\ Len(s) + 1 \notin DOMAIN s
           /\ DOMAIN Append(s, x) = DOMAIN s \cup {Len(s) + 1}
           /\ \A i \in DOMAIN s : Append(s, x)[i] = s[i]
           /\ Append(s, x)[Len(s) + 1] = x
           /\ Len(Append(s, x)) = Len(s) + 1
<1>1. s \in Seq(S \cup {x}) /\ x \in S \cup {x}
  BY SeqDef, SMTT(30)
<1>2. /\ Len(s) \in Nat /\ DOMAIN s = 1..Len(s)
      /\ DOMAIN Append(s, x) = 1..(Len(s) + 1)
      /\ \A i \in 1..Len(s) : Append(s, x)[i] = s[i]
      /\ Append(s, x)[Len(s) + 1] = x
      /\ Len(Append(s, x)) = Len(s) + 1
  BY <1>1, AppendProperties, LenProperties
<1> QED BY <1>2

\* What Tail leaves of it.
LEMMA TailElements ==
    ASSUME NEW S, NEW s \in Seq(S), s # <<>>
    PROVE  /\ Len(s) \in Nat /\ 1 \in DOMAIN s /\ Head(s) = s[1]
           /\ DOMAIN s \subseteq Nat
           /\ \A i \in DOMAIN Tail(s) : i + 1 \in DOMAIN s /\ i \in Nat /\ Tail(s)[i] = s[i + 1]
           /\ Len(Tail(s)) = Len(s) - 1
<1>1. /\ Len(s) \in Nat \ {0} /\ DOMAIN s = 1..Len(s)
      /\ DOMAIN Tail(s) = 1..(Len(s) - 1)
      /\ \A i \in 1..(Len(s) - 1) : Tail(s)[i] = s[i + 1]
      /\ Head(s) = s[1] /\ Len(Tail(s)) = Len(s) - 1
  BY HeadTailProperties, LenProperties, EmptySeq
<1> QED BY <1>1
-----------------------------------------------------------------------------
(* Registration.                                                            *)

\* A step of a registered engine, one that ends the loop, and one without a
\* connection.
LEMMA RegisteredStep ==
    ASSUME RegisterInv,
           \/ main \in {"poll", "update"} /\ main' # "register" /\ UNCHANGED <<linked, registration>>
           \/ main' \notin {"register", "poll", "update"}
           \/ ~linked'
    PROVE  RegisterInv'
BY DEF RegisterInv, Registering, ActiveTogether

\* A step that touches none of the variables.
LEMMA RegisterFrame ==
    ASSUME RegisterInv, UNCHANGED <<main, linked, registration, toEngine>> PROVE RegisterInv'
BY Zenon DEF RegisterInv, Registering, ActiveTogether

\* Every step of the engine goroutine keeps the two sides in step.
LEMMA EngineRegisters == ASSUME TypeOK, RegisterInv, Engine PROVE RegisterInv'
<1>1. CASE Start
  BY <1>1 DEF Start, RegisterInv, Registering, ActiveTogether
<1>2. CASE Register
  <2>1. /\ main = "register" /\ toEngine # <<>> /\ toEngine' = Tail(toEngine) /\ UNCHANGED linked
        /\ RegisterOK(Head(toEngine)) \/ RegisterNotReady(Head(toEngine)) \/ RegisterFails(Head(toEngine))
    BY <1>2 DEF Register
  <2>2. toEngine \in Seq(ValidatorMessages)
    BY DEF TypeOK, TypeOKValidator
  <2>3. /\ 1 \in DOMAIN toEngine /\ Head(toEngine) = toEngine[1]
        /\ \A i \in DOMAIN toEngine' : i + 1 \in DOMAIN toEngine /\ i + 1 # 1 /\ toEngine'[i] = toEngine[i + 1]
    <3>1. /\ 1 \in DOMAIN toEngine /\ Head(toEngine) = toEngine[1]
          /\ \A i \in DOMAIN Tail(toEngine) :
                i + 1 \in DOMAIN toEngine /\ i \in Nat /\ Tail(toEngine)[i] = toEngine[i + 1]
      BY <2>1, <2>2, TailElements
    <3>2. \A i \in DOMAIN Tail(toEngine) : i + 1 # 1
      <4> SUFFICES ASSUME NEW i \in DOMAIN Tail(toEngine) PROVE i + 1 # 1
          OBVIOUS
      <4>1. DOMAIN Tail(toEngine) = 1..(Len(toEngine) - 1)
        BY <2>1, <2>2, HeadTailProperties, LenProperties, EmptySeq
      <4>2. Len(toEngine) \in Nat
        BY <2>2, LenProperties
      <4> QED BY <4>1, <4>2
    <3> QED BY <2>1, <3>1, <3>2
  <2>4. CASE ~linked
    BY <2>1, <2>4, RegisteredStep
  <2>5. CASE linked /\ RegisterOK(Head(toEngine))
    <3>1. CASE Head(toEngine) = RegisterResponse("OK_STATE") /\ Activate /\ UNCHANGED registration
      <4>1. registration = "active"
        BY <2>1, <2>3, <2>5, <3>1 DEF RegisterInv, Registering
      <4> QED BY <3>1, <4>1 DEF Activate, RegisterInv, Registering, ActiveTogether
    <3>2. CASE main' = "wait"
      BY <3>2, RegisteredStep, Zenon
    <3> QED BY <2>5, <3>1, <3>2, Zenon DEF RegisterOK
  <2>6. CASE linked /\ RegisterNotReady(Head(toEngine))
    <3>1. main' = "register" /\ registration' = "requested" /\ IsAnswer(toEngine[1])
      BY <2>1, <2>3, <2>6 DEF RegisterNotReady, RegisterResponse, IsAnswer
    <3>2. \A i \in DOMAIN toEngine' : ~IsAnswer(toEngine'[i])
      BY <2>1, <2>3, <2>6, <3>1 DEF RegisterInv, Registering
    <3>3. IsAnswer(RegisterResponse("OK_STATE"))
      BY DEF IsAnswer, RegisterResponse
    <3> QED BY <3>1, <3>2, <3>3, Zenon DEF RegisterInv, Registering, ActiveTogether
  <2>7. CASE RegisterFails(Head(toEngine))
    BY <2>7, RegisteredStep, Zenon DEF RegisterFails, Fail
  <2> QED BY <2>1, <2>4, <2>5, <2>6, <2>7, Zenon
<1>3. CASE WaitUntilActive
  <2>1. main' \in {"poll", "failed"} /\ (main' = "poll" /\ linked' => registration' = "active")
    BY <1>3 DEF WaitUntilActive, Activate, Fail
  <2> QED BY <2>1 DEF RegisterInv, Registering, ActiveTogether
<1>4. CASE \/ StartupShutdown \/ ReceiveShutdown \/ PerformShutdown
           \/ CloseChannel \/ ShutdownService \/ CloseSockets
  <2>1. main' \in {"failed", "shutdown", "closing", "cutting", "leaving", "start", "stopped"}
    BY <1>4 DEF StartupShutdown, ReceiveShutdown, PerformShutdown, CloseChannel,
                ShutdownService, CloseSockets, Fail
  <2> QED BY <2>1, RegisteredStep, Zenon
<1>5. CASE Poll \/ HandleUpdate \/ ReceiveMonitor \/ ReceiveService
  <2>1. main \in {"poll", "update"} /\ main' = "poll" /\ UNCHANGED <<linked, registration>>
    BY <1>5 DEF Poll, HandleUpdate, ReceiveMonitor, ReceiveService, Turn, validatorVars
  <2> QED BY <2>1, RegisteredStep, Zenon
<1>6. CASE ReceiveValidator
  <2>1. main = "poll" /\ UNCHANGED registration
    BY <1>6 DEF ReceiveValidator, Turn, validatorVars
  <2>2. (main' \in {"poll", "update"} /\ UNCHANGED linked) \/ main' = "crashed"
    BY <1>6, <2>1, Zenon DEF ReceiveValidator, ReceiveNotification, ReceivePing, ReceiveResponse, Crash
  <2> QED BY <2>1, <2>2, RegisteredStep
<1> QED BY <1>1, <1>2, <1>3, <1>4, <1>5, <1>6, Zenon DEF Engine

\* The implementations have no part in it.
LEMMA ImplRegisters == ASSUME TypeOK, RegisterInv, NEW g \in Gens, Impl(g) PROVE RegisterInv'
<1>1. UNCHANGED <<toEngine, registration>>
  BY ImplSteps, Zenon DEF rest, validatorVars
<1>2. UNCHANGED <<main, linked>> \/ main' = "crashed"
  BY ImplSteps, Zenon
<1> QED BY <1>1, <1>2, RegisterFrame, RegisteredStep, Zenon

\* The validator sends something that is no answer to a registration.
LEMMA OtherMessage ==
    ASSUME TypeOK, RegisterInv, NEW m, ~IsAnswer(m), ValidatorSend(m), UNCHANGED <<main, linked>>,
           \/ UNCHANGED registration
           \/ registration = "registered" /\ registration' = "activating"
    PROVE  RegisterInv'
<1>1. toEngine \in Seq(ValidatorMessages) /\ toEngine' = Append(toEngine, m)
  BY DEF TypeOK, TypeOKValidator, ValidatorSend
<1>2. /\ DOMAIN toEngine' = DOMAIN toEngine \cup {Len(toEngine) + 1}
      /\ \A i \in DOMAIN toEngine : toEngine'[i] = toEngine[i]
      /\ toEngine'[Len(toEngine) + 1] = m
  <2>1. /\ DOMAIN Append(toEngine, m) = DOMAIN toEngine \cup {Len(toEngine) + 1}
        /\ \A i \in DOMAIN toEngine : Append(toEngine, m)[i] = toEngine[i]
        /\ Append(toEngine, m)[Len(toEngine) + 1] = m
    BY <1>1, AppendElements, Zenon
  <2> QED BY <1>1, <2>1, Zenon
<1>3. ~IsAnswer(toEngine'[Len(toEngine) + 1])
  BY <1>2, Zenon
<1>4. \A i \in DOMAIN toEngine' :
         IsAnswer(toEngine'[i]) => i \in DOMAIN toEngine /\ toEngine'[i] = toEngine[i]
  BY <1>2, <1>3, Zenon
<1>5. IsAnswer(RegisterResponse("OK_STATE"))
  BY DEF IsAnswer, RegisterResponse
<1>6. Registering'
  <2> SUFFICES ASSUME main = "register", linked PROVE Registering'
      BY DEF Registering
  <2>1. \A i, j \in DOMAIN toEngine' :
           IsAnswer(toEngine'[i]) /\ IsAnswer(toEngine'[j]) => i = j
    BY <1>4, Zenon DEF RegisterInv, Registering
  <2>2. registration' = "requested" => \A i \in DOMAIN toEngine' : ~IsAnswer(toEngine'[i])
    BY <1>4, Zenon DEF RegisterInv, Registering
  <2>3. \A i \in DOMAIN toEngine' :
           toEngine'[i] = RegisterResponse("OK_STATE") => registration' = "active"
    BY <1>4, <1>5 DEF RegisterInv, Registering
  <2> QED BY <2>1, <2>2, <2>3, Zenon DEF Registering
<1>7. ActiveTogether'
  BY DEF RegisterInv, ActiveTogether
<1> QED BY <1>6, <1>7 DEF RegisterInv

\* Every step of the environment keeps the two sides in step.
LEMMA EnvironmentRegisters == ASSUME TypeOK, RegisterInv, Environment PROVE RegisterInv'
<1>1. UNCHANGED main
  BY Zenon DEF Environment, ValidatorRegisters, ValidatorActivates, ValidatorNotifies,
         ValidatorPings, ValidatorAnswers, ValidatorRepeats, Disconnect, Shutdown,
         programVars, engineVars
<1>2. CASE ValidatorRegisters
  <2>1. PICK c \in Confirmations :
           registration' = c[2] /\ toEngine' = Append(toEngine, RegisterResponse(c[1]))
    BY <1>2 DEF ValidatorRegisters, ValidatorSend
  <2>2. registration = "requested" /\ linked /\ UNCHANGED linked
    BY <1>2 DEF ValidatorRegisters, ValidatorSend
  <2>3. main \notin {"poll", "update"}
    BY <2>2 DEF RegisterInv, ActiveTogether
  <2>4. CASE main # "register"
    BY <1>1, <2>3, <2>4, RegisteredStep
  <2>5. CASE main = "register"
    <3>1. toEngine \in Seq(ValidatorMessages)
      BY DEF TypeOK, TypeOKValidator
    <3>2. /\ DOMAIN toEngine' = DOMAIN toEngine \cup {Len(toEngine) + 1}
          /\ \A i \in DOMAIN toEngine : toEngine'[i] = toEngine[i]
          /\ toEngine'[Len(toEngine) + 1] = RegisterResponse(c[1])
      BY <2>1, <3>1, AppendElements
    <3>3. \A i \in DOMAIN toEngine : ~IsAnswer(toEngine[i])
      BY <2>2, <2>5 DEF RegisterInv, Registering
    <3>4. \A i \in DOMAIN toEngine' : IsAnswer(toEngine'[i]) => i = Len(toEngine) + 1
      BY <3>2, <3>3, Zenon
    <3>5. registration' # "requested" /\ (c[1] = "OK_STATE" => registration' = "active")
      BY <2>1 DEF Confirmations
    <3>6. RegisterResponse(c[1]) = RegisterResponse("OK_STATE") => c[1] = "OK_STATE"
      BY DEF RegisterResponse
    <3>7. IsAnswer(RegisterResponse("OK_STATE"))
      BY DEF IsAnswer, RegisterResponse
    <3>8. \A i \in DOMAIN toEngine' :
             toEngine'[i] = RegisterResponse("OK_STATE") => registration' = "active"
      BY <3>2, <3>4, <3>5, <3>6, <3>7, Zenon
    <3>9. Registering'
      BY <3>4, <3>5, <3>8, Zenon DEF Registering
    <3> QED BY <1>1, <2>5, <3>9 DEF RegisterInv, ActiveTogether
  <2> QED BY <2>4, <2>5
<1>3. CASE ValidatorActivates
  <2>1. /\ ValidatorSend(Msg("ENGINE_ACTIVATED", 0)) /\ UNCHANGED linked
        /\ registration = "registered" /\ registration' = "activating"
    BY <1>3 DEF ValidatorActivates
  <2>2. ~IsAnswer(Msg("ENGINE_ACTIVATED", 0))
    BY DEF IsAnswer, Msg
  <2> QED BY <1>1, <2>1, <2>2, OtherMessage
<1>4. ASSUME NEW type \in {"NOTIFY", "PING_REQUEST", "RESPONSE"}, NEW id,
             ValidatorSend(Msg(type, id)), UNCHANGED <<linked, registration>>
      PROVE  RegisterInv'
  <2>1. ~IsAnswer(Msg(type, id))
    BY DEF IsAnswer, Msg
  <2> QED BY <1>1, <1>4, <2>1, OtherMessage
<1>5. CASE ValidatorNotifies
  <2>1. PICK n : n = notes + 1
    OBVIOUS
  <2>2. ValidatorSend(Msg("NOTIFY", n)) /\ UNCHANGED <<linked, registration>>
    BY <1>5, <2>1 DEF ValidatorNotifies, validatorVars
  <2> QED BY <1>4, <2>2
<1>6. CASE ValidatorPings
  BY <1>4, <1>6, Zenon DEF ValidatorPings, validatorVars
<1>7. ASSUME NEW c \in CallIds, ValidatorAnswers(c) \/ ValidatorRepeats(c) PROVE RegisterInv'
  BY <1>4, <1>7 DEF ValidatorAnswers, ValidatorRepeats, validatorVars
<1>8. CASE Disconnect
  BY <1>8, RegisteredStep DEF Disconnect
<1>9. CASE Shutdown
  BY <1>1, <1>9, RegisterFrame DEF Shutdown, validatorVars
<1> QED BY <1>2, <1>3, <1>5, <1>6, <1>7, <1>8, <1>9 DEF Environment
-----------------------------------------------------------------------------
(* The channels and their end.                                              *)

\* Another element is added.
LEMMA LacksAppend ==
    ASSUME NEW S, NEW s \in Seq(S), NEW x, NEW y, Lacks(s, x), y # x
    PROVE  Lacks(Append(s, y), x)
<1>1. /\ DOMAIN Append(s, y) = DOMAIN s \cup {Len(s) + 1}
      /\ \A i \in DOMAIN s : Append(s, y)[i] = s[i]
      /\ Append(s, y)[Len(s) + 1] = y
  BY AppendElements
<1> QED BY <1>1, Zenon DEF Lacks

\* One is taken away.
LEMMA LacksTail ==
    ASSUME NEW S, NEW s \in Seq(S), s # <<>>, NEW x, Lacks(s, x)
    PROVE  Lacks(Tail(s), x) /\ Head(s) # x
BY TailElements, Zenon DEF Lacks

\* What ShutdownIsLast says of one pass, other than that its service is shut down.
Ordered(g) ==
    /\ told[g] => updates[g] = <<>>
    /\ \A i \in DOMAIN updates[g] : updates[g][i] = ShutdownUpdate => i = Len(updates[g])
    /\ closed[g] => Announced(g)
    /\ cut[g] => closed[g]

\* The numbers of the passes.
LEMMA GensNat == ASSUME TypeOK PROVE gen \in Nat /\ Gens \subseteq Nat
BY BoundsAssumption DEF BoundsAssumption, TypeOK, TypeOKEngine, Gens

\* The engine stays where it was, as far as the passes go, or leaves it.
MovesOn ==
    /\ main' \in {"register", "wait"} => main \in {"register", "wait"}
    /\ main' \in {"poll", "update", "shutdown"} => main \in {"poll", "update", "shutdown"}
    /\ main' \in {"start", "closing", "cutting", "leaving"} => main' = main

\* A step that leaves the channels alone.
LEMMA ChannelFrame ==
    ASSUME ChannelInv, MovesOn, UNCHANGED <<gen, updates, told, closed, cut>>
    PROVE  ChannelInv'
<1>1. ShutdownIsLast'
  BY Zenon DEF ChannelInv, ShutdownIsLast, Announced
<1>2. main' = "closing" => Announced(gen)'
  BY Zenon DEF ChannelInv, MovesOn, Announced
<1>3. \A g \in Gens : Fresh(g)' => Fresh(g)
  BY Zenon DEF Fresh, MovesOn
<1>4. /\ main' = "cutting" => closed'[gen']
      /\ main' = "leaving" \/ (main' = "start" /\ gen' \in Gens) => cut'[gen']
  BY Zenon DEF ChannelInv, MovesOn
<1>5. main' \in {"poll", "update", "shutdown"} =>
         ~told'[gen'] /\ ~closed'[gen'] /\ ~cut'[gen'] /\ Lacks(updates'[gen'], ShutdownUpdate)
  BY Zenon DEF ChannelInv, MovesOn
<1>6. \A g \in Gens : Fresh(g)' =>
          updates'[g] = <<>> /\ ~told'[g] /\ ~closed'[g] /\ ~cut'[g]
  BY <1>3, Zenon DEF ChannelInv
<1> QED BY <1>1, <1>2, <1>4, <1>5, <1>6, Zenon DEF ChannelInv

\* The channel and the service of a pass are made.
LEMMA ChannelActivate ==
    ASSUME TypeOK, ChannelInv, main \in {"register", "wait"}, main' = "poll",
           UNCHANGED <<gen, updates, told, closed, cut>>
    PROVE  ChannelInv'
<1>1. gen \in Gens /\ Fresh(gen)
  BY DEF TypeOK, TypeOKEngine, Fresh
<1>2. updates[gen] = <<>> /\ ~told[gen] /\ ~closed[gen] /\ ~cut[gen]
  BY <1>1, Zenon DEF ChannelInv
<1>3. Lacks(updates[gen], ShutdownUpdate)
  BY <1>2 DEF Lacks
<1>4. ShutdownIsLast'
  BY Zenon DEF ChannelInv, ShutdownIsLast, Announced
<1>5. \A g \in Gens : Fresh(g)' => Fresh(g)
  BY DEF Fresh
<1> QED BY <1>2, <1>3, <1>4, <1>5 DEF ChannelInv

\* A step on the channel or the service of the present pass.
LEMMA ChannelStep ==
    ASSUME TypeOK, ChannelInv, UNCHANGED <<gen, told>>,
           main \notin {"start", "register", "wait"}, main' \notin {"register", "wait"},
           \A g \in Gens \ {gen} : /\ updates'[g] = updates[g] /\ closed'[g] = closed[g]
                                   /\ cut'[g] = cut[g],
           Ordered(gen)',
           main' \in {"poll", "update", "shutdown"} =>
              ~told[gen] /\ ~closed'[gen] /\ ~cut'[gen] /\ Lacks(updates'[gen], ShutdownUpdate),
           main' = "closing" => Announced(gen)',
           main' = "cutting" => closed'[gen],
           main' \in {"leaving", "start"} => cut'[gen]
    PROVE  ChannelInv'
<1>1. gen \in Gens /\ gen \in Nat /\ Gens \subseteq Nat
  BY GensNat, Zenon DEF TypeOK, TypeOKEngine
<1>2. ASSUME NEW g \in Gens, Fresh(g)' PROVE Fresh(g) /\ g # gen
  BY <1>1, <1>2 DEF Fresh
<1>3. ASSUME NEW g \in Gens \ {gen} PROVE Ordered(g)' /\ (g < gen => cut'[g])
  <2>1. Ordered(g) /\ (g < gen => cut[g])
    BY Zenon DEF ChannelInv, ShutdownIsLast, Ordered
  <2> QED BY <2>1, Zenon DEF Ordered, Announced
<1>4. ShutdownIsLast'
  <2>1. ASSUME NEW g \in Gens PROVE Ordered(g)' /\ (g < gen => cut'[g])
    <3>1. CASE g = gen
      BY <1>1, <3>1
    <3> QED BY <1>3, <3>1, Zenon
  <2> QED BY <2>1, Zenon DEF ShutdownIsLast, Ordered
<1>5. \A g \in Gens : Fresh(g)' => updates'[g] = <<>> /\ ~told'[g] /\ ~closed'[g] /\ ~cut'[g]
  BY <1>2, Zenon DEF ChannelInv
<1> QED BY <1>4, <1>5, Zenon DEF ChannelInv

\* Every step of the engine goroutine keeps the channels in order.
LEMMA EngineChannels == ASSUME TypeOK, ChannelInv, Engine PROVE ChannelInv'
<1>0. gen \in Nat /\ Gens \subseteq Nat
  BY GensNat, Zenon
<1>1. CASE Start
  <2>1. /\ main = "start" /\ main' = "register" /\ gen' = gen + 1
        /\ UNCHANGED <<updates, told, closed, cut>>
    BY <1>1 DEF Start, chanVars
  <2>2. ASSUME NEW g \in Gens, Fresh(g)' PROVE Fresh(g)
    BY <1>0, <2>1, <2>2 DEF Fresh
  <2>3. ASSUME NEW g \in Gens, g < gen + 1 PROVE cut[g]
    <3>1. g < gen \/ g = gen
      BY <1>0, <2>3
    <3> QED BY <2>1, <3>1, Zenon DEF ChannelInv, ShutdownIsLast
  <2>4. ShutdownIsLast'
    BY <2>1, <2>3, Zenon DEF ChannelInv, ShutdownIsLast, Announced
  <2> QED BY <2>1, <2>2, <2>4, Zenon DEF ChannelInv
<1>2. CASE Register \/ WaitUntilActive
  <2>1. main \in {"register", "wait"} /\ main' \in {"register", "wait", "poll", "failed"}
    BY <1>2, Zenon DEF Register, RegisterOK, RegisterNotReady, RegisterFails, WaitUntilActive,
                Activate, Fail
  <2>2. UNCHANGED <<gen, updates, told, closed, cut>>
    BY <1>2 DEF Register, WaitUntilActive, chanVars, takenVars
  <2>3. CASE main' = "poll"
    BY <2>1, <2>2, <2>3, ChannelActivate, Zenon
  <2>4. CASE main' # "poll"
    BY <2>1, <2>2, <2>4, ChannelFrame DEF MovesOn
  <2> QED BY <2>3, <2>4, Zenon
<1>3. CASE StartupShutdown \/ Poll \/ ReceiveMonitor \/ ReceiveService \/ ReceiveShutdown
  <2>1. UNCHANGED <<gen, implVars, chanVars>>
    BY <1>3, Zenon DEF StartupShutdown, Poll, ReceiveMonitor, ReceiveService, ReceiveShutdown
  <2>2. main' \in {main, "failed"} \/ (main = "poll" /\ main' = "shutdown")
    BY <1>3, Zenon DEF StartupShutdown, Poll, ReceiveMonitor, ReceiveService, ReceiveShutdown,
                       Fail, Turn
  <2>3. MovesOn
    BY <2>2 DEF MovesOn
  <2> QED BY <2>1, <2>3, ChannelFrame DEF implVars, takenVars, chanVars
<1>4. CASE ReceiveValidator
  <2>1. main = "poll" /\ UNCHANGED <<gen, takenVars, chanVars>>
    BY <1>4, Zenon DEF ReceiveValidator, Turn
  <2>2. main' \in {"poll", "update", "crashed"}
    BY <1>4, <2>1 DEF ReceiveValidator, ReceiveNotification, ReceivePing, ReceiveResponse, Crash
  <2>3. MovesOn
    BY <2>1, <2>2 DEF MovesOn
  <2> QED BY <2>1, <2>3, ChannelFrame, Zenon DEF takenVars, chanVars
<1>5. CASE HandleUpdate
  <2>1. /\ main = "update" /\ main' = "poll" /\ gen \in Gens
        /\ UNCHANGED <<gen, told, closed, cut>>
    BY <1>5 DEF HandleUpdate, TypeOK, TypeOKEngine, implVars, takenVars
  <2>2. CASE UNCHANGED updates
    BY <2>1, <2>2, ChannelFrame DEF MovesOn
  <2>3. CASE updates' = [updates EXCEPT ![gen] = Append(@, Update(pending))]
    <3>1. ~told[gen] /\ ~closed[gen] /\ ~cut[gen] /\ Lacks(updates[gen], ShutdownUpdate)
      BY <2>1, Zenon DEF ChannelInv
    <3>2. updates[gen] \in Seq(Updates) /\ updates'[gen] = Append(updates[gen], Update(pending))
          /\ \A g \in Gens \ {gen} : updates'[g] = updates[g]
      BY <2>1, <2>3, Zenon DEF TypeOK, TypeOKImpl
    <3>3. Update(pending) # ShutdownUpdate
      BY DEF Update, ShutdownUpdate
    <3>4. Lacks(updates'[gen], ShutdownUpdate)
      <4>1. Lacks(Append(updates[gen], Update(pending)), ShutdownUpdate)
        BY <3>1, <3>2, <3>3, LacksAppend, Zenon
      <4> QED BY <3>2, <4>1, Zenon
    <3>5. Ordered(gen)'
      BY <2>1, <3>1, <3>4, Zenon DEF Ordered, Lacks
    <3> QED BY <2>1, <3>1, <3>2, <3>4, <3>5, ChannelStep, Zenon
  <2> QED BY <1>5, <2>2, <2>3, Zenon DEF HandleUpdate
<1>6. CASE PerformShutdown
  <2>1. /\ main = "shutdown" /\ main' = "closing" /\ gen \in Gens
        /\ updates' = [updates EXCEPT ![gen] = Append(@, ShutdownUpdate)]
        /\ UNCHANGED <<gen, told, closed, cut>>
    BY <1>6 DEF PerformShutdown, TypeOK, TypeOKEngine, implVars, takenVars
  <2>2. ~told[gen] /\ ~closed[gen] /\ ~cut[gen] /\ Lacks(updates[gen], ShutdownUpdate)
    BY <2>1, Zenon DEF ChannelInv
  <2>3. updates[gen] \in Seq(Updates) /\ updates'[gen] = Append(updates[gen], ShutdownUpdate)
        /\ \A g \in Gens \ {gen} : updates'[g] = updates[g]
    BY <2>1, ZenonT(30) DEF TypeOK, TypeOKImpl
  <2>4. /\ DOMAIN updates'[gen] = DOMAIN updates[gen] \cup {Len(updates[gen]) + 1}
        /\ \A i \in DOMAIN updates[gen] : updates'[gen][i] = updates[gen][i]
        /\ updates'[gen][Len(updates[gen]) + 1] = ShutdownUpdate
        /\ Len(updates'[gen]) = Len(updates[gen]) + 1
    BY <2>3, AppendElements
  <2>5. \A i \in DOMAIN updates'[gen] : updates'[gen][i] = ShutdownUpdate => i = Len(updates'[gen])
    BY <2>2, <2>4, Zenon DEF Lacks
  <2>6. Ordered(gen)'
    BY <2>1, <2>2, <2>5, Zenon DEF Ordered
  <2>7. Announced(gen)'
    BY <2>1, <2>4, Zenon DEF Announced
  <2> QED BY <2>1, <2>3, <2>6, <2>7, ChannelStep, Zenon
<1>7. CASE CloseChannel
  <2>1. /\ main = "closing" /\ main' = "cutting" /\ gen \in Gens
        /\ closed' = [closed EXCEPT ![gen] = TRUE]
        /\ UNCHANGED <<gen, told, updates, cut>>
    BY <1>7 DEF CloseChannel, TypeOK, TypeOKEngine, implVars, takenVars
  <2>2. closed'[gen] /\ \A g \in Gens \ {gen} : closed'[g] = closed[g]
    BY <2>1, Zenon DEF TypeOK, TypeOKImpl
  <2>3. Ordered(gen) /\ Announced(gen)
    BY <2>1, Zenon DEF ChannelInv, ShutdownIsLast, Ordered
  <2>4. Ordered(gen)'
    BY <2>1, <2>2, <2>3, Zenon DEF Ordered, Announced
  <2> QED BY <2>1, <2>2, <2>4, ChannelStep, Zenon
<1>8. CASE ShutdownService
  <2>1. /\ main = "cutting" /\ main' = "leaving" /\ gen \in Gens
        /\ cut' = [cut EXCEPT ![gen] = TRUE]
        /\ UNCHANGED <<gen, told, updates, closed>>
    BY <1>8 DEF ShutdownService, TypeOK, TypeOKEngine, implVars, takenVars
  <2>2. cut'[gen] /\ \A g \in Gens \ {gen} : cut'[g] = cut[g]
    BY <2>1, Zenon DEF TypeOK, TypeOKImpl
  <2>3. Ordered(gen) /\ closed[gen]
    BY <2>1, Zenon DEF ChannelInv, ShutdownIsLast, Ordered
  <2>4. Ordered(gen)'
    BY <2>1, <2>2, <2>3, Zenon DEF Ordered, Announced
  <2> QED BY <2>1, <2>2, <2>4, ChannelStep, Zenon
<1>9. CASE CloseSockets
  <2>1. /\ main = "leaving" /\ main' \in {"start", "stopped"} /\ gen \in Gens
        /\ UNCHANGED <<gen, told, updates, closed, cut>>
    BY <1>9 DEF CloseSockets, TypeOK, TypeOKEngine, implVars, takenVars, chanVars
  <2>2. Ordered(gen)' /\ cut'[gen]
    BY <2>1, Zenon DEF ChannelInv, ShutdownIsLast, Ordered, Announced
  <2> QED BY <2>1, <2>2, ChannelStep, Zenon
<1> QED BY <1>1, <1>2, <1>3, <1>4, <1>5, <1>6, <1>7, <1>8, <1>9, Zenon DEF Engine

\* A goroutine takes an update off its channel.
LEMMA OrderedTake ==
    ASSUME TypeOK, NEW g \in Gens, Ordered(g), updates[g] # <<>>,
           updates'[g] = Tail(updates[g]), UNCHANGED <<closed, cut>>,
           told'[g] = (told[g] \/ Head(updates[g]) = ShutdownUpdate)
    PROVE  /\ Ordered(g)'
           /\ Announced(g) => Announced(g)'
           /\ Lacks(updates[g], ShutdownUpdate) => ~told'[g] /\ Lacks(updates'[g], ShutdownUpdate)
<1> DEFINE s == updates[g]
<1>1. s \in Seq(Updates)
  BY Zenon DEF TypeOK, TypeOKImpl
<1>2. ~told[g]
  BY Zenon DEF Ordered
<1>3. /\ Len(s) \in Nat /\ 1 \in DOMAIN s /\ Head(s) = s[1] /\ DOMAIN s = 1..Len(s)
      /\ \A i \in DOMAIN Tail(s) : i + 1 \in DOMAIN s /\ i \in Nat /\ Tail(s)[i] = s[i + 1]
      /\ DOMAIN Tail(s) = 1..(Len(s) - 1) /\ Len(Tail(s)) = Len(s) - 1 /\ Tail(s) \in Seq(Updates)
  BY <1>1, TailElements, HeadTailProperties, LenProperties
<1>4. told'[g] => updates'[g] = <<>>
  <2> SUFFICES ASSUME told'[g] PROVE updates'[g] = <<>>
      BY Zenon
  <2>1. s[1] = ShutdownUpdate
    BY <1>2, <1>3, Zenon
  <2>2. 1 = Len(s)
    BY <1>3, <2>1, Zenon DEF Ordered
  <2>3. Len(Tail(s)) = 0
    BY <1>3, <2>2, SMTT(30)
  <2> QED BY <1>3, <2>3, EmptySeq, Zenon
<1>5. ASSUME NEW i \in DOMAIN updates'[g], updates'[g][i] = ShutdownUpdate
      PROVE  i = Len(updates'[g])
  <2>1. i \in DOMAIN Tail(s) /\ Tail(s)[i] = ShutdownUpdate
    BY <1>5, Zenon
  <2>2. i + 1 \in DOMAIN s /\ i \in Nat /\ s[i + 1] = ShutdownUpdate
    BY <1>3, <2>1, Zenon
  <2>3. i + 1 = Len(s)
    BY <2>2, Zenon DEF Ordered
  <2> QED BY <1>3, <2>2, <2>3
<1>6. Announced(g) => Announced(g)'
  <2> SUFFICES ASSUME NEW i \in DOMAIN s, s[i] = ShutdownUpdate, i # 1 PROVE Announced(g)'
      BY <1>2, <1>3, Zenon DEF Announced
  <2>1. i - 1 \in DOMAIN Tail(s) /\ (i - 1) + 1 = i
    BY <1>3
  <2>2. Tail(s)[i - 1] = ShutdownUpdate
    BY <1>3, <2>1, Zenon
  <2> QED BY <2>1, <2>2, Zenon DEF Announced
<1>7. Lacks(s, ShutdownUpdate) => ~told'[g] /\ Lacks(updates'[g], ShutdownUpdate)
  <2> SUFFICES ASSUME Lacks(s, ShutdownUpdate)
               PROVE  ~told'[g] /\ Lacks(updates'[g], ShutdownUpdate)
      BY Zenon
  <2> HIDE DEF s
  <2>1. s # <<>>
    BY Zenon DEF s
  <2>2. Lacks(Tail(s), ShutdownUpdate) /\ Head(s) # ShutdownUpdate
    BY <1>1, <2>1, LacksTail
  <2> QED BY <1>2, <2>2, Zenon DEF s
<1>8. Ordered(g)'
  BY <1>4, <1>5, <1>6, Zenon DEF Ordered
<1> QED BY <1>6, <1>7, <1>8, Zenon

\* Every step of an implementation keeps the channels in order.
LEMMA ImplChannels ==
    ASSUME TypeOK, ChannelInv, CallInv, NEW g \in Gens, Impl(g) PROVE ChannelInv'
<1>1. UNCHANGED <<gen, closed, cut>> /\ main' \in {main, "crashed"}
  BY ImplSteps, Zenon DEF rest
<1>2. CASE ~ImplTake(g)
  <2>1. UNCHANGED <<updates, told>>
    BY <1>2, Zenon DEF Impl, ImplBegin, ImplTurn, RpcSend, RpcRecord, RpcLook, RpcReceive,
                       RpcClosed, RpcForget, RpcRace, takenVars
  <2>2. MovesOn
    BY <1>1 DEF MovesOn
  <2> QED BY <1>1, <2>1, <2>2, ChannelFrame
<1>3. CASE ImplTake(g)
  <2>1. /\ updates[g] # <<>> /\ updates' = [updates EXCEPT ![g] = Tail(@)]
        /\ told' = [told EXCEPT ![g] = @ \/ Head(updates[g]) = ShutdownUpdate]
        /\ UNCHANGED main
    BY <1>3, Zenon DEF ImplTake, At
  <2>2. /\ updates'[g] = Tail(updates[g])
        /\ told'[g] = (told[g] \/ Head(updates[g]) = ShutdownUpdate)
        /\ \A h \in Gens \ {g} : updates'[h] = updates[h] /\ told'[h] = told[h]
    BY <2>1, Zenon DEF TypeOK, TypeOKImpl
  <2>3. \A h \in Gens : Ordered(h) /\ (h < gen => cut[h])
    BY Zenon DEF ChannelInv, ShutdownIsLast, Ordered
  <2>4. /\ Ordered(g)' /\ (Announced(g) => Announced(g)')
        /\ Lacks(updates[g], ShutdownUpdate) => ~told'[g] /\ Lacks(updates'[g], ShutdownUpdate)
    BY <1>1, <2>1, <2>2, <2>3, OrderedTake, Zenon
  <2>5. \A h \in Gens \ {g} : Ordered(h)' /\ (Announced(h) => Announced(h)')
    BY <1>1, <2>2, <2>3, Zenon DEF Ordered, Announced
  <2>6. ShutdownIsLast'
    <3>1. \A h \in Gens : Ordered(h)' /\ (h < gen => cut[h])
      BY <2>3, <2>4, <2>5, Zenon
    <3> QED BY <1>1, <3>1, Zenon DEF ShutdownIsLast, Ordered
  <2>7. ~Fresh(g)
    BY ImplSteps, Zenon DEF CallInv, Calling
  <2>8. \A h \in Gens : Fresh(h)' =>
            updates'[h] = <<>> /\ ~told'[h] /\ ~closed'[h] /\ ~cut'[h]
    BY <1>1, <2>1, <2>2, <2>7, Zenon DEF ChannelInv, Fresh
  <2>9. main \in {"poll", "update", "shutdown", "closing"} => gen \in Gens
    BY Zenon DEF TypeOK, TypeOKEngine
  <2>10. main' \in {"poll", "update", "shutdown"} =>
            ~told'[gen'] /\ ~closed'[gen'] /\ ~cut'[gen'] /\ Lacks(updates'[gen'], ShutdownUpdate)
    <3> SUFFICES ASSUME main \in {"poll", "update", "shutdown"}
                 PROVE  ~told'[gen] /\ ~closed[gen] /\ ~cut[gen] /\ Lacks(updates'[gen], ShutdownUpdate)
        BY <1>1, <2>1, Zenon
    <3>1. ~told[gen] /\ ~closed[gen] /\ ~cut[gen] /\ Lacks(updates[gen], ShutdownUpdate)
      BY Zenon DEF ChannelInv
    <3>2. CASE gen = g
      BY <2>4, <3>1, <3>2, Zenon
    <3>3. CASE gen # g
      BY <2>2, <2>9, <3>1, <3>3, Zenon
    <3> QED BY <3>2, <3>3
  <2>11. main' = "closing" => Announced(gen)'
    <3>1. main = "closing" => Announced(gen) /\ gen \in Gens
      BY <2>9, Zenon DEF ChannelInv
    <3>2. ASSUME NEW h \in Gens, h = gen, Announced(h)' PROVE Announced(gen)'
      BY <1>1, <3>2, Zenon DEF Announced
    <3>3. \A h \in Gens : Announced(h) => Announced(h)'
      BY <2>4, <2>5, Zenon
    <3> QED BY <2>1, <3>1, <3>2, <3>3, Zenon
  <2> QED BY <1>1, <2>1, <2>6, <2>8, <2>10, <2>11, Zenon DEF ChannelInv
<1> QED BY <1>2, <1>3, Zenon
=============================================================================
