----------------------- MODULE ConsensusEngineProofs ------------------------
(* The safety of ConsensusEngine, for any channel capacity and any number   *)
(* of calls, notifications and connections.                                 *)
EXTENDS ConsensusEngineTypes

(* The calls of the services.                                               *)

\* Of the services that have been made, the one that is open is the present one.
LEMMA ServiceOpen ==
    ASSUME TypeOK, ChannelInv, NEW s \in Gens, ~Fresh(s), ~cut[s] PROVE s = gen
<1>1. s \in Nat /\ gen \in Nat
  BY GensNat
<1>2. ~(s > gen)
  BY Zenon DEF Fresh
<1>3. ~(s < gen)
  BY Zenon DEF ChannelInv, ShutdownIsLast
<1> QED BY <1>1, <1>2, <1>3

\* Correlation ids are numbers.
LEMMA CallsNat == ASSUME TypeOK PROVE nextCall \in Nat \ {0} /\ \A g \in Gens : call[g] \in Nat
BY BoundsAssumption DEF BoundsAssumption, TypeOK, TypeOKImpl, CallIds, NoCall

\* No pass becomes fresh, and no id appears in a pipe or with the validator.
NothingNew ==
    /\ \A s : Fresh(s)' => Fresh(s)
    /\ \A x : Lacks(serviceOut, x) => Lacks(serviceOut', x)
    /\ \A x : Lacks(serviceIn, x) => Lacks(serviceIn', x)
    /\ calls' \subseteq calls

\* A step that does nothing else to the calls.
LEMMA CallFrame ==
    ASSUME CallInv, NothingNew, UNCHANGED <<gen, impl, field, using, call, nextCall, corrIds>>
    PROVE  CallInv'
<1>1. (field # 0 => ~Fresh(field))'
  <2>1. PICK f : f = field
    OBVIOUS
  <2>2. f # 0 => ~Fresh(f)'
    BY <2>1, Zenon DEF CallInv, NothingNew
  <2> QED BY <2>1, <2>2, Zenon DEF Fresh
<1>2. ASSUME NEW g \in Gens PROVE Calling(g)'
  <2>1. PICK u : u = using[g]
    OBVIOUS
  <2>2. Calling(g)
    BY DEF CallInv
  <2>3. Fresh(g)' => impl[g] = "none" /\ corrIds[g] = {}
    BY <2>2, Zenon DEF Calling, NothingNew
  <2>4. u # 0 => ~Fresh(u)'
    BY <2>1, <2>2, Zenon DEF Calling, NothingNew
  <2>5. (using[g] # 0 => ~Fresh(using[g]))'
    BY <2>1, <2>4, Zenon DEF Fresh
  <2> QED BY <2>2, <2>3, <2>5, Zenon DEF Calling
<1>3. Distinct'
  BY Zenon DEF CallInv, Distinct
<1>4. ASSUME NEW g \in Gens PROVE Apart(g)'
  <2>1. Apart(g)
    BY DEF CallInv
  <2>2. call[g] \notin calls => call[g] \notin calls'
    BY DEF NothingNew
  <2> QED BY <2>1, <2>2, Zenon DEF Apart, NothingNew
<1> QED BY <1>1, <1>2, <1>3, <1>4, Zenon DEF CallInv

\* A panic: no implementation runs any more.
LEMMA CallCrash ==
    ASSUME CallInv, Crash, UNCHANGED <<gen, field, corrIds>>,
           \A g \in Gens : using'[g] # 0 => ~Fresh(using'[g])
    PROVE  CallInv'
<1>1. main' = "crashed" /\ \A g \in Gens : impl'[g] = "none"
  BY DEF Crash
<1>2. (field # 0 => ~Fresh(field))'
  BY <1>1, Zenon DEF CallInv, Fresh
<1>3. ASSUME NEW g \in Gens PROVE Calling(g)'
  <2>1. Fresh(g)' => corrIds'[g] = {}
    BY <1>1, Zenon DEF CallInv, Calling, Fresh
  <2>2. (using[g] # 0 => ~Fresh(using[g]))'
    BY <1>1, Zenon DEF Fresh
  <2> QED BY <1>1, <2>1, <2>2 DEF Calling, InCall
<1>4. Distinct' /\ \A g \in Gens : Apart(g)'
  BY <1>1 DEF Distinct, Apart, InCall
<1> QED BY <1>2, <1>3, <1>4, Zenon DEF CallInv

\* A step of one goroutine: its call, if it is in one, is the one it was in or a
\* new one, and whatever is new in a pipe or recorded concerns no other service.
LEMMA CallStep ==
    ASSUME TypeOK, CallInv, NEW g \in Gens,
           \A s : Fresh(s)' => Fresh(s),
           ~Fresh(g)', UNCHANGED <<gen, calls>>,
           nextCall' \in {nextCall, nextCall + 1},
           \A h \in Gens \ {g} : impl'[h] = impl[h] /\ using'[h] = using[h] /\ call'[h] = call[h],
           field' # 0 => ~Fresh(field'),
           using'[g] # 0 => ~Fresh(using'[g]),
           impl'[g] \in InCall =>
              /\ using'[g] # 0 /\ g <= using'[g] /\ call'[g] # NoCall /\ call'[g] < nextCall'
              /\ (impl[g] \in InCall /\ call'[g] = call[g]) \/ call'[g] = nextCall
              /\ using'[g] # gen =>
                    impl[g] \in InCall /\ using'[g] = using[g] /\ call'[g] = call[g],
           \A h \in Gens : Fresh(h) => corrIds'[h] = {},
           \A h \in Gens : impl[h] \in InCall /\ impl'[h] \in InCall /\ using[h] # gen =>
              /\ Lacks(serviceOut', call[h]) /\ Lacks(serviceIn', call[h])
              /\ call[h] \notin corrIds'[gen]
    PROVE  CallInv'
<1>1. (field # 0 => ~Fresh(field))'
  <2>1. PICK f : f = field'
    OBVIOUS
  <2>2. f # 0 => ~Fresh(f)'
    BY <2>1, Zenon
  <2> QED BY <2>1, <2>2, Zenon DEF Fresh
<1>2. ASSUME NEW h \in Gens PROVE Calling(h)'
  <2>1. PICK u : u = using'[h]
    OBVIOUS
  <2>2. Calling(h)
    BY DEF CallInv
  <2>3. u # 0 => ~Fresh(u)
    BY <2>1, <2>2, Zenon DEF Calling
  <2>4. (using[h] # 0 => ~Fresh(using[h]))'
    BY <2>1, <2>3, Zenon DEF Fresh
  <2>5. Fresh(h)' => impl'[h] = "none" /\ corrIds'[h] = {}
    BY <2>2, Zenon DEF Calling
  <2>6. impl'[h] \in InCall =>
           using'[h] # 0 /\ h <= using'[h] /\ call'[h] # NoCall /\ call'[h] < nextCall'
    <3>1. CASE h = g
      BY <3>1, Zenon
    <3>2. CASE h # g
      <4>1. call[h] < nextCall => call[h] < nextCall'
        BY CallsNat
      <4> QED BY <2>2, <3>2, <4>1, Zenon DEF Calling
    <3> QED BY <3>1, <3>2
  <2> QED BY <2>4, <2>5, <2>6, Zenon DEF Calling
<1>3. Distinct'
  <2>1. ASSUME NEW h \in Gens \ {g}, impl'[g] \in InCall, impl'[h] \in InCall
        PROVE  call'[g] # call'[h]
    <3>1. impl[h] \in InCall /\ call'[h] = call[h] /\ call[h] < nextCall
      BY <2>1, Zenon DEF CallInv, Calling
    <3>2. call[h] # nextCall
      BY <3>1, CallsNat
    <3>3. impl[g] \in InCall => call[h] # call[g]
      BY <3>1, Zenon DEF CallInv, Distinct
    <3> QED BY <2>1, <3>1, <3>2, <3>3, Zenon
  <2>2. ASSUME NEW h \in Gens \ {g}, NEW k \in Gens \ {g},
               impl'[h] \in InCall, impl'[k] \in InCall, call'[h] = call'[k]
        PROVE  h = k
    BY <2>2, Zenon DEF CallInv, Distinct
  <2> QED BY <2>1, <2>2, Zenon DEF Distinct
<1>4. ASSUME NEW h \in Gens PROVE Apart(h)'
  <2> SUFFICES ASSUME impl'[h] \in InCall, using'[h] # gen PROVE Apart(h)'
      BY Zenon DEF Apart
  <2>1. impl[h] \in InCall /\ using[h] # gen /\ call'[h] = call[h]
    BY Zenon
  <2>2. call[h] \notin calls
    BY <2>1, Zenon DEF CallInv, Apart
  <2> QED BY <2>1, <2>2, Zenon DEF Apart
<1> QED BY <1>1, <1>2, <1>3, <1>4, Zenon DEF CallInv

\* Every step of the engine goroutine keeps the calls apart.
LEMMA EngineCalls == ASSUME TypeOK, CallInv, Engine PROVE CallInv'
<1>0. gen \in Nat /\ Gens \subseteq Nat
  BY GensNat
<1>1. CASE Start
  <2>1. /\ main = "start" /\ main' = "register" /\ gen' = gen + 1 /\ gen' \in Gens /\ calls' = {}
        /\ serviceOut' = <<>> /\ serviceIn' = <<>>
        /\ UNCHANGED <<impl, field, using, call, nextCall, corrIds>>
    BY <1>1 DEF Start, callVars, storeVars
  <2>2. \A s : s \in Gens \cup {field} \cup {using[g] : g \in Gens} /\ Fresh(s)' => Fresh(s)
    <3>1. ASSUME NEW s \in Nat, Fresh(s)' PROVE Fresh(s)
      BY <1>0, <2>1, <3>1 DEF Fresh
    <3>2. Gens \cup {field} \cup {using[g] : g \in Gens} \subseteq Nat
      <4>1. field \in {0} \cup Gens /\ \A g \in Gens : using[g] \in {0} \cup Gens
        BY DEF TypeOK, TypeOKImpl
      <4>2. {0} \cup Gens \subseteq Nat
        BY <1>0
      <4> QED BY <4>1, <4>2
    <3> QED BY <3>1, <3>2
  <2>3. (field # 0 => ~Fresh(field))'
    <3>1. PICK f : f = field
      OBVIOUS
    <3>2. f # 0 => ~Fresh(f)'
      BY <2>2, <3>1, Zenon DEF CallInv
    <3> QED BY <2>1, <3>1, <3>2, Zenon DEF Fresh
  <2>4. ASSUME NEW g \in Gens PROVE Calling(g)'
    <3>1. PICK u : u = using[g]
      OBVIOUS
    <3>2. Calling(g) /\ u \in {using[h] : h \in Gens}
      BY <3>1, Zenon DEF CallInv
    <3>3. Fresh(g)' => impl[g] = "none" /\ corrIds[g] = {}
      BY <2>2, <3>2, Zenon DEF Calling
    <3>4. u # 0 => ~Fresh(u)'
      <4>1. u # 0 => ~Fresh(u)
        BY <3>1, <3>2, Zenon DEF Calling
      <4> QED BY <2>2, <3>2, <4>1, Zenon
    <3>5. (using[g] # 0 => ~Fresh(using[g]))'
      BY <2>1, <3>1, <3>4, Zenon DEF Fresh
    <3> QED BY <2>1, <3>2, <3>3, <3>5, Zenon DEF Calling
  <2>5. Distinct'
    BY <2>1, Zenon DEF CallInv, Distinct
  <2>6. corrIds'[gen'] = {}
    <3>1. Fresh(gen + 1)
      BY <1>0 DEF Fresh
    <3> QED BY <2>1, <3>1, Zenon DEF CallInv, Calling
  <2>7. ASSUME NEW g \in Gens PROVE Apart(g)'
    BY <2>1, <2>6 DEF Apart, Lacks
  <2> QED BY <2>3, <2>4, <2>5, <2>7, Zenon DEF CallInv
<1>2. CASE Register \/ WaitUntilActive
  <2>1. UNCHANGED <<gen, field, using, call, nextCall, corrIds, serviceOut, serviceIn, calls>>
        /\ main \in {"register", "wait"}
    BY <1>2 DEF Register, WaitUntilActive, callVars, storeVars, serviceVars
  <2>2. Activate \/ (UNCHANGED impl /\ main' \in {main, "wait", "failed"})
    BY <1>2 DEF Register, RegisterOK, RegisterNotReady, RegisterFails, WaitUntilActive, Fail
  <2>3. CASE Activate
    <3>1. gen \in Gens
      BY <2>1 DEF TypeOK, TypeOKEngine
    <3>2. main' = "poll" /\ impl'[gen] = "begin" /\ \A h \in Gens \ {gen} : impl'[h] = impl[h]
      BY <2>3, <3>1 DEF Activate, TypeOK, TypeOKImpl
    <3>3. (\A s : Fresh(s)' => Fresh(s)) /\ ~Fresh(gen)'
      BY <1>0, <2>1, <3>2 DEF Fresh
    <3>4. impl'[gen] \notin InCall
      BY <3>2 DEF InCall
    <3>5. \A h \in Gens : impl[h] \in InCall /\ using[h] # gen =>
             /\ Lacks(serviceOut, call[h]) /\ Lacks(serviceIn, call[h])
             /\ call[h] \notin corrIds[gen]
      BY Zenon DEF CallInv, Apart
    <3>6. /\ field # 0 => ~Fresh(field)
          /\ using[gen] # 0 => ~Fresh(using[gen])
          /\ \A h \in Gens : Fresh(h) => corrIds[h] = {}
      BY <3>1, Zenon DEF CallInv, Calling
    <3> QED BY <2>1, <3>1, <3>2, <3>3, <3>4, <3>5, <3>6, CallStep, ZenonT(30)
  <2>4. CASE UNCHANGED impl /\ main' \in {main, "wait", "failed"}
    <3>1. \A s : Fresh(s)' => Fresh(s)
      BY <2>1, <2>4 DEF Fresh
    <3> QED BY <2>1, <2>4, <3>1, CallFrame DEF NothingNew
  <2> QED BY <2>2, <2>3, <2>4
<1>3. CASE StartupShutdown \/ Poll \/ ReceiveMonitor \/ HandleUpdate \/ ReceiveShutdown
           \/ PerformShutdown \/ CloseChannel \/ ShutdownService
  <2>1. UNCHANGED <<gen, implVars, serviceVars, calls>>
    BY <1>3, Zenon DEF StartupShutdown, Poll, ReceiveMonitor, HandleUpdate, ReceiveShutdown,
                       PerformShutdown, CloseChannel, ShutdownService, validatorVars
  <2>2. main' = main \/ main' \notin {"register", "wait"}
    BY <1>3 DEF StartupShutdown, Poll, ReceiveMonitor, HandleUpdate, ReceiveShutdown,
                PerformShutdown, CloseChannel, ShutdownService, Fail
  <2>3. \A s : Fresh(s)' => Fresh(s)
    BY <2>1, <2>2, Zenon DEF Fresh
  <2>4. NothingNew
    BY <2>1, <2>3 DEF NothingNew, serviceVars
  <2> QED BY <2>1, <2>4, CallFrame DEF implVars, callVars, storeVars
<1>4. CASE ReceiveValidator
  <2>1. main = "poll" /\ gen \in Gens
        /\ UNCHANGED <<gen, field, using, call, nextCall, corrIds, serviceOut, calls>>
    BY <1>4, Zenon DEF ReceiveValidator, Turn, TypeOK, TypeOKEngine, callVars, storeVars,
                       validatorVars
  <2>2. \/ main' \in {"poll", "update"} /\ UNCHANGED <<impl, serviceIn>>
        \/ Crash
        \/ /\ UNCHANGED <<main, impl>> /\ Head(toEngine).id \in corrIds[gen]
           /\ serviceIn' = Append(serviceIn, Head(toEngine).id)
    BY <1>4, <2>1 DEF ReceiveValidator, ReceiveNotification, ReceivePing, ReceiveResponse
  <2>3. CASE main' \in {"poll", "update"} /\ UNCHANGED <<impl, serviceIn>>
    <3>1. \A s : Fresh(s)' => Fresh(s)
      BY <2>1, <2>3 DEF Fresh
    <3> QED BY <2>1, <2>3, <3>1, CallFrame DEF NothingNew
  <2>4. CASE Crash
    <3>1. \A g \in Gens : using'[g] # 0 => ~Fresh(using'[g])
      BY <2>1, Zenon DEF CallInv, Calling
    <3> QED BY <2>1, <2>4, <3>1, CallCrash
  <2>5. ASSUME UNCHANGED <<main, impl>>, NEW c \in corrIds[gen], serviceIn' = Append(serviceIn, c)
        PROVE  CallInv'
    <3>1. (field # 0 => ~Fresh(field))'
      BY <2>1, <2>5, Zenon DEF CallInv, Fresh
    <3>2. \A g \in Gens : Calling(g)'
      BY <2>1, <2>5, Zenon DEF CallInv, Calling, Fresh
    <3>3. Distinct'
      BY <2>1, <2>5, Zenon DEF CallInv, Distinct
    <3>4. ASSUME NEW g \in Gens PROVE Apart(g)'
      <4> SUFFICES ASSUME impl[g] \in InCall, using[g] # gen PROVE Apart(g)'
          BY <2>1, <2>5, Zenon DEF Apart
      <4>1. /\ Lacks(serviceOut, call[g]) /\ Lacks(serviceIn, call[g])
            /\ call[g] \notin calls /\ call[g] \notin corrIds[gen]
        BY Zenon DEF CallInv, Apart
      <4>2. c # call[g] /\ serviceIn \in Seq(CallIds)
        BY <4>1, ZenonT(30) DEF TypeOK, TypeOKImpl
      <4>3. Lacks(Append(serviceIn, c), call[g])
        BY <4>1, <4>2, LacksAppend
      <4> QED BY <2>1, <2>5, <4>1, <4>3, Zenon DEF Apart
    <3> QED BY <3>1, <3>2, <3>3, <3>4, Zenon DEF CallInv
  <2> QED BY <2>2, <2>3, <2>4, <2>5
<1>5. CASE ReceiveService
  <2>1. /\ main = "poll" /\ serviceOut # <<>> /\ serviceOut' = Tail(serviceOut)
        /\ calls' \subseteq calls \cup {Head(serviceOut)}
        /\ UNCHANGED <<main, gen, impl, field, using, call, nextCall, corrIds, serviceIn>>
    BY <1>5 DEF ReceiveService, Turn, implVars, callVars, storeVars
  <2>2. (field # 0 => ~Fresh(field))'
    BY <2>1, Zenon DEF CallInv, Fresh
  <2>3. \A g \in Gens : Calling(g)'
    BY <2>1, Zenon DEF CallInv, Calling, Fresh
  <2>4. Distinct'
    BY <2>1, Zenon DEF CallInv, Distinct
  <2>5. ASSUME NEW g \in Gens PROVE Apart(g)'
    <3> SUFFICES ASSUME impl[g] \in InCall, using[g] # gen PROVE Apart(g)'
        BY <2>1, Zenon DEF Apart
    <3>1. /\ Lacks(serviceOut, call[g]) /\ Lacks(serviceIn, call[g])
          /\ call[g] \notin calls /\ call[g] \notin corrIds[gen]
      BY Zenon DEF CallInv, Apart
    <3>2. serviceOut \in Seq(CallIds)
      BY DEF TypeOK, TypeOKImpl
    <3>3. Lacks(Tail(serviceOut), call[g]) /\ Head(serviceOut) # call[g]
      BY <2>1, <3>1, <3>2, LacksTail
    <3>4. call[g] \notin calls'
      BY <2>1, <3>1, <3>3
    <3> QED BY <2>1, <3>1, <3>3, <3>4, Zenon DEF Apart
  <2> QED BY <2>2, <2>3, <2>4, <2>5, Zenon DEF CallInv
<1>6. CASE CloseSockets
  <2>1. /\ main' \in {"start", "stopped"} /\ serviceOut' = <<>> /\ serviceIn' = <<>>
        /\ UNCHANGED <<gen, implVars, calls>>
    BY <1>6 DEF CloseSockets, validatorVars
  <2>2. \A s : Fresh(s)' => Fresh(s)
    BY <2>1 DEF Fresh
  <2>3. \A x : Lacks(serviceOut', x) /\ Lacks(serviceIn', x)
    BY <2>1 DEF Lacks
  <2>4. NothingNew
    BY <2>1, <2>2, <2>3 DEF NothingNew
  <2> QED BY <2>1, <2>4, CallFrame DEF implVars, callVars, storeVars
<1> QED BY <1>1, <1>2, <1>3, <1>4, <1>5, <1>6, Zenon DEF Engine
-----------------------------------------------------------------------------
\* Every step of an implementation keeps the calls apart.
LEMMA ImplCalls ==
    ASSUME TypeOK, ChannelInv, CallInv, NEW g \in Gens, Impl(g) PROVE CallInv'
<1>1. impl[g] # "none" /\ UNCHANGED <<gen, cut, calls>>
  BY ImplSteps, Zenon DEF rest, validatorVars
<1>2. ~Fresh(g)
  BY <1>1, Zenon DEF CallInv, Calling
<1>3. /\ field # 0 => ~Fresh(field)
      /\ \A h \in Gens : using[h] # 0 => ~Fresh(using[h])
      /\ \A h \in Gens : Fresh(h) => corrIds[h] = {}
  BY Zenon DEF CallInv, Calling
<1>4. \A h \in Gens : impl[h] \in InCall /\ using[h] # gen =>
         /\ Lacks(serviceOut, call[h]) /\ Lacks(serviceIn, call[h])
         /\ call[h] \notin corrIds[gen]
  BY Zenon DEF CallInv, Apart
<1>5. ASSUME UNCHANGED main PROVE (\A s : Fresh(s)' => Fresh(s)) /\ ~Fresh(g)'
  BY <1>1, <1>2, <1>5, Zenon DEF Fresh
<1>6. ASSUME NEW p, p \notin InCall, impl' = [impl EXCEPT ![g] = p], UNCHANGED <<main, call>>,
             nextCall' \in {nextCall, nextCall + 1},
             NEW u, using' = [using EXCEPT ![g] = u], u # 0 => ~Fresh(u),
             field' # 0 => ~Fresh(field'),
             UNCHANGED <<corrIds, serviceOut, serviceIn>>
      PROVE  CallInv'
  <2>1. /\ impl'[g] = p /\ using'[g] = u
        /\ \A h \in Gens \ {g} : impl'[h] = impl[h] /\ using'[h] = using[h] /\ call'[h] = call[h]
    BY <1>6, Zenon DEF TypeOK, TypeOKImpl
  <2>2. impl'[g] \notin InCall /\ (using'[g] # 0 => ~Fresh(using'[g]))
    BY <1>6, <2>1, Zenon
  <2>3. (\A s : Fresh(s)' => Fresh(s)) /\ ~Fresh(g)'
    BY <1>5, <1>6, Zenon
  <2>4. /\ \A h \in Gens : Fresh(h) => corrIds'[h] = {}
        /\ \A h \in Gens : impl[h] \in InCall /\ impl'[h] \in InCall /\ using[h] # gen =>
              /\ Lacks(serviceOut', call[h]) /\ Lacks(serviceIn', call[h])
              /\ call[h] \notin corrIds'[gen]
    BY <1>3, <1>4, <1>6, Zenon
  <2> QED BY <1>1, <1>6, <2>1, <2>2, <2>3, <2>4, CallStep, Zenon
<1>7. using = [using EXCEPT ![g] = using[g]]
  BY DEF TypeOK, TypeOKImpl
<1>8. CASE ImplBegin(g)
  <2>1. /\ impl' = [impl EXCEPT ![g] = "handle"] /\ field' = g
        /\ UNCHANGED <<main, using, call, nextCall, corrIds, serviceOut, serviceIn>>
    BY <1>8 DEF ImplBegin, At, callVars, storeVars, serviceVars
  <2>2. "handle" \notin InCall
    BY DEF InCall
  <2>3. (field' # 0 => ~Fresh(field')) /\ (using[g] # 0 => ~Fresh(using[g]))
    BY <1>2, <1>3, <2>1, Zenon
  <2>4. nextCall' \in {nextCall, nextCall + 1} /\ using' = [using EXCEPT ![g] = using[g]]
    BY <1>7, <2>1, Zenon
  <2> QED BY <1>6, <2>1, <2>2, <2>3, <2>4, Zenon
<1>9. CASE ImplTake(g)
  <2>1. PICK p \in {"select", "handle", "returned"} : impl' = [impl EXCEPT ![g] = p]
    BY <1>9, Zenon DEF ImplTake, At, AfterUpdate
  <2>2. UNCHANGED <<main, field, using, call, nextCall, corrIds, serviceOut, serviceIn>>
    BY <1>9 DEF ImplTake, At, callVars, storeVars, serviceVars
  <2>3. p \notin InCall
    BY DEF InCall
  <2>4. nextCall' \in {nextCall, nextCall + 1} /\ using' = [using EXCEPT ![g] = using[g]]
        /\ (field' # 0 => ~Fresh(field')) /\ (using[g] # 0 => ~Fresh(using[g]))
    BY <1>3, <1>7, <2>2, Zenon
  <2> QED BY <1>6, <2>1, <2>2, <2>3, <2>4, Zenon
<1>10. CASE ImplTurn(g)
  <2>1. PICK p \in {"select", "handle"} : impl' = [impl EXCEPT ![g] = p]
    BY <1>10 DEF ImplTurn, At
  <2>2. using' = [using EXCEPT ![g] = 0]
        /\ UNCHANGED <<main, field, call, nextCall, corrIds, serviceOut, serviceIn>>
    BY <1>10 DEF ImplTurn, At, storeVars, serviceVars
  <2>3. p \notin InCall
    BY DEF InCall
  <2>4. nextCall' \in {nextCall, nextCall + 1} /\ (field' # 0 => ~Fresh(field'))
    BY <1>3, <2>2, Zenon
  <2> QED BY <1>6, <2>1, <2>2, <2>3, <2>4, Zenon
<1>11. CASE RpcSend(g)
  <2>1. nextCall' = nextCall + 1 /\ UNCHANGED <<field, corrIds, serviceIn>>
    BY <1>11 DEF RpcSend, storeVars
  <2>2. PICK s \in Services(g) :
           /\ using' = [using EXCEPT ![g] = s]
           /\ \/ /\ ~cut[s]
                 /\ At(g, "handle", "sent")
                 /\ call' = [call EXCEPT ![g] = nextCall]
                 /\ serviceOut' = Append(serviceOut, nextCall)
              \/ /\ cut[s]
                 /\ CallFails(g, "handle")
                 /\ UNCHANGED <<call, serviceOut>>
    BY <1>11, Zenon DEF RpcSend
  <2>3. s \in Gens /\ s # 0 /\ ~Fresh(s)
    BY <1>3 DEF Services, TypeOK, TypeOKImpl
  <2>4. using'[g] = s /\ \A h \in Gens \ {g} : using'[h] = using[h]
    BY <2>2, Zenon DEF TypeOK, TypeOKImpl
  <2>5. CASE ~cut[s]
    <3>1. /\ impl' = [impl EXCEPT ![g] = "sent"] /\ UNCHANGED main
          /\ call' = [call EXCEPT ![g] = nextCall] /\ serviceOut' = Append(serviceOut, nextCall)
      BY <2>2, <2>5, Zenon DEF At
    <3>2. /\ impl'[g] = "sent" /\ call'[g] = nextCall
          /\ \A h \in Gens \ {g} : impl'[h] = impl[h] /\ call'[h] = call[h]
      BY <3>1, Zenon DEF TypeOK, TypeOKImpl
    <3>3. s = gen
      BY <2>3, <2>5, ServiceOpen
    <3>4. g <= s
      <4>1. ~(g > gen)
        BY <1>2, Zenon DEF Fresh
      <4> QED BY <3>3, <4>1, GensNat
    <3>5. call'[g] # NoCall /\ call'[g] < nextCall'
      BY <2>1, <3>2, CallsNat DEF NoCall
    <3>6. ASSUME NEW h \in Gens, impl[h] \in InCall, using[h] # gen
          PROVE  Lacks(serviceOut', call[h])
      <4>1. serviceOut \in Seq(CallIds)
        BY DEF TypeOK, TypeOKImpl
      <4>2. call[h] < nextCall
        BY <3>6, Zenon DEF CallInv, Calling
      <4>3. nextCall # call[h]
        BY <4>2, CallsNat
      <4> QED BY <1>4, <3>1, <3>6, <4>1, <4>3, LacksAppend, ZenonT(30)
    <3>7. (\A t : Fresh(t)' => Fresh(t)) /\ ~Fresh(g)'
      BY <1>5, <3>1, Zenon
    <3>8. /\ \A h \in Gens : Fresh(h) => corrIds'[h] = {}
          /\ \A h \in Gens : impl[h] \in InCall /\ impl'[h] \in InCall /\ using[h] # gen =>
                /\ Lacks(serviceOut', call[h]) /\ Lacks(serviceIn', call[h])
                /\ call[h] \notin corrIds'[gen]
      BY <1>3, <1>4, <2>1, <3>6, Zenon
    <3>9. using'[g] # 0 /\ ~Fresh(using'[g]) /\ using'[g] = gen /\ g <= using'[g]
          /\ nextCall' \in {nextCall, nextCall + 1}
      BY <2>1, <2>3, <2>4, <3>3, <3>4, Zenon
    <3>10. field' # 0 => ~Fresh(field')
      BY <1>3, <2>1, Zenon
    <3> QED BY <1>1, <2>4, <3>2, <3>5, <3>7, <3>8, <3>9, <3>10, CallStep, Zenon
  <2>6. CASE cut[s]
    <3>1. CallFails(g, "handle") /\ UNCHANGED <<call, serviceOut>>
      BY <2>2, <2>6, ZenonT(30)
    <3>2. CASE Crash
      <4>1. \A h \in Gens : using'[h] # 0 => ~Fresh(using'[h])
        BY <1>3, <2>3, <2>4, Zenon
      <4> QED BY <1>1, <2>1, <3>2, <4>1, CallCrash
    <3>3. CASE At(g, "handle", "handle")
      <4>1. "handle" \notin InCall
        BY DEF InCall
      <4>2. impl' = [impl EXCEPT ![g] = "handle"] /\ UNCHANGED main
        BY <3>3 DEF At
      <4>3. nextCall' \in {nextCall, nextCall + 1} /\ (field' # 0 => ~Fresh(field'))
        BY <1>3, <2>1, Zenon
      <4> QED BY <1>6, <2>1, <2>2, <2>3, <3>1, <4>1, <4>2, <4>3, Zenon
    <3> QED BY <3>1, <3>2, <3>3, Zenon DEF CallFails
  <2> QED BY <2>5, <2>6
<1>12. ASSUME impl[g] \in InCall, NEW p \in InCall, impl' = [impl EXCEPT ![g] = p],
              UNCHANGED <<main, field, using, call, nextCall>>,
              \A h \in Gens : Fresh(h) => corrIds'[h] = {},
              \A h \in Gens : impl[h] \in InCall /\ impl'[h] \in InCall /\ using[h] # gen =>
                 /\ Lacks(serviceOut', call[h]) /\ Lacks(serviceIn', call[h])
                 /\ call[h] \notin corrIds'[gen]
       PROVE  CallInv'
  <2>1. impl'[g] = p /\ \A h \in Gens \ {g} : impl'[h] = impl[h]
    BY <1>12, Zenon DEF TypeOK, TypeOKImpl
  <2>2. (\A t : Fresh(t)' => Fresh(t)) /\ ~Fresh(g)'
    BY <1>5, <1>12, Zenon
  <2>3. using[g] # 0 /\ g <= using[g] /\ call[g] # NoCall /\ call[g] < nextCall
    BY <1>12, Zenon DEF CallInv, Calling
  <2> QED BY <1>1, <1>3, <1>12, <2>1, <2>2, <2>3, CallStep, Zenon
<1>13. CASE RpcRecord(g)
  <2>1. /\ impl[g] \in InCall /\ impl' = [impl EXCEPT ![g] = "look"] /\ "look" \in InCall
        /\ corrIds' = [corrIds EXCEPT ![using[g]] = @ \cup {call[g]}]
        /\ UNCHANGED <<main, field, using, call, nextCall, serviceOut, serviceIn>>
    BY <1>13, Zenon DEF RpcRecord, At, callVars, serviceVars, InCall
  <2>2. using[g] \in Gens /\ ~Fresh(using[g])
    BY <1>3, <2>1, CallTypes, ZenonT(30) DEF CallInv, Calling
  <2>3. /\ corrIds'[using[g]] = corrIds[using[g]] \cup {call[g]}
        /\ \A h \in Gens \ {using[g]} : corrIds'[h] = corrIds[h]
    BY <2>1, <2>2 DEF TypeOK, TypeOKImpl
  <2>4. \A h \in Gens : Fresh(h) => corrIds'[h] = {}
    BY <1>3, <2>2, <2>3, Zenon
  <2>5. ASSUME NEW h \in Gens, impl[h] \in InCall, using[h] # gen
        PROVE  call[h] \notin corrIds'[gen]
    <3>1. call[h] \notin corrIds[gen]
      BY <1>4, <2>5, Zenon
    <3>2. CASE using[g] = gen
      <4>1. call[h] # call[g]
        BY <2>1, <2>5, <3>2, Zenon DEF CallInv, Distinct
      <4> QED BY <2>3, <3>1, <3>2, <4>1
    <3>3. CASE using[g] # gen
      <4>1. corrIds'[gen] = corrIds[gen]
        BY <2>1, <3>3 DEF TypeOK, TypeOKImpl
      <4> QED BY <3>1, <4>1, Zenon
    <3> QED BY <3>2, <3>3
  <2>6. \A h \in Gens : impl[h] \in InCall /\ impl'[h] \in InCall /\ using[h] # gen =>
           /\ Lacks(serviceOut', call[h]) /\ Lacks(serviceIn', call[h])
           /\ call[h] \notin corrIds'[gen]
    BY <1>4, <2>1, <2>5, Zenon
  <2> QED BY <1>12, <2>1, <2>4, <2>6, Zenon
<1>14. CASE RpcLook(g)
  <2>1. PICK p \in {"got", "recv"} : impl[g] = "look" /\ impl' = [impl EXCEPT ![g] = p]
    BY <1>14, Zenon DEF RpcLook, At
  <2>2. UNCHANGED <<main, field, using, call, nextCall, corrIds, serviceOut, serviceIn>>
    BY <1>14 DEF RpcLook, At, callVars, storeVars, serviceVars
  <2>3. impl[g] \in InCall /\ p \in InCall
    BY <2>1 DEF InCall
  <2>4. /\ \A h \in Gens : Fresh(h) => corrIds'[h] = {}
        /\ \A h \in Gens : impl[h] \in InCall /\ impl'[h] \in InCall /\ using[h] # gen =>
              /\ Lacks(serviceOut', call[h]) /\ Lacks(serviceIn', call[h])
              /\ call[h] \notin corrIds'[gen]
    BY <1>3, <1>4, <2>2, Zenon
  <2> QED BY <1>12, <2>1, <2>2, <2>3, <2>4, Zenon
<1>15. CASE RpcReceive(g)
  <2>1. /\ impl[g] = "recv" /\ serviceIn # <<>> /\ serviceIn' = Tail(serviceIn)
        /\ UNCHANGED <<main, field, using, call, nextCall, corrIds, serviceOut>>
        /\ (impl' = [impl EXCEPT ![g] = "got"] \/ UNCHANGED impl)
    BY <1>15, Zenon DEF RpcReceive, At, callVars
  <2>2. PICK p \in {"got", "recv"} : impl' = [impl EXCEPT ![g] = p]
    <3>1. impl = [impl EXCEPT ![g] = impl[g]]
      BY DEF TypeOK, TypeOKImpl
    <3> QED BY <2>1, <3>1, Zenon
  <2>3. impl[g] \in InCall /\ p \in InCall
    BY <2>1 DEF InCall
  <2>4. ASSUME NEW h \in Gens, impl[h] \in InCall, using[h] # gen PROVE Lacks(serviceIn', call[h])
    <3>1. Lacks(serviceIn, call[h]) /\ serviceIn \in Seq(CallIds)
      BY <1>4, <2>4, Zenon DEF TypeOK, TypeOKImpl
    <3>2. Lacks(Tail(serviceIn), call[h])
      BY <2>1, <3>1, LacksTail
    <3> QED BY <2>1, <3>2, Zenon
  <2>5. /\ \A h \in Gens : Fresh(h) => corrIds'[h] = {}
        /\ \A h \in Gens : impl[h] \in InCall /\ impl'[h] \in InCall /\ using[h] # gen =>
              /\ Lacks(serviceOut', call[h]) /\ Lacks(serviceIn', call[h])
              /\ call[h] \notin corrIds'[gen]
    BY <1>3, <1>4, <2>1, <2>4, Zenon
  <2> QED BY <1>12, <2>1, <2>2, <2>3, <2>5, Zenon
<1>16. CASE RpcClosed(g) \/ RpcRace(g)
  <2>1. UNCHANGED <<field, using, call, nextCall, corrIds, serviceOut, serviceIn>>
    BY <1>16 DEF RpcClosed, RpcRace, callVars, storeVars, serviceVars
  <2>2. CASE Crash
    <3>1. \A h \in Gens : using'[h] # 0 => ~Fresh(using'[h])
      BY <1>3, <2>1, Zenon
    <3> QED BY <1>1, <2>1, <2>2, <3>1, CallCrash
  <2>3. ASSUME NEW p \in {"handle", "stuck"}, At(g, "recv", p) PROVE CallInv'
    <3>1. p \notin InCall
      BY DEF InCall
    <3>2. impl' = [impl EXCEPT ![g] = p] /\ UNCHANGED main
      BY <2>3 DEF At
    <3>3. nextCall' \in {nextCall, nextCall + 1} /\ using' = [using EXCEPT ![g] = using[g]]
          /\ (field' # 0 => ~Fresh(field')) /\ (using[g] # 0 => ~Fresh(using[g]))
      BY <1>3, <1>7, <2>1, Zenon
    <3> QED BY <1>6, <2>1, <3>1, <3>2, <3>3, Zenon
  <2> QED BY <1>16, <2>2, <2>3, ZenonT(30) DEF RpcClosed, RpcRace, CallFails
<1>17. CASE RpcForget(g)
  <2>1. /\ impl[g] \in InCall /\ impl' = [impl EXCEPT ![g] = "handle"] /\ "handle" \notin InCall
        /\ corrIds' = [corrIds EXCEPT ![using[g]] = @ \ {call[g]}]
        /\ call' = [call EXCEPT ![g] = NoCall]
        /\ UNCHANGED <<main, field, using, nextCall, serviceOut, serviceIn>>
    BY <1>17 DEF RpcForget, At, serviceVars, InCall
  <2>2. impl'[g] = "handle" /\ \A h \in Gens \ {g} : impl'[h] = impl[h] /\ call'[h] = call[h]
    BY <2>1, Zenon DEF TypeOK, TypeOKImpl
  <2>3. \A h : corrIds'[h] \subseteq corrIds[h] \/ h \notin Gens
    BY <2>1, Zenon DEF TypeOK, TypeOKImpl
  <2>4. gen \in Gens
    BY <1>2, GensNat, BoundsAssumption, SMTT(30)
    DEF BoundsAssumption, Fresh, Gens, TypeOK, TypeOKEngine
  <2>5. /\ \A h \in Gens : Fresh(h) => corrIds'[h] = {}
        /\ \A h \in Gens : impl[h] \in InCall /\ using[h] # gen => call[h] \notin corrIds'[gen]
    BY <1>3, <1>4, <2>3, <2>4
  <2>6. \A h \in Gens : impl[h] \in InCall /\ impl'[h] \in InCall /\ using[h] # gen =>
           /\ Lacks(serviceOut', call[h]) /\ Lacks(serviceIn', call[h])
           /\ call[h] \notin corrIds'[gen]
    BY <1>4, <2>1, <2>5, Zenon
  <2>7. (\A t : Fresh(t)' => Fresh(t)) /\ ~Fresh(g)' /\ impl'[g] \notin InCall
    BY <1>5, <2>1, <2>2, Zenon
  <2>8. (field' # 0 => ~Fresh(field')) /\ (using'[g] # 0 => ~Fresh(using'[g]))
        /\ nextCall' \in {nextCall, nextCall + 1}
    BY <1>3, <2>1, Zenon
  <2> QED BY <1>1, <2>1, <2>2, <2>5, <2>6, <2>7, <2>8, CallStep, Zenon
<1> QED BY <1>8, <1>9, <1>10, <1>11, <1>13, <1>14, <1>15, <1>16, <1>17, Zenon DEF Impl

\* Every step of the environment keeps the channels in order and the calls apart.
LEMMA EnvironmentPasses ==
    ASSUME ChannelInv, CallInv, Environment PROVE ChannelInv' /\ CallInv'
<1>1. UNCHANGED programVars
  BY Zenon DEF Environment, ValidatorRegisters, ValidatorActivates, ValidatorNotifies,
         ValidatorPings, ValidatorAnswers, ValidatorRepeats, Disconnect, Shutdown
<1>2. calls' \subseteq calls
  BY DEF Environment, ValidatorRegisters, ValidatorActivates, ValidatorNotifies,
         ValidatorPings, ValidatorAnswers, ValidatorRepeats, Disconnect, Shutdown, validatorVars
<1>3. UNCHANGED <<engineVars, implVars, chanVars, serviceVars>>
  BY <1>1 DEF programVars
<1>4. MovesOn /\ NothingNew
  BY <1>2, <1>3 DEF MovesOn, NothingNew, Fresh, engineVars, serviceVars
<1> QED BY <1>3, <1>4, ChannelFrame, CallFrame
        DEF engineVars, implVars, callVars, takenVars, storeVars, chanVars
-----------------------------------------------------------------------------
(* The theorems.                                                            *)

EngineInv == TypeOK /\ ChannelInv /\ CallInv /\ RegisterInv

\* The initial state satisfies the invariant.
LEMMA InitInv == Init => EngineInv
<1> SUFFICES ASSUME Init PROVE EngineInv
    OBVIOUS
<1>1. TypeOK
  <2>1. TypeOKEngine
    <3>1. /\ main = "start" /\ cause = "none" /\ polled = {} /\ pending = 0 /\ gen = 0
          /\ monitored = FALSE /\ shutdowns = <<>> /\ asked = FALSE
      BY Zenon DEF Init
    <3>2. shutdowns \in Seq({"restart", "shutdown"})
      BY <3>1, EmptySeq
    <3>3. gen \in 0..(MaxDisconnects + 1) /\ pending \in Nat
      BY <3>1, BoundsAssumption DEF BoundsAssumption
    <3> QED BY <3>1, <3>2, <3>3, Zenon DEF TypeOKEngine
  <2>2. TypeOKImpl
    <3>1. nextCall \in 1..(MaxCalls + 1)
      BY BoundsAssumption DEF BoundsAssumption, Init
    <3>2. /\ updates \in [Gens -> Seq(Updates)]
          /\ \A g \in Gens : Len(updates[g]) <= ChanSize
      BY BoundsAssumption, EmptySeq DEF BoundsAssumption, Init
    <3>3. serviceOut \in Seq(CallIds) /\ serviceIn \in Seq(CallIds)
      BY EmptySeq, Zenon DEF Init
    <3>4. impl \in [Gens -> ImplPlaces]
      BY DEF Init, ImplPlaces
    <3>5. /\ field \in {0} \cup Gens /\ using \in [Gens -> {0} \cup Gens]
          /\ call \in [Gens -> CallIds \cup {NoCall}]
          /\ taken \in [Gens -> Nat] /\ told \in [Gens -> BOOLEAN]
          /\ corrIds \in [Gens -> SUBSET CallIds] /\ saved \in [Gens -> SUBSET CallIds]
          /\ closed \in [Gens -> BOOLEAN] /\ cut \in [Gens -> BOOLEAN]
      BY DEF Init
    <3> QED BY <3>1, <3>2, <3>3, <3>4, <3>5, Zenon DEF TypeOKImpl
  <2>3. TypeOKValidator
    <3>1. /\ toEngine = <<>> /\ linked = FALSE /\ registration = "none" /\ calls = {}
          /\ notes = 0 /\ acked = 0
          /\ pings = 0 /\ pongs = 0 /\ notReady = 0 /\ repeats = 0 /\ disconnects = 0
      BY Zenon DEF Init
    <3>2. toEngine \in Seq(ValidatorMessages)
      BY <3>1, EmptySeq
    <3>3. /\ notes \in Nat /\ acked \in Nat /\ pings \in Nat /\ pongs \in Nat
          /\ notReady \in Nat /\ repeats \in Nat /\ disconnects \in Nat
      BY <3>1, Zenon
    <3> QED BY <3>1, <3>2, <3>3, Zenon DEF TypeOKValidator
  <2> QED BY <2>1, <2>2, <2>3 DEF TypeOK
<1>2. gen = 0 /\ main = "start" /\ gen \notin Gens /\ \A g \in Gens : ~(g < gen)
  BY BoundsAssumption, SMTT(30) DEF BoundsAssumption, Init, Gens
<1>3. ChannelInv
  BY <1>2 DEF Init, ChannelInv, ShutdownIsLast
<1>4. CallInv
  BY DEF Init, CallInv, Calling, Distinct, Apart, InCall
<1>5. RegisterInv
  BY DEF Init, RegisterInv, Registering, ActiveTogether
<1> QED BY <1>1, <1>3, <1>4, <1>5 DEF EngineInv

\* Every step keeps it.
LEMMA StepInv == EngineInv /\ [Next]_vars => EngineInv'
<1> SUFFICES ASSUME TypeOK, ChannelInv, CallInv, RegisterInv, [Next]_vars
             PROVE  TypeOK' /\ ChannelInv' /\ CallInv' /\ RegisterInv'
    BY Zenon DEF EngineInv
<1>1. CASE Engine
  BY <1>1, EngineTypeOK, EngineChannels, EngineCalls, EngineRegisters, Zenon
<1>2. ASSUME NEW g \in Gens, Impl(g) PROVE TypeOK' /\ ChannelInv' /\ CallInv' /\ RegisterInv'
  BY <1>2, ImplTypeOK, ImplChannels, ImplCalls, ImplRegisters, Zenon
<1>3. CASE Environment
  BY <1>3, EnvironmentTypeOK, EnvironmentPasses, EnvironmentRegisters
<1>4. CASE UNCHANGED vars
  <2>1. UNCHANGED <<engineVars, implVars, chanVars, serviceVars, toEngine, linked,
                    shutdownVars, validatorVars, notes, acked, countVars>>
    BY <1>4 DEF vars
  <2>2. TypeOK'
    <3>1. TypeOKEngine'
      BY <2>1, Zenon DEF TypeOK, TypeOKEngine, engineVars, shutdownVars
    <3>2. TypeOKImpl'
      BY <2>1, ImplFrame DEF TypeOK
    <3>3. TypeOKValidator'
      BY <2>1, Zenon DEF TypeOK, TypeOKValidator, validatorVars, countVars
    <3> QED BY <3>1, <3>2, <3>3 DEF TypeOK
  <2>3. MovesOn /\ NothingNew
    BY <2>1 DEF MovesOn, NothingNew, Fresh, engineVars, serviceVars, validatorVars
  <2>4. ChannelInv' /\ CallInv'
    BY <2>1, <2>3, ChannelFrame, CallFrame, Zenon
    DEF engineVars, implVars, callVars, takenVars, storeVars, chanVars
  <2>5. RegisterInv'
    BY <2>1, RegisterFrame DEF engineVars, validatorVars
  <2> QED BY <2>2, <2>4, <2>5, Zenon
<1> QED BY <1>1, <1>2, <1>3, <1>4 DEF Next

\* The invariant holds throughout.
LEMMA InvHeld == Spec => []EngineInv
BY InitInv, StepInv, PTL DEF Spec

\* The types; no channel ever holds more updates than its capacity, however
\* fast notifications come (updateChan).
THEOREM EngineTypeCorrect == Spec => []TypeOK
<1>1. EngineInv => TypeOK
  BY DEF EngineInv
<1> QED BY InvHeld, <1>1, PTL

\* Whatever goroutine makes it, a call through the service of an earlier
\* connection neither reaches the present one nor gets an answer from it, for
\* any number of connections whose goroutines all share one value (Start,
\* serviceRpc, receiveValidator).
THEOREM ServicesIsolated == Spec => []ServiceIsolated
<1>1. EngineInv => ServiceIsolated
  BY Zenon DEF EngineInv, CallInv, Apart, Lacks, ServiceIsolated
<1> QED BY InvHeld, <1>1, PTL

\* The shutdown update ends its channel; the channel is closed after it is in
\* there, the service shut down after that, and both before the next pass
\* begins: the engine never sends on a closed channel (performShutdown,
\* handleUpdate).
THEOREM ShutdownAlwaysLast == Spec => []ShutdownIsLast
<1>1. EngineInv => ShutdownIsLast
  BY DEF EngineInv, ChannelInv
<1> QED BY InvHeld, <1>1, PTL

\* The engine runs its loop only for a validator that has activated it, after
\* any number of refusals and lost connections (register, waitUntilActive).
THEOREM EngineActiveTogether == Spec => []ActiveTogether
<1>1. EngineInv => ActiveTogether
  BY DEF EngineInv, RegisterInv
<1> QED BY InvHeld, <1>1, PTL
-----------------------------------------------------------------------------
(* The notifications, from the validator to the implementation.             *)

\* The places of the entries of a type.
Places(pipe, type) == {i \in DOMAIN pipe : pipe[i].type = type}

\* Carries, in terms of them.
LEMMA CarriesPlaces ==
    ASSUME NEW s, NEW type, NEW ids
    PROVE  Carries(s, type, ids) <=>
              /\ {s[i].id : i \in Places(s, type)} = ids
              /\ \A i, j \in Places(s, type) : i < j => s[i].id < s[j].id
BY Zenon DEF Carries, Places

\* An entry with a larger id is added.
LEMMA CarriesMore ==
    ASSUME NEW S, NEW s \in Seq(S), NEW type, NEW ids, Carries(s, type, ids),
           NEW x, x.type = type, \A k \in ids : k < x.id
    PROVE  Carries(Append(s, x), type, ids \cup {x.id})
<1> DEFINE t == Append(s, x)
           k == Len(s) + 1
<1>1. /\ Len(s) \in Nat /\ DOMAIN s = 1..Len(s) /\ k \notin DOMAIN s
      /\ DOMAIN t = DOMAIN s \cup {k}
      /\ \A i \in DOMAIN s : t[i] = s[i]
      /\ t[k] = x
  BY AppendElements, Zenon
<1> HIDE DEF t
<1>2. Places(t, type) = Places(s, type) \cup {k}
  BY <1>1, Zenon DEF Places
<1>3. \A i \in Places(s, type) : t[i] = s[i] /\ i \in Nat /\ i < k
  BY <1>1 DEF Places
<1>4. /\ {s[i].id : i \in Places(s, type)} = ids
      /\ \A i, j \in Places(s, type) : i < j => s[i].id < s[j].id
  BY CarriesPlaces, Zenon
<1>5. {t[i].id : i \in Places(t, type)} = ids \cup {x.id}
  BY <1>1, <1>2, <1>3, <1>4, SMTT(30)
<1>6. ASSUME NEW i \in Places(t, type), NEW j \in Places(t, type), i < j
      PROVE  t[i].id < t[j].id
  <2>1. CASE j = k
    <3>1. i \in Places(s, type)
      BY <1>1, <1>2, <1>6, <2>1, SMTT(30)
    <3>2. s[i].id \in ids
      BY <1>4, <3>1
    <3> QED BY <1>1, <1>3, <2>1, <3>1, <3>2, Zenon
  <2>2. CASE j # k
    <3>1. j \in Places(s, type)
      BY <1>2, <2>2, Zenon
    <3>2. i \in Places(s, type)
      BY <1>1, <1>2, <1>3, <1>6, <3>1, SMTT(30)
    <3> QED BY <1>3, <1>4, <1>6, <3>1, <3>2, Zenon
  <2> QED BY <2>1, <2>2
<1>7. Carries(t, type, ids \cup {x.id})
  BY <1>5, <1>6, CarriesPlaces, Zenon
<1> QED BY <1>7, Zenon DEF t

\* An entry of another type is.
LEMMA CarriesOther ==
    ASSUME NEW S, NEW s \in Seq(S), NEW type, NEW ids, Carries(s, type, ids),
           NEW x, x.type # type
    PROVE  Carries(Append(s, x), type, ids)
<1> DEFINE t == Append(s, x)
           k == Len(s) + 1
<1>1. /\ DOMAIN t = DOMAIN s \cup {k}
      /\ \A i \in DOMAIN s : t[i] = s[i]
      /\ t[k] = x
  BY AppendElements, Zenon
<1> HIDE DEF t, k
<1>2. Places(t, type) = Places(s, type) /\ \A i \in Places(s, type) : t[i] = s[i]
  BY <1>1 DEF Places
<1>3. {t[i].id : i \in Places(t, type)} = {s[i].id : i \in Places(s, type)}
  BY <1>2, Zenon
<1>4. /\ {s[i].id : i \in Places(s, type)} = ids
      /\ \A i, j \in Places(s, type) : i < j => s[i].id < s[j].id
  BY CarriesPlaces, Zenon
<1>5. \A i, j \in Places(t, type) : i < j => t[i].id < t[j].id
  BY <1>2, <1>4
<1>6. {t[i].id : i \in Places(t, type)} = ids
  BY <1>3, <1>4, Zenon
<1>7. Carries(t, type, ids)
  BY <1>5, <1>6, CarriesPlaces, Zenon
<1> QED BY <1>7, Zenon DEF t

\* The places of the rest when the first entry has been taken.
LEMMA PipeRest ==
    ASSUME NEW S, NEW s \in Seq(S), s # <<>>
    PROVE  /\ Head(s) = s[1] /\ 1 \in DOMAIN s /\ DOMAIN s \subseteq Nat \ {0}
           /\ \A i \in DOMAIN Tail(s) : i \in Nat /\ i # 0 /\ i + 1 \in DOMAIN s /\ Tail(s)[i] = s[i + 1]
           /\ \A i \in DOMAIN s : i # 1 => i - 1 \in DOMAIN Tail(s) /\ Tail(s)[i - 1] = s[i]
<1>1. /\ Len(s) \in Nat /\ 1 \in DOMAIN s /\ Head(s) = s[1]
      /\ \A i \in DOMAIN Tail(s) : i + 1 \in DOMAIN s /\ i \in Nat /\ Tail(s)[i] = s[i + 1]
      /\ Len(Tail(s)) = Len(s) - 1
  BY TailElements
<1>2. DOMAIN s = 1..Len(s) /\ DOMAIN Tail(s) = 1..(Len(s) - 1)
  BY <1>1, HeadTailProperties, LenProperties, SMTT(30)
<1>3. ASSUME NEW i \in DOMAIN s, i # 1
      PROVE  i - 1 \in DOMAIN Tail(s) /\ Tail(s)[i - 1] = s[i]
  <2>1. i - 1 \in DOMAIN Tail(s) /\ (i - 1) + 1 = i
    BY <1>1, <1>2, <1>3
  <2> QED BY <1>1, <2>1
<1> QED BY <1>1, <1>2, <1>3

\* The first entry is taken: of its type, it has the least id.
LEMMA CarriesRest ==
    ASSUME NEW S, NEW s \in Seq(S), s # <<>>, NEW type,
           NEW ids \in SUBSET Nat, Carries(s, type, ids)
    PROVE  IF Head(s).type = type
           THEN /\ Head(s).id \in ids /\ \A k \in ids : Head(s).id <= k
                /\ Carries(Tail(s), type, ids \ {Head(s).id})
           ELSE Carries(Tail(s), type, ids)
<1> DEFINE t == Tail(s)
<1>1. /\ Head(s) = s[1] /\ 1 \in DOMAIN s /\ DOMAIN s \subseteq Nat \ {0}
      /\ \A i \in DOMAIN t : i \in Nat /\ i # 0 /\ i + 1 \in DOMAIN s /\ t[i] = s[i + 1]
      /\ \A i \in DOMAIN s : i # 1 => i - 1 \in DOMAIN t /\ t[i - 1] = s[i]
  BY PipeRest
<1> HIDE DEF t
<1>2. \A i \in Places(t, type) :
         i \in Nat /\ i # 0 /\ i + 1 \in Places(s, type) /\ t[i] = s[i + 1]
  BY <1>1 DEF Places
<1>3. \A i \in Places(s, type) :
         i \in Nat /\ i # 0 /\ (i # 1 => i - 1 \in Places(t, type) /\ t[i - 1] = s[i])
  BY <1>1, Zenon DEF Places
<1>4. /\ {s[i].id : i \in Places(s, type)} = ids
      /\ \A i, j \in Places(s, type) : i < j => s[i].id < s[j].id
  BY CarriesPlaces, Zenon
<1>5. \A i, j \in Places(t, type) : i < j => t[i].id < t[j].id
  BY <1>2, <1>4
<1>6. CASE Head(s).type = type
  <2>1. 1 \in Places(s, type)
    BY <1>1, <1>6, Zenon DEF Places
  <2>2. s[1].id \in ids /\ s[1].id \in Nat
    BY <1>4, <2>1, Zenon
  <2>3. \A i \in Places(s, type) : i # 1 => s[1].id < s[i].id
    BY <1>3, <1>4, <2>1
  <2>4. ASSUME NEW k \in ids PROVE s[1].id <= k
    <3>1. PICK i \in Places(s, type) : s[i].id = k
      BY <1>4, Zenon
    <3>2. s[1].id = k \/ s[1].id < k
      BY <2>3, <3>1, Zenon
    <3> QED BY <2>2, <3>2
  <2>5. ASSUME NEW i \in Places(t, type) PROVE t[i].id \in ids \ {s[1].id}
    <3>1. i + 1 \in Places(s, type) /\ t[i] = s[i + 1] /\ i + 1 # 1
      BY <1>2
    <3>2. s[i + 1].id \in ids /\ s[1].id < s[i + 1].id
      BY <1>4, <2>3, <3>1, ZenonT(30)
    <3> QED BY <2>2, <3>1, <3>2
  <2>6. ASSUME NEW k \in ids \ {s[1].id} PROVE \E i \in Places(t, type) : t[i].id = k
    <3>1. PICK i \in Places(s, type) : s[i].id = k
      BY <1>4, Zenon
    <3>2. i # 1
      BY <3>1
    <3> QED BY <1>3, <3>1, <3>2
  <2>7. {t[i].id : i \in Places(t, type)} = ids \ {s[1].id}
    <3> DEFINE P == Places(t, type)
               R == {t[i].id : i \in P}
    <3>1. R \subseteq ids \ {s[1].id}
      BY <2>5, Zenon
    <3>2. ids \ {s[1].id} \subseteq R
      BY <2>6, Zenon
    <3> QED BY <3>1, <3>2, Zenon
  <2>8. Carries(t, type, ids \ {s[1].id})
    BY <1>5, <2>7, CarriesPlaces, Zenon
  <2> QED BY <1>1, <1>6, <2>2, <2>4, <2>8, Zenon DEF t
<1>7. CASE Head(s).type # type
  <2>1. 1 \notin Places(s, type)
    BY <1>1, <1>7, Zenon DEF Places
  <2>2. {t[i].id : i \in Places(t, type)} = {s[i].id : i \in Places(s, type)}
    <3>1. ASSUME NEW i \in Places(t, type) PROVE \E j \in Places(s, type) : s[j].id = t[i].id
      BY <1>2
    <3>2. ASSUME NEW j \in Places(s, type) PROVE \E i \in Places(t, type) : s[j].id = t[i].id
      BY <1>3, <2>1
    <3> QED BY <3>1, <3>2
  <2>3. Carries(t, type, ids)
    BY <1>4, <1>5, <2>2, CarriesPlaces, Zenon
  <2> QED BY <1>7, <2>3 DEF t
<1> QED BY <1>6, <1>7, Zenon

\* The last notification the engine has read.
LastRead == IF main = "update" THEN pending ELSE acked

\* The updates of the present pass that the implementation has still to take.
ToTake == ((taken[gen] + 1)..acked) \ Malformed

\* UpdatesInOrder, from the connection on.
Delivered ==
    /\ taken[gen] <= acked /\ LastRead <= notes
    /\ Carries(updates[gen], "Update", ToTake)
    /\ main = "update" => pending = acked + 1
    /\ Carries(toEngine, "NOTIFY", (LastRead + 1)..notes)

DeliveryInv == main \in {"register", "wait", "poll", "update", "shutdown"} => Delivered

\* The types of what the delivery of updates is about.
LEMMA DeliveryTypes ==
    ASSUME TypeOK, main \in {"register", "wait", "poll", "update", "shutdown"}
    PROVE  /\ gen \in Gens /\ taken[gen] \in Nat
           /\ updates[gen] \in Seq(Updates)
           /\ toEngine \in Seq(ValidatorMessages)
           /\ LastRead \in Nat /\ acked \in Nat /\ notes \in Nat
<1>1. gen \in Gens /\ pending \in Nat
  BY DEF TypeOK, TypeOKEngine
<1>2. toEngine \in Seq(ValidatorMessages) /\ notes \in Nat /\ acked \in Nat
  BY DEF TypeOK, TypeOKValidator
<1>3. /\ taken[gen] \in Nat
      /\ updates[gen] \in Seq(Updates)
  BY <1>1, Zenon DEF TypeOK, TypeOKImpl
<1> QED BY <1>1, <1>2, <1>3 DEF LastRead

\* The engine reads a message that is no notification, or none.
LEMMA DeliveryRead ==
    ASSUME TypeOK, DeliveryInv, main \in {"register", "wait", "poll"},
           main' \in {"register", "wait", "poll", "shutdown"},
           \/ toEngine' = toEngine
           \/ /\ toEngine # <<>> /\ Head(toEngine).type # "NOTIFY"
              /\ toEngine' = Tail(toEngine)
           , UNCHANGED <<gen, updates, taken, acked, notes>>
    PROVE  DeliveryInv'
<1>1. /\ taken[gen] <= acked /\ acked <= notes /\ Carries(updates[gen], "Update", ToTake)
      /\ Carries(toEngine, "NOTIFY", (acked + 1)..notes)
      /\ acked \in Nat /\ notes \in Nat /\ toEngine \in Seq(ValidatorMessages)
  BY DeliveryTypes DEF DeliveryInv, Delivered, LastRead
<1>2. Carries(toEngine', "NOTIFY", (acked + 1)..notes)
  <2>1. CASE toEngine' = toEngine
    BY <1>1, <2>1, Zenon
  <2>2. CASE toEngine # <<>> /\ Head(toEngine).type # "NOTIFY" /\ toEngine' = Tail(toEngine)
    <3>1. (acked + 1)..notes \in SUBSET Nat
      BY <1>1
    <3> QED BY <1>1, <2>2, <3>1, CarriesRest, Zenon
  <2> QED BY <2>1, <2>2
<1> QED BY <1>1, <1>2, Zenon DEF DeliveryInv, Delivered, LastRead, ToTake

\* DeliveryInv over every step of the driver.
LEMMA EngineDelivers == ASSUME TypeOK, ChannelInv, DeliveryInv, Engine PROVE DeliveryInv'
<1>1. CASE Start
  <2>1. /\ gen' \in Gens /\ gen' = gen + 1 /\ main' = "register"
        /\ taken' = [taken EXCEPT ![gen + 1] = notes] /\ acked' = notes /\ toEngine' = <<>>
        /\ UNCHANGED <<notes, updates>>
    BY <1>1, Zenon DEF Start, chanVars
  <2>2. gen \in Nat /\ notes \in Nat /\ taken \in [Gens -> Nat]
    <3>1. gen \in 0..(MaxDisconnects + 1) /\ notes \in Nat /\ taken \in [Gens -> Nat]
      BY Zenon DEF TypeOK, TypeOKEngine, TypeOKValidator, TypeOKImpl
    <3> QED BY <3>1
  <2>3. updates'[gen'] = <<>>
    BY <2>1, <2>2 DEF ChannelInv, Fresh
  <2>4. taken'[gen'] = notes
    BY <2>1, <2>2
  <2>5. ((notes + 1)..notes) = {} /\ ((notes + 1)..notes) \ Malformed = {} /\ notes <= notes
    BY <2>2
  <2>6. \A type : Carries(<<>>, type, {})
    BY DEF Carries
  <2>7. ToTake' = {} /\ LastRead' = notes
    BY <2>1, <2>4, <2>5, Zenon DEF ToTake, LastRead
  <2>8. main' # "update"
    BY <2>1
  <2> QED BY <2>1, <2>3, <2>4, <2>5, <2>6, <2>7, <2>8, Zenon DEF DeliveryInv, Delivered
<1>2. CASE Register \/ WaitUntilActive
  <2>1. /\ main \in {"register", "wait"} /\ toEngine # <<>> /\ toEngine' = Tail(toEngine)
        /\ UNCHANGED <<gen, updates, taken, acked, notes>>
    BY <1>2, ZenonT(30) DEF Register, WaitUntilActive, chanVars, takenVars
  <2>2. \/ main' = "failed"
        \/ main' \in {"register", "wait", "poll"} /\ Head(toEngine).type # "NOTIFY"
    BY <1>2, <2>1 DEF Register, WaitUntilActive, RegisterOK, RegisterNotReady, RegisterFails,
                      RegisterResponse, Fail, Activate
  <2>3. CASE main' = "failed"
    BY <2>3 DEF DeliveryInv
  <2>4. CASE main' \in {"register", "wait", "poll"} /\ Head(toEngine).type # "NOTIFY"
    BY <2>1, <2>4, DeliveryRead
  <2> QED BY <2>2, <2>3, <2>4, SMTT(30)
<1>3. CASE Poll \/ ReceiveMonitor \/ ReceiveService \/ ReceiveShutdown
  <2>1. main = "poll" /\ main' \in {"poll", "shutdown"}
        /\ UNCHANGED <<gen, updates, taken, acked, notes, toEngine>>
    BY <1>3, Zenon DEF Poll, ReceiveMonitor, ReceiveService, ReceiveShutdown, Turn, chanVars, implVars, takenVars
  <2> QED BY <2>1, DeliveryRead
<1>4. CASE ReceiveValidator
  <2>1. /\ main = "poll" /\ toEngine # <<>> /\ toEngine' = Tail(toEngine)
        /\ UNCHANGED <<gen, updates, taken, acked, notes>>
    BY <1>4, Zenon DEF ReceiveValidator, Turn, chanVars, takenVars
  <2>2. \/ main' = "crashed"
        \/ main' = "poll" /\ Head(toEngine).type # "NOTIFY"
        \/ main' = "update" /\ Head(toEngine).type = "NOTIFY" /\ pending' = Head(toEngine).id
    BY <1>4, <2>1 DEF ReceiveValidator, ReceiveNotification, ReceivePing, ReceiveResponse, Crash
  <2>3. CASE main' = "crashed"
    BY <2>3 DEF DeliveryInv
  <2>4. CASE main' = "poll" /\ Head(toEngine).type # "NOTIFY"
    BY <2>1, <2>4, DeliveryRead, Zenon
  <2>5. CASE main' = "update" /\ Head(toEngine).type = "NOTIFY" /\ pending' = Head(toEngine).id
    <3>1. /\ taken[gen] <= acked /\ acked <= notes /\ Carries(updates[gen], "Update", ToTake)
          /\ Carries(toEngine, "NOTIFY", (acked + 1)..notes)
          /\ acked \in Nat /\ notes \in Nat /\ toEngine \in Seq(ValidatorMessages)
      BY <2>1, DeliveryTypes DEF DeliveryInv, Delivered, LastRead
    <3>2. (acked + 1)..notes \in SUBSET Nat
      BY <3>1
    <3> DEFINE h == Head(toEngine).id
    <3>3. /\ h \in (acked + 1)..notes /\ \A k \in (acked + 1)..notes : h <= k
          /\ Carries(Tail(toEngine), "NOTIFY", ((acked + 1)..notes) \ {h})
      BY <2>1, <2>5, <3>1, <3>2, CarriesRest, Zenon
    <3> HIDE DEF h
    <3>4. h = acked + 1
      BY <3>1, <3>3, SMTT(30)
    <3>5. ((acked + 1)..notes) \ {h} = (h + 1)..notes /\ h <= notes
      BY <3>1, <3>4, <3>3, SMTT(30)
    <3>6. pending' = h /\ main' = "update" /\ toEngine' = Tail(toEngine)
      BY <2>1, <2>5 DEF h
    <3>7. Carries(toEngine', "NOTIFY", (h + 1)..notes)
      BY <3>3, <3>5, <3>6, Zenon
    <3> QED BY <2>1, <3>1, <3>4, <3>5, <3>6, <3>7, Zenon DEF DeliveryInv, Delivered, LastRead, ToTake
  <2> QED BY <2>2, <2>3, <2>4, <2>5, SMTT(30)
<1>5. CASE HandleUpdate
  <2>1. /\ main = "update" /\ main' = "poll" /\ acked' = pending
        /\ UNCHANGED <<gen, taken, notes, toEngine>>
        /\ \/ /\ pending \notin Malformed
              /\ updates' = [updates EXCEPT ![gen] = Append(@, Update(pending))]
           \/ pending \in Malformed /\ updates' = updates
    BY <1>5, Zenon DEF HandleUpdate, implVars, takenVars
  <2>2. /\ taken[gen] <= acked /\ pending <= notes /\ Carries(updates[gen], "Update", ToTake)
        /\ pending = acked + 1 /\ Carries(toEngine, "NOTIFY", (pending + 1)..notes)
    BY <2>1, Zenon DEF DeliveryInv, Delivered, LastRead
  <2>3. /\ gen \in Gens /\ taken[gen] \in Nat /\ acked \in Nat
        /\ updates[gen] \in Seq(Updates)
    BY <2>1, DeliveryTypes, Zenon
  <2>4. /\ ToTake' = ((taken[gen] + 1)..(acked + 1)) \ Malformed
        /\ taken'[gen'] <= acked' /\ LastRead' = pending
    BY <2>1, <2>2, <2>3, SMTT(30) DEF ToTake, LastRead
  <2>5. Carries(updates'[gen], "Update", ToTake')
    <3>1. CASE pending \in Malformed /\ updates' = updates
      <4>1. ToTake' = ToTake
        BY <2>2, <2>3, <2>4, <3>1 DEF ToTake
      <4> QED BY <2>2, <3>1, <4>1, Zenon
    <3>2. CASE pending \notin Malformed
               /\ updates' = [updates EXCEPT ![gen] = Append(@, Update(pending))]
      <4> DEFINE u == Update(pending)
      <4>1. u.type = "Update" /\ u.id = acked + 1
        BY <2>2 DEF Update
      <4>2. updates'[gen] = Append(updates[gen], u)
        BY <2>3, <3>2, Zenon DEF TypeOK, TypeOKImpl
      <4>3. ToTake' = ToTake \cup {u.id} /\ \A k \in ToTake : k < u.id
        BY <2>2, <2>3, <2>4, <3>2, <4>1 DEF ToTake
      <4> HIDE DEF u
      <4>4. Carries(Append(updates[gen], u), "Update", ToTake \cup {u.id})
        BY <2>2, <2>3, <4>1, <4>3, CarriesMore, Zenon
      <4> QED BY <4>2, <4>3, <4>4, Zenon
    <3> QED BY <2>1, <3>1, <3>2
  <2> QED BY <2>1, <2>2, <2>4, <2>5, Zenon DEF DeliveryInv, Delivered
<1>6. CASE StartupShutdown \/ PerformShutdown \/ CloseChannel \/ ShutdownService \/ CloseSockets
  <2>1. main' \in {"failed", "start", "stopped", "closing", "cutting", "leaving"}
    BY <1>6, Zenon DEF StartupShutdown, PerformShutdown, CloseChannel, ShutdownService,
                       CloseSockets, Fail
  <2> QED BY <2>1 DEF DeliveryInv
<1> QED BY <1>1, <1>2, <1>3, <1>4, <1>5, <1>6, Zenon DEF Engine

\* DeliveryInv over every step of an engine implementation.
LEMMA ImplDelivers ==
    ASSUME TypeOK, DeliveryInv, NEW g \in Gens, Impl(g) PROVE DeliveryInv'
<1>1. UNCHANGED <<gen, pending, acked, notes, toEngine>>
  BY ImplSteps, Zenon DEF rest
<1>2. main' \in {main, "crashed"}
  BY ImplSteps, Zenon
<1>3. UNCHANGED <<updates, taken>> \/ ImplTake(g)
  BY Zenon DEF Impl, ImplBegin, ImplTurn, RpcSend, RpcRecord, RpcLook, RpcReceive, RpcClosed,
         RpcForget, RpcRace, takenVars
<1> SUFFICES ASSUME main' = main, main \in {"register", "wait", "poll", "update", "shutdown"}
             PROVE  Delivered'
  BY <1>2, Zenon DEF DeliveryInv
<1>4. /\ taken[gen] <= acked /\ LastRead <= notes
      /\ Carries(updates[gen], "Update", ToTake)
      /\ main = "update" => pending = acked + 1
      /\ Carries(toEngine, "NOTIFY", (LastRead + 1)..notes) /\ LastRead' = LastRead
  BY <1>1, Zenon DEF DeliveryInv, Delivered, LastRead
<1>5. taken'[gen] <= acked /\ Carries(updates'[gen], "Update", ToTake')
  <2>1. CASE UNCHANGED <<updates, taken>>
    BY <1>1, <1>4, <2>1, Zenon DEF ToTake
  <2>2. CASE ImplTake(g)
    <3> DEFINE u == Head(updates[g])
    <3>1. /\ updates[g] # <<>> /\ updates' = [updates EXCEPT ![g] = Tail(@)]
          /\ taken' = [taken EXCEPT ![g] = IF u.type = "Update" THEN u.id ELSE @]
      BY <2>2 DEF ImplTake
    <3>2. /\ gen \in Gens /\ taken[gen] \in Nat /\ acked \in Nat
          /\ updates[gen] \in Seq(Updates)
          /\ updates \in [Gens -> Seq(Updates)] /\ taken \in [Gens -> Nat]
      BY DeliveryTypes, Zenon DEF TypeOK, TypeOKImpl
    <3>3. CASE g # gen
      <4>1. updates'[gen] = updates[gen] /\ taken'[gen] = taken[gen]
        BY <3>1, <3>2, <3>3
      <4>2. ToTake' = ToTake
        BY <1>1, <4>1, Zenon DEF ToTake
      <4> QED BY <1>4, <4>1, <4>2, Zenon
    <3>4. CASE g = gen
      <4>1. updates'[gen] = Tail(updates[gen])
        BY <3>1, <3>2, <3>4, ZenonT(30)
      <4>2. ToTake \in SUBSET Nat
        BY <3>2 DEF ToTake
      <4>3. IF u.type = "Update"
            THEN /\ u.id \in ToTake /\ \A k \in ToTake : u.id <= k
                 /\ Carries(Tail(updates[gen]), "Update", ToTake \ {u.id})
            ELSE Carries(Tail(updates[gen]), "Update", ToTake)
        BY <1>4, <3>1, <3>2, <3>4, <4>2, CarriesRest, Zenon
      <4> HIDE DEF u
      <4>4. CASE u.type = "Update"
        <5>1. taken'[gen] = u.id
          BY <3>1, <3>2, <3>4, <4>4, Zenon
        <5>2. u.id <= acked /\ ToTake \ {u.id} = ((u.id + 1)..acked) \ Malformed
          BY <3>2, <4>3, <4>4 DEF ToTake
        <5>3. ToTake' = ToTake \ {u.id}
          BY <1>1, <5>1, <5>2, Zenon DEF ToTake
        <5> QED BY <4>1, <4>3, <4>4, <5>1, <5>2, <5>3, Zenon
      <4>5. CASE u.type # "Update"
        <5>1. taken'[gen] = taken[gen]
          BY <3>1, <3>2, <3>4, <4>5
        <5>2. ToTake' = ToTake
          BY <1>1, <5>1, Zenon DEF ToTake
        <5> QED BY <1>4, <4>1, <4>3, <4>5, <5>1, <5>2, Zenon
      <4> QED BY <4>4, <4>5, Zenon
    <3> QED BY <3>3, <3>4, ZenonT(30)
  <2> QED BY <1>3, <2>1, <2>2, Zenon
<1> QED BY <1>1, <1>4, <1>5, Zenon DEF Delivered

\* DeliveryInv over every step of the validator and the network.
LEMMA EnvironmentDelivers == ASSUME TypeOK, DeliveryInv, Environment PROVE DeliveryInv'
<1>1. UNCHANGED programVars
  BY Zenon DEF Environment, ValidatorRegisters, ValidatorActivates, ValidatorNotifies,
         ValidatorPings, ValidatorAnswers, ValidatorRepeats, Disconnect, Shutdown
<1>2. UNCHANGED <<main, gen, pending, updates, taken, acked>>
  BY <1>1 DEF programVars, engineVars, implVars, takenVars, chanVars
<1>3. \/ UNCHANGED <<toEngine, notes>>
      \/ UNCHANGED notes /\ \E x : x.type # "NOTIFY" /\ toEngine' = Append(toEngine, x)
      \/ notes' = notes + 1 /\ toEngine' = Append(toEngine, Msg("NOTIFY", notes + 1))
  <2>1. CASE Disconnect \/ Shutdown
    BY <2>1 DEF Disconnect, Shutdown
  <2>2. CASE ValidatorNotifies
    BY <2>2 DEF ValidatorNotifies, ValidatorSend
  <2>3. CASE ValidatorRegisters
    <3>1. PICK s : ValidatorSend(RegisterResponse(s))
      BY <2>3, Zenon DEF ValidatorRegisters
    <3>2. RegisterResponse(s).type # "NOTIFY"
      BY DEF RegisterResponse
    <3>3. UNCHANGED notes
      BY <2>3 DEF ValidatorRegisters
    <3> QED BY <3>1, <3>2, <3>3, Zenon DEF ValidatorSend
  <2>4. ASSUME NEW c,
               ValidatorActivates \/ ValidatorPings \/ ValidatorAnswers(c) \/ ValidatorRepeats(c)
        PROVE  UNCHANGED notes /\ \E x : x.type # "NOTIFY" /\ toEngine' = Append(toEngine, x)
    <3>1. UNCHANGED notes /\ \E type \in MessageTypes \ {"NOTIFY"} : \E id : ValidatorSend(Msg(type, id))
      BY <2>4 DEF ValidatorActivates, ValidatorPings, ValidatorAnswers, ValidatorRepeats, MessageTypes
    <3>2. \A type \in MessageTypes \ {"NOTIFY"} : \A id : Msg(type, id).type # "NOTIFY"
      BY DEF Msg
    <3> QED BY <3>1, <3>2, Zenon DEF ValidatorSend
  <2> QED BY <2>1, <2>2, <2>3, <2>4, Zenon DEF Environment
<1> SUFFICES ASSUME main \in {"register", "wait", "poll", "update", "shutdown"}
             PROVE  Delivered'
  BY <1>2, Zenon DEF DeliveryInv
<1>4. /\ taken[gen] <= acked /\ LastRead <= notes
      /\ Carries(updates[gen], "Update", ToTake) /\ ToTake' = ToTake
      /\ main = "update" => pending = acked + 1
      /\ Carries(toEngine, "NOTIFY", (LastRead + 1)..notes) /\ LastRead' = LastRead
  BY <1>2, Zenon DEF DeliveryInv, Delivered, LastRead, ToTake
<1>5. toEngine \in Seq(ValidatorMessages) /\ LastRead \in Nat /\ notes \in Nat
  BY DeliveryTypes
<1>6. LastRead <= notes' /\ Carries(toEngine', "NOTIFY", (LastRead + 1)..notes')
  <2>1. CASE UNCHANGED <<toEngine, notes>>
    BY <1>4, <2>1, Zenon
  <2>2. ASSUME UNCHANGED notes, NEW x, x.type # "NOTIFY", toEngine' = Append(toEngine, x)
        PROVE  LastRead <= notes' /\ Carries(toEngine', "NOTIFY", (LastRead + 1)..notes')
    BY <1>4, <1>5, <2>2, CarriesOther, ZenonT(30)
  <2>3. CASE notes' = notes + 1 /\ toEngine' = Append(toEngine, Msg("NOTIFY", notes + 1))
    <3> DEFINE m == Msg("NOTIFY", notes + 1)
               due == (LastRead + 1)..notes
    <3>1. m.type = "NOTIFY" /\ m.id = notes + 1
      BY DEF Msg
    <3>2. (LastRead + 1)..notes' = due \cup {m.id} /\ \A k \in due : k < m.id
      BY <1>4, <1>5, <2>3, <3>1
    <3>3. LastRead <= notes'
      BY <1>4, <1>5, <2>3, SMTT(30)
    <3> HIDE DEF m, due
    <3>4. Carries(toEngine, "NOTIFY", due) /\ toEngine' = Append(toEngine, m)
      BY <1>4, <2>3 DEF due, m
    <3>5. Carries(Append(toEngine, m), "NOTIFY", due \cup {m.id})
      BY <1>5, <3>1, <3>2, <3>4, CarriesMore, Zenon
    <3> QED BY <3>2, <3>3, <3>4, <3>5, Zenon
  <2> QED BY <1>3, <2>1, <2>2, <2>3, Zenon
<1> QED BY <1>2, <1>4, <1>6, Zenon DEF Delivered

\* The notifications stay accounted for.
LEMMA DeliveryHeld == Spec => []DeliveryInv
<1>1. Init => DeliveryInv
  BY DEF Init, DeliveryInv
<1>2. EngineInv /\ DeliveryInv /\ [Next]_vars => DeliveryInv'
  <2> SUFFICES ASSUME TypeOK, ChannelInv, DeliveryInv, [Next]_vars PROVE DeliveryInv'
    BY Zenon DEF EngineInv
  <2>1. CASE UNCHANGED vars
    BY <2>1, Zenon DEF vars, engineVars, implVars, takenVars, chanVars, DeliveryInv, Delivered,
                            LastRead, ToTake
  <2> QED BY <2>1, EngineDelivers, ImplDelivers, EnvironmentDelivers, Zenon DEF Next
<1> QED BY <1>1, <1>2, InvHeld, PTL DEF Spec

\* Every notification that unmarshals reaches the implementation once and in
\* order, the others are acknowledged all the same, for any set of malformed
\* notifications, any capacity of the channel and however far the
\* implementation lags behind (receiveValidator, handleUpdate).
THEOREM UpdatesKeepOrder == Spec => []UpdatesInOrder
<1>1. DeliveryInv => UpdatesInOrder
  BY Zenon DEF DeliveryInv, Delivered, LastRead, ToTake, UpdatesInOrder
<1> QED BY <1>1, DeliveryHeld, PTL
-----------------------------------------------------------------------------
(* No other standstill.                                                     *)

\* A lost connection is on the monitor socket, or has become a command.
LossNoticed ==
    main \in {"register", "wait", "poll", "update"} /\ ~linked => monitored \/ shutdowns # <<>>

\* The message that startup waits for is still to come; an activation follows
\* the confirmation it belongs to.
MessageComing ==
    /\ main = "register" /\ linked =>
          /\ registration = "requested" \/ toEngine # <<>>
          /\ \A i \in DOMAIN toEngine :
                toEngine[i] = RegisterResponse("OK") =>
                   registration = "registered" \/ i + 1 \in DOMAIN toEngine
    /\ main = "wait" /\ linked => registration = "registered" \/ toEngine # <<>>

\* What a poll reported is still there when its turn comes.
PolledReady ==
    /\ main \in {"register", "wait"} => polled = {}
    /\ main \in {"poll", "update"} =>
          /\ "validator" \in polled => toEngine # <<>>
          /\ "monitor" \in polled => monitored
          /\ "service" \in polled => serviceOut # <<>>
          /\ "shutdown" \in polled => shutdowns # <<>>

\* The implementation of the present pass has not returned and is not stuck.
ImplRunning ==
    main \in {"poll", "update", "shutdown"} =>
       impl[gen] \in {"begin", "select", "handle"} \cup InCall

StandInv == LossNoticed /\ MessageComing /\ PolledReady /\ ImplRunning

\* A pipe that was written to is not empty.
LEMMA AppendNonempty == ASSUME NEW S, NEW s \in Seq(S), NEW x PROVE Append(s, x) # <<>>
<1>1. Len(s) \in Nat /\ Len(Append(s, x)) = Len(s) + 1
  OBVIOUS
<1>2. Len(<<>>) = 0
  BY Zenon
<1> QED BY <1>1, <1>2

\* StandInv holds before the first connection.
LEMMA InitStand == Init => StandInv
BY DEF Init, StandInv, LossNoticed, MessageComing, PolledReady, ImplRunning

\* An engine that is not running has nothing to keep.
LEMMA NotRunning ==
    ASSUME main' \notin {"register", "wait", "poll", "update", "shutdown"} PROVE StandInv'
BY DEF StandInv, LossNoticed, MessageComing, PolledReady, ImplRunning

\* A reply is read while the engine registers.
LEMMA RegisterStand == ASSUME TypeOK, RegisterInv, StandInv, Register PROVE StandInv'
<1>1. /\ main = "register" /\ toEngine # <<>> /\ toEngine' = Tail(toEngine)
      /\ UNCHANGED <<polled, gen, linked, monitored, shutdowns>>
      /\ RegisterOK(Head(toEngine)) \/ RegisterNotReady(Head(toEngine)) \/ RegisterFails(Head(toEngine))
  BY DEF Register, shutdownVars
<1>2. /\ 1 \in DOMAIN toEngine /\ Head(toEngine) = toEngine[1]
      /\ \A i \in DOMAIN Tail(toEngine) :
            i + 1 \in DOMAIN toEngine /\ i \in Nat /\ Tail(toEngine)[i] = toEngine[i + 1]
  BY <1>1, TailElements, Zenon DEF TypeOK, TypeOKValidator
<1>3. main' \in {"register", "wait", "poll", "failed"}
  BY <1>1 DEF RegisterOK, RegisterNotReady, RegisterFails, Activate, Fail
<1>4. LossNoticed' /\ PolledReady'
  BY <1>1, <1>3 DEF StandInv, LossNoticed, PolledReady
<1>5. ImplRunning'
  <2>1. CASE Activate
    <3>1. impl' = [impl EXCEPT ![gen] = "begin"] /\ gen \in Gens /\ impl \in [Gens -> ImplPlaces]
      BY <1>1, <2>1, ZenonT(30) DEF Activate, TypeOK, TypeOKEngine, TypeOKImpl
    <3> QED BY <1>1, <3>1, Zenon DEF ImplRunning
  <2>2. CASE ~Activate
    <3>1. main' \in {"register", "wait", "failed"}
      BY <1>1, <2>2, Zenon DEF RegisterOK, RegisterNotReady, RegisterFails, Fail
    <3> QED BY <3>1 DEF ImplRunning
  <2> QED BY <2>1, <2>2
<1>6. MessageComing'
  <2>1. CASE main' \in {"poll", "failed"} \/ ~linked
    BY <1>1, <2>1 DEF MessageComing
  <2>2. CASE linked /\ RegisterOK(Head(toEngine)) /\ main' = "wait"
    <3>1. toEngine[1] = RegisterResponse("OK") /\ UNCHANGED registration
      BY <1>2, <2>2, Zenon DEF RegisterOK, Activate
    <3>2. registration = "registered" \/ 2 \in DOMAIN toEngine
      BY <1>1, <1>2, <2>2, <3>1 DEF StandInv, MessageComing
    <3>3. 2 \in DOMAIN toEngine => Tail(toEngine) # <<>>
      <4>1. toEngine \in Seq(ValidatorMessages) /\ Len(toEngine) \in Nat /\ DOMAIN toEngine = 1..Len(toEngine)
        BY LenProperties DEF TypeOK, TypeOKValidator
      <4>2. Len(Tail(toEngine)) = Len(toEngine) - 1
        BY <1>1, <4>1, HeadTailProperties
      <4>3. 2 \in DOMAIN toEngine => Len(Tail(toEngine)) # 0
        BY <4>1, <4>2
      <4>4. Tail(toEngine) = <<>> => Len(Tail(toEngine)) = 0
        BY EmptySeq, Zenon
      <4> QED BY <4>3, <4>4, Zenon
    <3> QED BY <1>1, <2>2, <3>1, <3>2, <3>3, Zenon DEF MessageComing
  <2>3. CASE linked /\ RegisterNotReady(Head(toEngine))
    <3>1. main' = "register" /\ registration' = "requested" /\ IsAnswer(toEngine[1])
      BY <1>1, <1>2, <2>3, SMTT(30) DEF RegisterNotReady, RegisterResponse, IsAnswer
    <3>2. \A i \in DOMAIN toEngine : IsAnswer(toEngine[i]) => i = 1
      BY <1>1, <1>2, <2>3, <3>1, Zenon DEF RegisterInv, Registering
    <3>3. \A i \in DOMAIN toEngine' : ~IsAnswer(toEngine'[i])
      BY <1>1, <1>2, <3>2
    <3>4. IsAnswer(RegisterResponse("OK"))
      BY DEF IsAnswer, RegisterResponse
    <3>5. \A i \in DOMAIN toEngine' : toEngine'[i] # RegisterResponse("OK")
      BY <3>3, <3>4, Zenon
    <3> QED BY <3>1, <3>5, ZenonT(30) DEF MessageComing
  <2> QED BY <1>1, <1>3, <2>1, <2>2, <2>3, Zenon DEF RegisterOK, RegisterFails, Activate, Fail
<1> QED BY <1>4, <1>5, <1>6, Zenon DEF StandInv

\* Every step of the engine goroutine keeps StandInv.
LEMMA EngineStand == ASSUME TypeOK, RegisterInv, StandInv, Engine PROVE StandInv'
<1>0. shutdowns \in Seq({"restart", "shutdown"})
  BY Zenon DEF TypeOK, TypeOKEngine
<1>1. CASE Start
  BY <1>1 DEF Start, StandInv, LossNoticed, MessageComing, PolledReady, ImplRunning
<1>2. CASE WaitUntilActive
  <2>1. /\ main = "wait" /\ UNCHANGED <<polled, gen, linked, monitored, shutdowns>>
        /\ main' = "failed" \/ Activate
    BY <1>2 DEF WaitUntilActive, Fail, shutdownVars
  <2>2. CASE Activate
    <3>1. main' = "poll" /\ impl' = [impl EXCEPT ![gen] = "begin"]
      BY <2>2, Zenon DEF Activate
    <3>2. gen \in Gens /\ impl \in [Gens -> ImplPlaces]
      BY <2>1 DEF TypeOK, TypeOKEngine, TypeOKImpl
    <3>3. ImplRunning'
      BY <2>1, <3>1, <3>2, Zenon DEF ImplRunning
    <3>4. LossNoticed' /\ MessageComing' /\ PolledReady'
      BY <2>1, <3>1 DEF StandInv, LossNoticed, MessageComing, PolledReady
    <3> QED BY <3>3, <3>4 DEF StandInv
  <2> QED BY <2>1, <2>2, NotRunning, Zenon
<1>3. CASE StartupShutdown \/ PerformShutdown \/ CloseChannel \/ ShutdownService \/ CloseSockets
  <2>1. main' \in {"failed", "start", "stopped", "closing", "cutting", "leaving"}
    BY <1>3, Zenon DEF StartupShutdown, PerformShutdown, CloseChannel, ShutdownService,
                       CloseSockets, Fail
  <2> QED BY <2>1, NotRunning, Zenon
<1>4. CASE Poll
  <2>1. /\ main = "poll" /\ polled' = {s \in Sockets : Readable(s)}
        /\ UNCHANGED <<main, gen, impl, linked, monitored, shutdowns, toEngine, serviceOut>>
    BY <1>4 DEF Poll, implVars, shutdownVars, serviceVars
  <2>2. PolledReady'
    BY <2>1, Zenon DEF PolledReady, Readable
  <2>3. LossNoticed' /\ MessageComing' /\ ImplRunning'
    BY <2>1 DEF StandInv, LossNoticed, MessageComing, ImplRunning
  <2> QED BY <2>2, <2>3, Zenon DEF StandInv
<1>5. CASE ReceiveValidator
  <2>1. /\ main = "poll" /\ polled' = polled \ {"validator"}
        /\ UNCHANGED <<gen, monitored, shutdowns, serviceOut>>
        /\ (main' \in {"poll", "update"} /\ UNCHANGED <<linked, impl>>) \/ main' = "crashed"
    BY <1>5, Zenon DEF ReceiveValidator, Turn, ReceiveNotification, ReceivePing, ReceiveResponse, Crash,
                shutdownVars
  <2>2. CASE main' \in {"poll", "update"} /\ UNCHANGED <<linked, impl>>
    <3>1. LossNoticed' /\ MessageComing' /\ ImplRunning'
      BY <2>1, <2>2 DEF StandInv, LossNoticed, MessageComing, ImplRunning
    <3>2. PolledReady'
      BY <2>1, <2>2, Zenon DEF StandInv, PolledReady
    <3> QED BY <3>1, <3>2, Zenon DEF StandInv
  <2> QED BY <2>1, <2>2, NotRunning
<1>6. CASE HandleUpdate
  <2>1. /\ main = "update" /\ main' = "poll"
        /\ UNCHANGED <<polled, gen, impl, linked, monitored, shutdowns, toEngine, serviceOut>>
    BY <1>6, Zenon DEF HandleUpdate, implVars, shutdownVars, serviceVars
  <2>2. LossNoticed' /\ MessageComing' /\ ImplRunning'
    BY <2>1, ZenonT(30) DEF StandInv, LossNoticed, MessageComing, ImplRunning
  <2>3. PolledReady'
    BY <2>1 DEF StandInv, PolledReady
  <2> QED BY <2>2, <2>3 DEF StandInv
<1>7. CASE ReceiveMonitor
  <2>1. /\ main = "poll" /\ polled' = polled \ {"monitor"}
        /\ UNCHANGED <<main, gen, impl, linked, toEngine, serviceOut>>
    BY <1>7, Zenon DEF ReceiveMonitor, Turn, implVars, serviceVars
  <2>2. shutdowns' # <<>>
    BY <1>0, <1>7, AppendNonempty, Zenon DEF ReceiveMonitor
  <2>3. LossNoticed' /\ MessageComing' /\ ImplRunning'
    BY <2>1, <2>2 DEF StandInv, LossNoticed, MessageComing, ImplRunning
  <2>4. PolledReady'
    BY <2>1, <2>2, Zenon DEF StandInv, PolledReady
  <2> QED BY <2>3, <2>4 DEF StandInv
<1>8. CASE ReceiveService
  <2>1. /\ main = "poll" /\ polled' = polled \ {"service"}
        /\ UNCHANGED <<main, gen, impl, linked, monitored, shutdowns, toEngine>>
    BY <1>8, ZenonT(30) DEF ReceiveService, Turn, implVars, shutdownVars
  <2>2. LossNoticed' /\ MessageComing' /\ ImplRunning'
    BY <2>1 DEF StandInv, LossNoticed, MessageComing, ImplRunning
  <2>3. PolledReady'
    BY <2>1, ZenonT(30) DEF StandInv, PolledReady
  <2> QED BY <2>2, <2>3 DEF StandInv
<1>9. CASE ReceiveShutdown
  <2>1. main = "poll" /\ main' = "shutdown" /\ UNCHANGED <<gen, impl>>
    BY <1>9 DEF ReceiveShutdown, Turn, implVars
  <2> QED BY <2>1 DEF StandInv, LossNoticed, MessageComing, PolledReady, ImplRunning
<1> QED BY <1>1, <1>2, <1>3, <1>4, <1>5, <1>6, <1>7, <1>8, <1>9, RegisterStand, Zenon DEF Engine

\* The goroutine of the present pass uses the service of that pass.
LEMMA PresentService ==
    ASSUME TypeOK, CallInv, gen \in Gens, impl[gen] \in InCall PROVE using[gen] = gen
<1>1. using[gen] # 0 /\ gen <= using[gen] /\ ~Fresh(using[gen])
  BY Zenon DEF CallInv, Calling
<1>2. gen \in Nat /\ using[gen] \in Nat
  BY GensNat DEF TypeOK, TypeOKImpl
<1> QED BY <1>1, <1>2 DEF Fresh

\* The goroutine of the present pass goes on: it finds its service open, and no
\* update makes it return.
LEMMA PresentGoesOn ==
    ASSUME TypeOK, ChannelInv, CallInv, main \in {"poll", "update", "shutdown"},
           impl[gen] \in {"begin", "select", "handle"} \cup InCall,
           Impl(gen), UNCHANGED main
    PROVE  impl'[gen] \in {"begin", "select", "handle"} \cup InCall
<1>1. gen \in Gens /\ ~cut[gen]
  BY Zenon DEF ChannelInv, TypeOK, TypeOKEngine
<1>2. impl \in [Gens -> ImplPlaces]
  BY DEF TypeOK, TypeOKImpl
<1>3. ~Crash
  BY DEF Crash
<1>4. CASE ImplTake(gen)
  <2>1. Head(updates[gen]) \in Updates
    BY <1>1, <1>4, HeadTailProperties, Zenon DEF ImplTake, TypeOK, TypeOKImpl
  <2>2. AfterUpdate(Head(updates[gen])) \in {"handle", "select"}
    BY <2>1, Zenon DEF Updates, AfterUpdate
  <2>3. impl' = [impl EXCEPT ![gen] = AfterUpdate(Head(updates[gen]))]
    BY <1>4, Zenon DEF ImplTake, At
  <2> QED BY <1>1, <1>2, <2>2, <2>3, Zenon
<1>5. CASE ImplBegin(gen) \/ ImplTurn(gen) \/ RpcForget(gen)
  BY <1>1, <1>2, <1>5, Zenon DEF ImplBegin, ImplTurn, RpcForget, At
<1>6. CASE RpcRecord(gen) \/ RpcLook(gen)
  BY <1>1, <1>2, <1>6, Zenon DEF RpcRecord, RpcLook, At, InCall
<1>7. CASE RpcReceive(gen)
  BY <1>1, <1>2, <1>7, Zenon DEF RpcReceive, At, InCall
<1>8. CASE RpcSend(gen)
  <2>1. At(gen, "handle", "sent") \/ CallFails(gen, "handle")
    BY <1>8, Zenon DEF RpcSend
  <2> QED BY <1>1, <1>2, <1>3, <2>1 DEF CallFails, At, InCall
<1>9. CASE RpcClosed(gen)
  <2>1. impl[gen] = "recv" /\ cut[using[gen]]
    BY <1>9, Zenon DEF RpcClosed
  <2>2. using[gen] = gen
    BY <1>1, <2>1, PresentService, Zenon DEF InCall
  <2> QED BY <1>1, <2>1, <2>2, Zenon
<1>10. CASE RpcRace(gen)
  BY <1>3, <1>10, Zenon DEF RpcRace
<1> QED BY <1>4, <1>5, <1>6, <1>7, <1>8, <1>9, <1>10, Zenon DEF Impl

\* Every step of an implementation keeps StandInv.
LEMMA ImplStand ==
    ASSUME TypeOK, ChannelInv, CallInv, StandInv, NEW g \in Gens, Impl(g) PROVE StandInv'
<1>1. UNCHANGED <<polled, gen, toEngine, registration, monitored, shutdowns>>
  BY ImplSteps, Zenon DEF rest, shutdownVars, validatorVars
<1>2. UNCHANGED <<main, linked>> \/ main' = "crashed"
  BY ImplSteps, Zenon
<1>3. CASE UNCHANGED <<main, linked>> /\ main # "crashed"
  <2>1. LossNoticed' /\ MessageComing'
    BY <1>1, <1>3, Zenon DEF StandInv, LossNoticed, MessageComing
  <2>2. PolledReady'
    <3>1. serviceOut' = serviceOut \/ serviceOut' = Append(serviceOut, nextCall)
      BY Zenon DEF Impl, ImplBegin, ImplTake, ImplTurn, RpcSend, RpcRecord, RpcLook, RpcReceive,
             RpcClosed, RpcForget, RpcRace, serviceVars
    <3>2. serviceOut # <<>> => serviceOut' # <<>>
      BY <3>1, AppendNonempty, Zenon DEF TypeOK, TypeOKImpl
    <3> QED BY <1>1, <1>3, <3>2, ZenonT(30) DEF StandInv, PolledReady
  <2>3. ImplRunning'
    <3> SUFFICES ASSUME main \in {"poll", "update", "shutdown"}
                 PROVE  impl'[gen] \in {"begin", "select", "handle"} \cup InCall
        BY <1>1, <1>3, ZenonT(30) DEF ImplRunning
    <3>1. gen \in Gens /\ impl[gen] \in {"begin", "select", "handle"} \cup InCall
      BY DEF StandInv, ImplRunning, TypeOK, TypeOKEngine
    <3>2. CASE g = gen
      BY <1>3, <3>1, <3>2, PresentGoesOn, Zenon
    <3>3. CASE g # gen
      <4>1. ~Crash
        BY <1>3, Zenon DEF Crash
      <4>2. \/ UNCHANGED impl
            \/ \E there : impl' = [impl EXCEPT ![g] = there]
        BY <4>1, ZenonT(30) DEF Impl, ImplBegin, ImplTake, ImplTurn, RpcSend, RpcRecord, RpcLook,
             RpcReceive, RpcClosed, RpcForget, RpcRace, CallFails, At
      <4>3. impl'[gen] = impl[gen]
        BY <3>1, <3>3, <4>2, Zenon DEF TypeOK, TypeOKImpl
      <4> QED BY <3>1, <4>3, Zenon
    <3> QED BY <3>2, <3>3
  <2> QED BY <2>1, <2>2, <2>3 DEF StandInv
<1> QED BY <1>2, <1>3, NotRunning

\* The validator sends a message, after which it takes an engine it confirms
\* for registered.
LEMMA SendStand ==
    ASSUME TypeOK, StandInv, NEW m, ValidatorSend(m),
           UNCHANGED <<main, linked, polled, gen, impl, serviceOut, monitored, shutdowns>>,
           m = RegisterResponse("OK") => registration' = "registered"
    PROVE  StandInv'
<1>1. toEngine \in Seq(ValidatorMessages) /\ toEngine' = Append(toEngine, m)
  BY DEF TypeOK, TypeOKValidator, ValidatorSend
<1>2. toEngine' # <<>>
  BY <1>1, AppendNonempty, Zenon
<1>3. /\ DOMAIN toEngine' = DOMAIN toEngine \cup {Len(toEngine) + 1}
      /\ \A i \in DOMAIN toEngine : toEngine'[i] = toEngine[i]
      /\ toEngine'[Len(toEngine) + 1] = m
  BY <1>1, AppendElements, SMTT(30)
<1>4. LossNoticed' /\ PolledReady' /\ ImplRunning'
  BY <1>2 DEF StandInv, LossNoticed, PolledReady, ImplRunning
<1>5. ASSUME main = "register", linked, NEW i \in DOMAIN toEngine', toEngine'[i] = RegisterResponse("OK")
      PROVE  registration' = "registered" \/ i + 1 \in DOMAIN toEngine'
  <2>1. CASE i \in DOMAIN toEngine
    <3>1. DOMAIN toEngine = 1..Len(toEngine) /\ Len(toEngine) \in Nat
      BY <1>1, LenProperties, Zenon
    <3> QED BY <1>3, <2>1, <3>1
  <2>2. CASE i \notin DOMAIN toEngine
    BY <1>3, <1>5, <2>2, Zenon
  <2> QED BY <2>1, <2>2, Zenon
<1>6. MessageComing'
  BY <1>2, <1>5 DEF MessageComing
<1> QED BY <1>4, <1>6, Zenon DEF StandInv

\* Every step of the validator, the network and the user keeps StandInv.
LEMMA EnvironmentStand == ASSUME TypeOK, StandInv, Environment PROVE StandInv'
<1>1. UNCHANGED <<main, polled, gen, impl, serviceOut>>
  <2>1. UNCHANGED programVars
    BY Zenon DEF Environment, ValidatorRegisters, ValidatorActivates, ValidatorNotifies,
           ValidatorPings, ValidatorAnswers, ValidatorRepeats, Disconnect, Shutdown
  <2> QED BY <2>1, Zenon DEF programVars, engineVars, implVars, serviceVars
<1>2. CASE ValidatorRegisters
  <2>1. PICK c \in Confirmations : registration' = c[2] /\ ValidatorSend(RegisterResponse(c[1]))
    BY <1>2, Zenon DEF ValidatorRegisters
  <2>2. RegisterResponse(c[1]) = RegisterResponse("OK") => registration' = "registered"
    BY <2>1, SMTT(30) DEF Confirmations, RegisterResponse
  <2>3. UNCHANGED <<linked, monitored, shutdowns>>
    BY <1>2 DEF ValidatorRegisters, shutdownVars
  <2> DEFINE m == RegisterResponse(c[1])
  <2>4. ValidatorSend(m) /\ (m = RegisterResponse("OK") => registration' = "registered")
    BY <2>1, <2>2
  <2> HIDE DEF m
  <2> QED BY <1>1, <2>3, <2>4, SendStand, Zenon
<1>3. ASSUME NEW c,
             \/ ValidatorActivates \/ ValidatorNotifies \/ ValidatorPings
             \/ ValidatorAnswers(c) \/ ValidatorRepeats(c)
      PROVE  StandInv'
  <2>1. PICK type \in MessageTypes \ {"REGISTER_RESPONSE"} : \E id : ValidatorSend(Msg(type, id))
    BY <1>3 DEF ValidatorActivates, ValidatorNotifies, ValidatorPings, ValidatorAnswers,
                ValidatorRepeats, MessageTypes
  <2>2. PICK id : ValidatorSend(Msg(type, id))
    BY <2>1, ZenonT(30)
  <2> DEFINE m == Msg(type, id)
  <2>3. ValidatorSend(m) /\ m # RegisterResponse("OK")
    BY <2>1, <2>2, Zenon DEF Msg, RegisterResponse
  <2>4. UNCHANGED <<linked, monitored, shutdowns>>
    BY <1>3, Zenon DEF ValidatorActivates, ValidatorNotifies, ValidatorPings, ValidatorAnswers,
                ValidatorRepeats, shutdownVars
  <2> HIDE DEF m
  <2> QED BY <1>1, <2>3, <2>4, SendStand, ZenonT(30)
<1>4. CASE Disconnect
  <2>1. ~linked' /\ monitored' /\ UNCHANGED <<toEngine, shutdowns>>
    BY <1>4, Zenon DEF Disconnect
  <2>2. PolledReady'
    BY <1>1, <2>1 DEF StandInv, PolledReady
  <2> QED BY <1>1, <2>1, <2>2, Zenon DEF StandInv, LossNoticed, MessageComing, ImplRunning
<1>5. CASE Shutdown
  <2>1. UNCHANGED <<toEngine, linked, monitored, registration>>
    BY <1>5, Zenon DEF Shutdown, validatorVars
  <2>2. shutdowns # <<>> => shutdowns' # <<>>
    BY <1>5, AppendNonempty DEF Shutdown, TypeOK, TypeOKEngine
  <2>3. PolledReady' /\ LossNoticed'
    BY <1>1, <2>1, <2>2, Zenon DEF StandInv, PolledReady, LossNoticed
  <2>4. MessageComing' /\ ImplRunning'
    BY <1>1, <2>1 DEF StandInv, MessageComing, ImplRunning
  <2> QED BY <2>3, <2>4, Zenon DEF StandInv
<1> QED BY <1>2, <1>3, <1>4, <1>5, Zenon DEF Environment

\* StandInv holds in every reachable state.
LEMMA StandHeld == Spec => []StandInv
<1>1. EngineInv /\ StandInv /\ [Next]_vars => StandInv'
  <2> SUFFICES ASSUME TypeOK, ChannelInv, CallInv, RegisterInv, StandInv, [Next]_vars
               PROVE  StandInv'
    BY Zenon DEF EngineInv
  <2>1. CASE UNCHANGED vars
    <3>1. UNCHANGED <<main, polled, gen, impl, serviceOut, toEngine, linked, monitored, shutdowns,
                      registration>>
      BY <2>1 DEF vars, engineVars, implVars, serviceVars, shutdownVars, validatorVars
    <3> QED BY <3>1, Zenon DEF StandInv, LossNoticed, MessageComing, PolledReady, ImplRunning
  <2> QED BY <2>1, EngineStand, ImplStand, EnvironmentStand, Zenon DEF Next
<1> QED BY <1>1, InitStand, InvHeld, PTL DEF Spec

\* Nothing but a full channel and an implementation in a call can hold up the
\* engine, for any capacity of the channel: startup waits for a message that is
\* to come, the loop hears of a lost connection and finds a notification that
\* is left, and the implementation of the present pass never stops.
THEOREM EngineGoesOn == Spec => []OneStandstill
<1>1. EngineInv /\ DeliveryInv /\ StandInv => OneStandstill
  <2> SUFFICES ASSUME TypeOK, CallInv, DeliveryInv, StandInv PROVE OneStandstill
    BY Zenon DEF EngineInv
  <2>1. ASSUME main = "poll", ~linked \/ acked < notes
        PROVE  \E s \in Sockets : Readable(s) /\ (polled = {} \/ s \in polled)
    <3>1. CASE polled # {}
      <4>1. PICK s \in Sockets : s \in polled
        BY <3>1 DEF TypeOK, TypeOKEngine
      <4>2. Readable(s)
        BY <2>1, <4>1, Zenon DEF StandInv, PolledReady, Sockets, Readable
      <4> QED BY <4>1, <4>2, Zenon
    <3>2. ASSUME acked < notes PROVE toEngine # <<>>
      <4>1. Carries(toEngine, "NOTIFY", (acked + 1)..notes)
        BY <2>1, Zenon DEF DeliveryInv, Delivered, LastRead
      <4>2. acked + 1 \in (acked + 1)..notes
        BY <3>2 DEF TypeOK, TypeOKValidator
      <4>3. acked + 1 \in {toEngine[i].id : i \in Places(toEngine, "NOTIFY")}
        BY <4>1, <4>2, CarriesPlaces, Zenon
      <4>4. PICK i \in Places(toEngine, "NOTIFY") : TRUE
        BY <4>3, Zenon
      <4>5. i \in DOMAIN toEngine
        BY <4>4, Zenon DEF Places
      <4> QED BY <4>5, SMTT(30)
    <3>3. CASE polled = {}
      <4>1. toEngine # <<>> \/ monitored \/ shutdowns # <<>>
        BY <2>1, <3>2 DEF StandInv, LossNoticed
      <4>2. \E s \in Sockets : Readable(s)
        BY <4>1, Zenon DEF Sockets, Readable
      <4> QED BY <3>3, <4>2, Zenon
    <3> QED BY <3>1, <3>3
  <2>2. ASSUME main \in {"update", "shutdown"}
        PROVE  \/ impl[gen] \in {"begin", "select", "handle", "sent", "look", "got"}
               \/ impl[gen] = "recv" /\ call[gen] # NoCall
    <3>1. gen \in Gens
      BY <2>2 DEF TypeOK, TypeOKEngine
    <3>2. impl[gen] \in {"begin", "select", "handle"} \cup InCall
      BY <2>2, Zenon DEF StandInv, ImplRunning
    <3>3. impl[gen] = "recv" => call[gen] # NoCall
      BY <3>1, Zenon DEF CallInv, Calling, InCall
    <3> QED BY <3>2, <3>3, Zenon DEF InCall
  <2>3. /\ main = "register" /\ linked => registration = "requested" \/ toEngine # <<>>
        /\ main = "wait" /\ linked => registration = "registered" \/ toEngine # <<>>
        /\ main = "poll" /\ ~linked => monitored \/ shutdowns # <<>>
    BY DEF StandInv, MessageComing, LossNoticed
  <2> QED BY <2>1, <2>2, <2>3, Zenon DEF OneStandstill
<1> QED BY <1>1, InvHeld, DeliveryHeld, StandHeld, PTL
=============================================================================
