-------------------------- MODULE ConsensusEngine ---------------------------
(***************************************************************************)
(* The consensus engine of consensus/engine.go and service.go: one engine  *)
(* goroutine (start) between the validator's connection, the goroutine of  *)
(* the ConsensusEngineImpl, which it feeds through the bounded updateChan, *)
(* and the ZmqService, through which the implementation calls the          *)
(* validator and waits for the answer.                                     *)
(*                                                                         *)
(* Each pass of the loop in Start() makes a channel, a service and an      *)
(* implementation goroutine of its own; `gen' numbers the passes.  Nobody  *)
(* waits for the goroutine of an earlier pass.  The implementation is the  *)
(* loop of examples/devmode_consensus; what its handlers compute is left   *)
(* out, and they may call the service at any time.  All its goroutines run *)
(* on one value, and each sets the service in that value when it begins:   *)
(* the goroutine of an earlier pass then calls through the later service,  *)
(* and the other way round when it begins late.  The validator and ZeroMQ  *)
(* are external.                                                           *)
(*                                                                         *)
(* An operator named Slip... is a definition as a plausible mistake in the *)
(* code would have made it; no specification uses it.                      *)
(***************************************************************************)
EXTENDS Naturals, Sequences

CONSTANTS
    ChanSize,        \* capacity of updateChan
    MaxCalls,        \* bound: calls of the service, and answers repeated
    MaxNotes,        \* bound: notifications sent by the validator
    Malformed,       \* the notifications whose content does not unmarshal
    MaxPings,        \* bound: PING_REQUESTs sent
    MaxNotReady,     \* bound: registrations answered NOT_READY
    MaxDisconnects   \* bound: connections lost

ASSUME BoundsAssumption ==
    /\ ChanSize \in Nat \ {0}
    /\ MaxCalls \in Nat /\ MaxNotes \in Nat /\ MaxPings \in Nat
    /\ MaxNotReady \in Nat /\ MaxDisconnects \in Nat
    /\ Malformed \subseteq Nat

VARIABLES
    main,         \* where the engine goroutine is
    cause,        \* the shutdown command it obeys, or why Start() failed
    polled,       \* sockets the last Poll reported and not yet handled
    pending,      \* the notification handleUpdate is handing over
    gen,          \* passes of the loop in Start()
    impl,         \* where the implementation goroutine of each pass is
    field,        \* the pass whose service the implementation's value holds
    using,        \* the pass whose service its present handler calls, or 0
    call,         \* the correlation id it waits for
    nextCall,     \* the next fresh correlation id
    taken,        \* the last notification it has taken off its channel
    told,         \* it has taken the shutdown update off its channel
    corrIds,      \* the ids the service of each pass has recorded
    saved,        \* the `incoming' store of that service's connection
    updates,      \* updateChan of each pass
    closed,       \* that channel is closed
    cut,          \* that service is shut down
    serviceOut,   \* pipe from the service to the engine
    serviceIn,    \* pipe from the engine to the service
    toEngine,     \* pipe from the validator
    linked,       \* the validator connection is open at both ends
    monitored,    \* a DISCONNECTED event waits on the monitor socket
    shutdowns,    \* commands waiting on the shutdown socket
    asked,        \* Shutdown() has been called
    registration, \* what the validator knows of this engine
    calls,        \* service calls the validator has still to answer
    notes,        \* notifications the validator has sent
    acked,        \* the last notification acknowledged
    pings,        \* pings the validator has sent
    pongs,        \* pings answered, or lost with their connection
    notReady, repeats, disconnects

engineVars    == <<main, cause, polled, pending, gen>>
callVars      == <<using, call, nextCall>>
takenVars     == <<taken, told>>
storeVars     == <<corrIds, saved>>
implVars      == <<impl, field, callVars, takenVars, storeVars>>
chanVars      == <<updates, closed, cut>>
serviceVars   == <<serviceOut, serviceIn>>
shutdownVars  == <<monitored, shutdowns, asked>>
validatorVars == <<registration, calls>>
countVars     == <<pings, pongs, notReady, repeats, disconnects>>
vars == <<engineVars, implVars, chanVars, serviceVars, toEngine, linked,
          shutdownVars, validatorVars, notes, acked, countVars>>

CallIds == 1..MaxCalls
NoCall  == 0
Gens    == 1..(MaxDisconnects + 1)
Msg(type, id) == [type |-> type, id |-> id]
RegisterResponse(s) == [type |-> "REGISTER_RESPONSE", status |-> s]

\* What goes through updateChan.  performShutdown sends a pointer, the other
\* updates are values: a type switch tells the two apart.
Update(n) == [type |-> "Update", id |-> n]
ShutdownUpdate == [type |-> "*UpdateShutdown", id |-> 0]

Sockets == {"validator", "monitor", "service", "shutdown"}

Init ==
    /\ main = "start" /\ cause = "none" /\ polled = {} /\ pending = 0 /\ gen = 0
    /\ impl = [g \in Gens |-> "none"]
    /\ field = 0
    /\ using = [g \in Gens |-> 0]
    /\ call = [g \in Gens |-> NoCall]
    /\ nextCall = 1
    /\ taken = [g \in Gens |-> 0]
    /\ told = [g \in Gens |-> FALSE]
    /\ corrIds = [g \in Gens |-> {}]
    /\ saved = [g \in Gens |-> {}]
    /\ updates = [g \in Gens |-> <<>>]
    /\ closed = [g \in Gens |-> FALSE]
    /\ cut = [g \in Gens |-> FALSE]
    /\ serviceOut = <<>> /\ serviceIn = <<>>
    /\ toEngine = <<>> /\ linked = FALSE
    /\ monitored = FALSE /\ shutdowns = <<>> /\ asked = FALSE
    /\ registration = "none" /\ calls = {}
    /\ notes = 0 /\ acked = 0
    /\ pings = 0 /\ pongs = 0 /\ notReady = 0 /\ repeats = 0 /\ disconnects = 0
-----------------------------------------------------------------------------
(* The engine goroutine: connection, registration and activation.          *)

\* Slip: the connection keeps its identity, and the validator answers the calls
\* of the lost one.
SlipStart ==
    /\ main = "start" /\ gen + 1 \in Gens
    /\ main' = "register" /\ cause' = "none" /\ polled' = {} /\ gen' = gen + 1
    /\ taken' = [taken EXCEPT ![gen + 1] = notes]
    /\ acked' = notes /\ pongs' = pings
    /\ serviceOut' = <<>> /\ serviceIn' = <<>>
    /\ toEngine' = <<>> /\ linked' = TRUE
    /\ monitored' = FALSE /\ shutdowns' = <<>>
    /\ registration' = "requested"
    /\ UNCHANGED <<pending, impl, field, callVars, told, storeVars, chanVars,
                   asked, calls, notes, pings, notReady, repeats, disconnects>>

\* A pass of the loop in Start(): fresh sockets and the registration request.
\* The connection has a new identity: answers to earlier calls do not reach it.
Start ==
    /\ main = "start" /\ gen + 1 \in Gens
    /\ main' = "register" /\ cause' = "none" /\ polled' = {} /\ gen' = gen + 1
    /\ taken' = [taken EXCEPT ![gen + 1] = notes]
    /\ acked' = notes /\ pongs' = pings
    /\ serviceOut' = <<>> /\ serviceIn' = <<>>
    /\ toEngine' = <<>> /\ linked' = TRUE
    /\ monitored' = FALSE /\ shutdowns' = <<>>
    /\ registration' = "requested" /\ calls' = {}
    /\ UNCHANGED <<pending, impl, field, callVars, told, storeVars, chanVars,
                   asked, notes, pings, notReady, repeats, disconnects>>

\* A panic or a runtime error ends the program with all its goroutines.
Crash ==
    /\ main' = "crashed"
    /\ impl' = [g \in Gens |-> "none"]
    /\ linked' = FALSE

Fail(why) == main' = "failed" /\ cause' = why

\* Slip: the implementation is not started.
SlipActivate ==
    /\ main' = "poll"
    /\ UNCHANGED <<cause, impl>>

\* The rest of start() before its loop: the channel, the service, and the
\* implementation in a goroutine of its own.
Activate ==
    /\ main' = "poll"
    /\ impl' = [impl EXCEPT ![gen] = "begin"]
    /\ UNCHANGED cause

\* Slip: a registration without startup state counts as an activation.
SlipRegisterOK(m) ==
    /\ m \in {RegisterResponse("OK"), RegisterResponse("OK_STATE")}
    /\ Activate
    /\ UNCHANGED registration

\* register() succeeds.  Validators up to 1.1 send the startup state with the
\* confirmation, later ones with an activation message.
RegisterOK(m) ==
    \/ m = RegisterResponse("OK_STATE") /\ Activate /\ UNCHANGED registration
    \/ /\ m = RegisterResponse("OK")
       /\ main' = "wait"
       /\ UNCHANGED <<cause, impl, registration>>

\* Slip: after NOT_READY the loop goes on without asking again.
SlipRegisterNotReady(m) ==
    /\ m = RegisterResponse("NOT_READY")
    /\ UNCHANGED <<main, cause, impl, registration>>

\* NOT_READY: ask again after the delay.
RegisterNotReady(m) ==
    /\ m = RegisterResponse("NOT_READY")
    /\ registration' = IF linked THEN "requested" ELSE registration
    /\ UNCHANGED <<main, cause, impl>>

RegisterFails(m) ==
    /\ m.type # "REGISTER_RESPONSE" \/ m = RegisterResponse("ERROR")
    /\ Fail(m.type)
    /\ UNCHANGED <<impl, registration>>

Register ==
    /\ main = "register" /\ toEngine # <<>>
    /\ toEngine' = Tail(toEngine)
    /\ LET m == Head(toEngine) IN
       RegisterOK(m) \/ RegisterNotReady(m) \/ RegisterFails(m)
    /\ UNCHANGED <<polled, pending, gen, field, callVars, takenVars, storeVars,
                   chanVars, serviceVars, linked, shutdownVars, calls, notes,
                   acked, countVars>>

\* waitUntilActive(): the activation message is acknowledged and starts the
\* implementation; any other message ends Start() with an error.
WaitUntilActive ==
    /\ main = "wait" /\ toEngine # <<>>
    /\ toEngine' = Tail(toEngine)
    /\ \/ /\ Head(toEngine).type = "ENGINE_ACTIVATED"
          /\ Activate
          /\ registration' = IF linked THEN "active" ELSE registration
       \/ /\ Head(toEngine).type # "ENGINE_ACTIVATED"
          /\ Fail(Head(toEngine).type)
          /\ UNCHANGED <<impl, registration>>
    /\ UNCHANGED <<polled, pending, gen, field, callVars, takenVars, storeVars,
                   chanVars, serviceVars, linked, shutdownVars, calls, notes,
                   acked, countVars>>

\* Both of them: a shutdown command, and nothing from the validator.
StartupShutdown ==
    /\ main \in {"register", "wait"} /\ toEngine = <<>> /\ shutdowns # <<>>
    /\ Fail("shutdown")
    /\ UNCHANGED <<polled, pending, gen, implVars, chanVars, serviceVars,
                   toEngine, linked, shutdownVars, validatorVars, notes, acked,
                   countVars>>
-----------------------------------------------------------------------------
(* The engine goroutine: the polling loop.                                 *)

Readable(socket) ==
    CASE socket = "validator" -> toEngine # <<>>
      [] socket = "monitor"   -> monitored
      [] socket = "service"   -> serviceOut # <<>>
      [] socket = "shutdown"  -> shutdowns # <<>>

\* poller.Poll(-1): the sockets readable now; each is then served once.
Poll ==
    /\ main = "poll" /\ polled = {}
    /\ polled' = {s \in Sockets : Readable(s)}
    /\ polled' # {}
    /\ UNCHANGED <<main, cause, pending, gen, implVars, chanVars, serviceVars,
                   toEngine, linked, shutdownVars, validatorVars, notes, acked,
                   countVars>>

\* The turn of a polled socket: the ones added to the poller before it are done.
Turn(socket, earlier) ==
    /\ main = "poll"
    /\ socket \in polled
    /\ polled \cap earlier = {}

\* A notification goes to handleUpdate.
ReceiveNotification(m) ==
    /\ m.type = "NOTIFY"
    /\ main' = "update" /\ pending' = m.id
    /\ UNCHANGED <<impl, linked, serviceIn, pongs>>

\* Slip: the ping is received and not answered.
SlipReceivePing(m) ==
    /\ m.type = "PING_REQUEST"
    /\ UNCHANGED <<main, pending, impl, linked, serviceIn, pongs>>

ReceivePing(m) ==
    /\ m.type = "PING_REQUEST"
    /\ pongs' = pongs + 1
    /\ UNCHANGED <<main, pending, impl, linked, serviceIn>>

\* Any other message goes to the service if it has recorded the correlation
\* id, and is dropped with a warning if not.  The lookup takes no lock: while
\* an implementation goroutine writes to the map, the Go runtime may stop the
\* program.
ReceiveResponse(m) ==
    /\ m.type \notin {"NOTIFY", "PING_REQUEST"}
    /\ \/ /\ serviceIn' = IF m.id \in corrIds[gen] THEN Append(serviceIn, m.id)
                                                   ELSE serviceIn
          /\ UNCHANGED <<main, impl, linked>>
       \/ /\ \E g \in Gens : using[g] = gen /\ impl[g] \in {"sent", "got"}
          /\ Crash
          /\ UNCHANGED serviceIn
    /\ UNCHANGED <<pending, pongs>>

ReceiveValidator ==
    /\ Turn("validator", {}) /\ toEngine # <<>>
    /\ polled' = polled \ {"validator"}
    /\ toEngine' = Tail(toEngine)
    /\ LET m == Head(toEngine) IN
       ReceiveNotification(m) \/ ReceivePing(m) \/ ReceiveResponse(m)
    /\ UNCHANGED <<cause, gen, field, callVars, takenVars, storeVars, chanVars,
                   serviceOut, shutdownVars, validatorVars, notes, acked, pings,
                   notReady, repeats, disconnects>>

\* Slip: without the break, content that does not unmarshal makes an update too.
SlipHandleUpdate ==
    /\ main = "update" /\ Len(updates[gen]) < ChanSize
    /\ updates' = [updates EXCEPT ![gen] = Append(@, Update(pending))]
    /\ main' = "poll" /\ pending' = 0
    /\ acked' = pending
    /\ UNCHANGED <<cause, polled, gen, implVars, closed, cut, serviceVars,
                   toEngine, linked, shutdownVars, validatorVars, notes,
                   countVars>>

\* handleUpdate() sends on updateChan, waiting for room, except that content
\* that does not unmarshal is only logged.  receiveValidator acknowledges the
\* notification in either case.
HandleUpdate ==
    /\ main = "update"
    /\ \/ /\ pending \notin Malformed /\ Len(updates[gen]) < ChanSize
          /\ updates' = [updates EXCEPT ![gen] = Append(@, Update(pending))]
       \/ pending \in Malformed /\ UNCHANGED updates
    /\ main' = "poll" /\ pending' = 0
    /\ acked' = pending
    /\ UNCHANGED <<cause, polled, gen, implVars, closed, cut, serviceVars,
                   toEngine, linked, shutdownVars, validatorVars, notes,
                   countVars>>

ReceiveMonitor ==
    /\ Turn("monitor", {"validator"})
    /\ polled' = polled \ {"monitor"}
    /\ monitored' = FALSE
    /\ shutdowns' = Append(shutdowns, "restart")
    /\ UNCHANGED <<main, cause, pending, gen, implVars, chanVars, serviceVars,
                   toEngine, linked, asked, validatorVars, notes, acked,
                   countVars>>

\* A call is passed on; on a lost connection it reaches nobody.
ReceiveService ==
    /\ Turn("service", {"validator", "monitor"}) /\ serviceOut # <<>>
    /\ polled' = polled \ {"service"}
    /\ serviceOut' = Tail(serviceOut)
    /\ calls' = IF linked THEN calls \cup {Head(serviceOut)} ELSE calls
    /\ UNCHANGED <<main, cause, pending, gen, implVars, chanVars, serviceIn,
                   toEngine, linked, shutdownVars, registration, notes, acked,
                   countVars>>

ReceiveShutdown ==
    /\ Turn("shutdown", {"validator", "monitor", "service"}) /\ shutdowns # <<>>
    /\ polled' = {}
    /\ main' = "shutdown" /\ cause' = Head(shutdowns)
    /\ shutdowns' = Tail(shutdowns)
    /\ UNCHANGED <<pending, gen, implVars, chanVars, serviceVars, toEngine,
                   linked, monitored, asked, validatorVars, notes, acked,
                   countVars>>

\* Slip: the last update does not wait for room.
SlipShutdownGrows ==
    /\ main = "shutdown"
    /\ main' = "closing"
    /\ updates' = [updates EXCEPT ![gen] = Append(@, ShutdownUpdate)]
    /\ UNCHANGED <<cause, polled, pending, gen, implVars, closed, cut,
                   serviceVars, toEngine, linked, shutdownVars, validatorVars,
                   notes, acked, countVars>>

\* Slip: the service is shut down before the implementation is told.
SlipPerformShutdown ==
    /\ main = "shutdown" /\ Len(updates[gen]) < ChanSize
    /\ IF cut[gen]
       THEN /\ main' = "closing"
            /\ updates' = [updates EXCEPT ![gen] = Append(@, ShutdownUpdate)]
            /\ UNCHANGED cut
       ELSE /\ cut' = [cut EXCEPT ![gen] = TRUE]
            /\ UNCHANGED <<main, updates>>
    /\ UNCHANGED <<cause, polled, pending, gen, implVars, closed, serviceVars,
                   toEngine, linked, shutdownVars, validatorVars, notes, acked,
                   countVars>>

\* Slip: the shutdown waits for the implementation to return.
SlipShutdownWaits ==
    /\ main = "shutdown" /\ impl[gen] = "returned"
    /\ main' = "closing"
    /\ UNCHANGED <<cause, polled, pending, gen, implVars, chanVars, serviceVars,
                   toEngine, linked, shutdownVars, validatorVars, notes, acked,
                   countVars>>

\* performShutdown() sends the last update, waiting for room ...
PerformShutdown ==
    /\ main = "shutdown" /\ Len(updates[gen]) < ChanSize
    /\ main' = "closing"
    /\ updates' = [updates EXCEPT ![gen] = Append(@, ShutdownUpdate)]
    /\ UNCHANGED <<cause, polled, pending, gen, implVars, closed, cut,
                   serviceVars, toEngine, linked, shutdownVars, validatorVars,
                   notes, acked, countVars>>

\* ... closes the channel ...
CloseChannel ==
    /\ main = "closing"
    /\ main' = "cutting"
    /\ closed' = [closed EXCEPT ![gen] = TRUE]
    /\ UNCHANGED <<cause, polled, pending, gen, implVars, updates, cut,
                   serviceVars, toEngine, linked, shutdownVars, validatorVars,
                   notes, acked, countVars>>

\* ... shuts the service down ...
ShutdownService ==
    /\ main = "cutting"
    /\ main' = "leaving"
    /\ cut' = [cut EXCEPT ![gen] = TRUE]
    /\ UNCHANGED <<cause, polled, pending, gen, implVars, updates, closed,
                   serviceVars, toEngine, linked, shutdownVars, validatorVars,
                   notes, acked, countVars>>

\* ... and closes the sockets.  Start() ends or begins again.
CloseSockets ==
    /\ main = "leaving"
    /\ main' = IF cause = "restart" THEN "start" ELSE "stopped"
    /\ serviceOut' = <<>> /\ serviceIn' = <<>>
    /\ linked' = FALSE
    /\ UNCHANGED <<cause, polled, pending, gen, implVars, chanVars, toEngine,
                   shutdownVars, validatorVars, notes, acked, countVars>>

Engine ==
    \/ Start \/ Register \/ WaitUntilActive \/ StartupShutdown
    \/ Poll \/ ReceiveValidator \/ HandleUpdate \/ ReceiveMonitor
    \/ ReceiveService \/ ReceiveShutdown
    \/ PerformShutdown \/ CloseChannel \/ ShutdownService \/ CloseSockets
-----------------------------------------------------------------------------
(* The implementation goroutines and their services.                       *)

rest == <<cause, polled, pending, gen, closed, cut, toEngine, shutdownVars,
          validatorVars, notes, acked, countVars>>

At(g, here, there) ==
    /\ impl[g] = here
    /\ impl' = [impl EXCEPT ![g] = there]
    /\ UNCHANGED <<main, linked>>

\* The goroutine of a pass begins: it stores its service in the value that the
\* goroutines of all passes share.
ImplBegin(g) ==
    /\ At(g, "begin", "handle")
    /\ field' = g
    /\ UNCHANGED <<callVars, takenVars, storeVars, updates, serviceVars, rest>>

\* The type switch on an update: what matches no case is ignored, and the
\* UpdateShutdown that ends the loop is a value.
AfterUpdate(u) == CASE u.type = "UpdateShutdown" -> "returned"
                    [] u.type = "Update"         -> "handle"
                    [] OTHER                     -> "select"

ImplTake(g) ==
    /\ updates[g] # <<>>
    /\ LET u == Head(updates[g]) IN
       /\ At(g, "select", AfterUpdate(u))
       /\ taken' = [taken EXCEPT ![g] = IF u.type = "Update" THEN u.id ELSE @]
       /\ told' = [told EXCEPT ![g] = @ \/ u = ShutdownUpdate]
    /\ updates' = [updates EXCEPT ![g] = Tail(@)]
    /\ UNCHANGED <<field, callVars, storeVars, serviceVars, rest>>

\* The timer of the loop, and the end of a handler.  (A closed channel only
\* yields nil, which the loop ignores.)
ImplTurn(g) ==
    /\ At(g, "select", "handle") \/ At(g, "handle", "select")
    /\ using' = [using EXCEPT ![g] = 0]
    /\ UNCHANGED <<field, call, nextCall, takenVars, storeVars, updates,
                   serviceVars, rest>>

\* A failed call: the handler goes on, or panics and ends the program.
CallFails(g, here) ==
    \/ At(g, here, "handle")
    \/ impl[g] = here /\ Crash

\* A call goes through the service in the shared value, or through the one it
\* held when the handler read it (finalizeBlock calls more than once).
Services(g) == {field, using[g]} \ {0}

\* serviceRpc() sends the request, which fails once the service is shut down ...
RpcSend(g) ==
    /\ nextCall + repeats \in CallIds
    /\ nextCall' = nextCall + 1
    /\ \E s \in Services(g) :
       /\ using' = [using EXCEPT ![g] = s]
       /\ \/ /\ ~cut[s]
             /\ At(g, "handle", "sent")
             /\ call' = [call EXCEPT ![g] = nextCall]
             /\ serviceOut' = Append(serviceOut, nextCall)
          \/ /\ cut[s]
             /\ CallFails(g, "handle")
             /\ UNCHANGED <<call, serviceOut>>
    /\ UNCHANGED <<field, takenVars, storeVars, updates, serviceIn, rest>>

\* ... then records the correlation id ...
RpcRecord(g) ==
    /\ At(g, "sent", "look")
    /\ corrIds' = [corrIds EXCEPT ![using[g]] = @ \cup {call[g]}]
    /\ UNCHANGED <<field, callVars, takenVars, saved, updates, serviceVars, rest>>

\* ... looks for the answer in the store of the connection ...
RpcLook(g) ==
    /\ At(g, "look", IF call[g] \in saved[using[g]] THEN "got" ELSE "recv")
    /\ UNCHANGED <<field, callVars, takenVars, storeVars, updates, serviceVars,
                   rest>>

\* ... waits for it in RecvMsgWithId, which stores any other message ...
RpcReceive(g) ==
    /\ impl[g] = "recv" /\ ~cut[using[g]] /\ serviceIn # <<>>
    /\ serviceIn' = Tail(serviceIn)
    /\ IF Head(serviceIn) = call[g]
       THEN At(g, "recv", "got") /\ UNCHANGED saved
       ELSE /\ saved' = [saved EXCEPT ![using[g]] = @ \cup {Head(serviceIn)}]
            /\ UNCHANGED <<impl, main, linked>>
    /\ UNCHANGED <<field, callVars, takenVars, corrIds, updates, serviceOut, rest>>

\* ... (the socket closed under it by another thread: an error, or no return)
RpcClosed(g) ==
    /\ impl[g] = "recv" /\ cut[using[g]]
    /\ CallFails(g, "recv") \/ At(g, "recv", "stuck")
    /\ UNCHANGED <<field, callVars, takenVars, storeVars, updates, serviceVars,
                   rest>>

\* ... and forgets the correlation id.
RpcForget(g) ==
    /\ At(g, "got", "handle")
    /\ corrIds' = [corrIds EXCEPT ![using[g]] = @ \ {call[g]}]
    /\ call' = [call EXCEPT ![g] = NoCall]
    /\ UNCHANGED <<field, using, nextCall, takenVars, saved, updates,
                   serviceVars, rest>>

InCall == {"sent", "look", "recv", "got"}

\* Two goroutines in serviceRpc of one service: its maps and its socket are not
\* made for that, and the program may end.
RpcRace(g) ==
    /\ impl[g] \in InCall
    /\ \E h \in Gens \ {g} : impl[h] \in InCall /\ using[h] = using[g]
    /\ Crash
    /\ UNCHANGED <<field, callVars, takenVars, storeVars, updates, serviceVars,
                   rest>>

Impl(g) ==
    \/ ImplBegin(g) \/ ImplTake(g) \/ ImplTurn(g)
    \/ RpcSend(g) \/ RpcRecord(g) \/ RpcLook(g) \/ RpcReceive(g) \/ RpcClosed(g)
    \/ RpcForget(g) \/ RpcRace(g)
-----------------------------------------------------------------------------
(* The environment: the validator, the network and the user.               *)

programVars == <<engineVars, implVars, chanVars, serviceVars, acked>>

ValidatorSend(m) == linked /\ toEngine' = Append(toEngine, m)

\* The answers to a registration, and what the validator then takes it for.
Confirmations == {<<"OK_STATE", "active">>, <<"OK", "registered">>,
                  <<"NOT_READY", "refused">>, <<"ERROR", "refused">>}

ValidatorRegisters ==
    /\ registration = "requested"
    /\ \E c \in Confirmations :
       /\ c[1] = "NOT_READY" => notReady < MaxNotReady
       /\ notReady' = IF c[1] = "NOT_READY" THEN notReady + 1 ELSE notReady
       /\ registration' = c[2]
       /\ ValidatorSend(RegisterResponse(c[1]))
    /\ UNCHANGED <<programVars, linked, shutdownVars, calls, notes, pings,
                   pongs, repeats, disconnects>>

ValidatorActivates ==
    /\ registration = "registered"
    /\ ValidatorSend(Msg("ENGINE_ACTIVATED", 0))
    /\ registration' = "activating"
    /\ UNCHANGED <<programVars, linked, shutdownVars, calls, notes, countVars>>

\* Notifications and pings may come as soon as there is a connection.
ValidatorNotifies ==
    /\ registration # "none" /\ notes < MaxNotes
    /\ ValidatorSend(Msg("NOTIFY", notes + 1))
    /\ notes' = notes + 1
    /\ UNCHANGED <<programVars, linked, shutdownVars, validatorVars, countVars>>

ValidatorPings ==
    /\ registration # "none" /\ pings < MaxPings
    /\ ValidatorSend(Msg("PING_REQUEST", 0))
    /\ pings' = pings + 1
    /\ UNCHANGED <<programVars, linked, shutdownVars, validatorVars, notes,
                   pongs, notReady, repeats, disconnects>>

ValidatorAnswers(c) ==
    /\ c \in calls
    /\ ValidatorSend(Msg("RESPONSE", c))
    /\ calls' = calls \ {c}
    /\ UNCHANGED <<programVars, linked, shutdownVars, registration, notes,
                   countVars>>

\* An answer that will be sent again.
ValidatorRepeats(c) ==
    /\ c \in calls /\ nextCall + repeats \in CallIds
    /\ ValidatorSend(Msg("RESPONSE", c))
    /\ repeats' = repeats + 1
    /\ UNCHANGED <<programVars, linked, shutdownVars, validatorVars, notes,
                   pings, pongs, notReady, disconnects>>

\* The connection is lost.  What the engine has received it can still read; a
\* message lost on the way is one the validator never sent.
Disconnect ==
    /\ linked /\ disconnects < MaxDisconnects
    /\ linked' = FALSE
    /\ monitored' = TRUE
    /\ registration' = "none"
    /\ disconnects' = disconnects + 1
    /\ UNCHANGED <<programVars, toEngine, shutdowns, asked, calls, notes, pings,
                   pongs, notReady, repeats>>

\* Shutdown(), called once by the signal handler.
Shutdown ==
    /\ ~asked /\ main # "crashed"
    /\ asked' = TRUE
    /\ shutdowns' = IF main \in {"register", "wait", "poll", "update"}
                    THEN Append(shutdowns, "shutdown") ELSE shutdowns
    /\ UNCHANGED <<programVars, toEngine, linked, monitored, validatorVars,
                   notes, countVars>>

Environment ==
    \/ ValidatorRegisters \/ ValidatorActivates \/ ValidatorNotifies
    \/ ValidatorPings \/ Disconnect \/ Shutdown
    \/ \E c \in CallIds : ValidatorAnswers(c) \/ ValidatorRepeats(c)

Next == Engine \/ (\E g \in Gens : Impl(g)) \/ Environment

Spec == Init /\ [][Next]_vars

\* The goroutines are scheduled and handlers return; a select does not pass
\* over a ready channel for ever; the validator answers registrations and
\* service calls, and activates the engines it has registered.
Fairness ==
    /\ WF_vars(Engine)
    /\ \A g \in Gens : WF_vars(Impl(g)) /\ SF_vars(ImplTake(g))
    /\ WF_vars(ValidatorRegisters) /\ WF_vars(ValidatorActivates)
    /\ WF_vars(\E c \in CallIds : ValidatorAnswers(c))

FairSpec == Spec /\ Fairness
-----------------------------------------------------------------------------
(* Properties.                                                             *)

MessageTypes == {"REGISTER_RESPONSE", "ENGINE_ACTIVATED", "NOTIFY",
                 "PING_REQUEST", "RESPONSE"}
ValidatorMessages ==
    [type : {"REGISTER_RESPONSE"}, status : {c[1] : c \in Confirmations}]
      \cup [type : MessageTypes \ {"REGISTER_RESPONSE"}, id : Nat]

TypeOKEngine ==
    /\ main \in {"start", "register", "wait", "poll", "update", "shutdown",
                 "closing", "cutting", "leaving", "stopped", "failed", "crashed"}
    /\ cause \in {"none", "restart", "shutdown"} \cup MessageTypes
    /\ polled \subseteq Sockets
    /\ pending \in Nat
    /\ gen \in 0..(MaxDisconnects + 1)
    /\ main # "start" => gen \in Gens
    /\ monitored \in BOOLEAN /\ asked \in BOOLEAN
    /\ shutdowns \in Seq({"restart", "shutdown"})

ImplPlaces == {"none", "begin", "select", "handle", "stuck", "returned"} \cup InCall
Updates == [type : {"Update", "*UpdateShutdown"}, id : Nat]

TypeOKImpl ==
    /\ impl \in [Gens -> ImplPlaces]
    /\ field \in {0} \cup Gens
    /\ using \in [Gens -> {0} \cup Gens]
    /\ call \in [Gens -> CallIds \cup {NoCall}]
    /\ nextCall \in 1..(MaxCalls + 1)
    /\ taken \in [Gens -> Nat] /\ told \in [Gens -> BOOLEAN]
    /\ corrIds \in [Gens -> SUBSET CallIds]
    /\ saved \in [Gens -> SUBSET CallIds]
    /\ updates \in [Gens -> Seq(Updates)]
    /\ \A g \in Gens : Len(updates[g]) <= ChanSize
    /\ closed \in [Gens -> BOOLEAN] /\ cut \in [Gens -> BOOLEAN]
    /\ serviceOut \in Seq(CallIds) /\ serviceIn \in Seq(CallIds)

TypeOKValidator ==
    /\ toEngine \in Seq(ValidatorMessages)
    /\ linked \in BOOLEAN
    /\ registration \in {"none", "requested", "refused", "registered",
                         "activating", "active"}
    /\ calls \subseteq CallIds
    /\ notes \in Nat /\ acked \in Nat
    /\ pings \in Nat /\ pongs \in Nat /\ notReady \in Nat /\ repeats \in Nat
    /\ disconnects \in Nat

\* The type invariant; a channel never holds more than its capacity.
TypeOK == TypeOKEngine /\ TypeOKImpl /\ TypeOKValidator

\* The entries of a type in a pipe carry exactly these ids, in increasing order.
Carries(pipe, type, ids) ==
    LET places == {i \in DOMAIN pipe : pipe[i].type = type} IN
    /\ {pipe[i].id : i \in places} = ids
    /\ \A i, j \in places : i < j => pipe[i].id < pipe[j].id

\* While the engine runs, its implementation gets every notification of the
\* connection that unmarshals, once and in the order the validator sent them,
\* however far it lags behind: those it has not taken are in its channel, in
\* handleUpdate and in the pipe, in that order.  An acknowledged notification
\* is in the channel or has been taken from it, unless it was malformed
\* (receiveValidator, handleUpdate).
UpdatesInOrder ==
    main \in {"poll", "update", "shutdown"} =>
       LET read == IF main = "update" THEN pending ELSE acked IN
       /\ Carries(updates[gen], "Update", ((taken[gen] + 1)..acked) \ Malformed)
       /\ main = "update" => pending = acked + 1
       /\ Carries(toEngine, "NOTIFY", (read + 1)..notes)

Announced(g) == told[g] \/ \E i \in DOMAIN updates[g] : updates[g][i] = ShutdownUpdate

\* The shutdown update is the last thing on its channel, and an implementation
\* that finds the channel closed or the service shut down has it in its channel
\* or has taken it from there.  No send meets a closed channel, which would
\* panic, and the passes before the present one are all cut off
\* (performShutdown, start).
ShutdownIsLast ==
    \A g \in Gens :
       /\ told[g] => updates[g] = <<>>
       /\ \A i \in DOMAIN updates[g] :
             updates[g][i] = ShutdownUpdate => i = Len(updates[g])
       /\ closed[g] => Announced(g)
       /\ cut[g] => closed[g]
       /\ g < gen => cut[g]

\* A call through the service of an earlier connection ends with that
\* connection: it neither reaches the validator through the new one nor gets an
\* answer from it.  (A goroutine of an earlier pass that makes a new call makes
\* it through the new service.)
ServiceIsolated ==
    \A g \in Gens : impl[g] \in InCall /\ using[g] # gen =>
       /\ \A i \in DOMAIN serviceOut : serviceOut[i] # call[g]
       /\ \A i \in DOMAIN serviceIn : serviceIn[i] # call[g]
       /\ call[g] \notin calls

\* The implementation only runs against a validator that knows the engine as
\* active, whichever way its version activates engines (register,
\* waitUntilActive).
ActiveTogether ==
    main \in {"poll", "update"} /\ linked => registration = "active"

\* The engine and its implementation wait for each other in one way only, the
\* engine for room in updateChan and the implementation for an answer.  Other
\* than that registration waits only for a message that is still to come, the
\* loop of start() hears of a lost connection and has a socket to serve while
\* there is a notification left, and a full channel has an implementation that
\* can go on.
OneStandstill ==
    /\ main = "register" /\ linked => registration = "requested" \/ toEngine # <<>>
    /\ main = "wait" /\ linked => registration = "registered" \/ toEngine # <<>>
    /\ main = "poll" /\ ~linked => monitored \/ shutdowns # <<>>
    /\ main = "poll" /\ (~linked \/ acked < notes) =>
          \E s \in Sockets : Readable(s) /\ (polled = {} \/ s \in polled)
    /\ main \in {"update", "shutdown"} =>
          \/ Len(updates[gen]) < ChanSize
          \/ impl[gen] \in {"begin", "select", "handle", "sent", "look", "got"}
          \/ impl[gen] = "recv" /\ call[gen] # NoCall

\* Registration ends, however often the validator is not ready.
RegistrationEnds ==
    main = "register" ~> main # "register" \/ ~linked

Running == main \in {"register", "wait", "poll", "update"} /\ linked

\* The engine keeps handling messages: every notification is acknowledged and
\* every ping answered as long as the engine runs and the connection lives
\* (engine.go:83).
MessagesHandled ==
    /\ \A n \in 1..MaxNotes : notes = n /\ Running ~> acked >= n \/ ~Running
    /\ \A n \in 1..MaxPings : pings = n /\ Running ~> pongs >= n \/ ~Running

\* The engine waits for room in updateChan, and the implementation for an answer.
Standstill ==
    /\ main \in {"update", "shutdown"} /\ Len(updates[gen]) = ChanSize
    /\ impl[gen] = "recv"

\* The same with calls of the service: only a standstill that lasts for ever
\* keeps a notification or a ping from being handled.
MessagesHandledOrStandstill ==
    /\ \A n \in 1..MaxNotes :
          notes = n /\ Running ~> acked >= n \/ ~Running \/ []Standstill
    /\ \A n \in 1..MaxPings :
          pings = n /\ Running ~> pongs >= n \/ ~Running \/ []Standstill

\* A shutdown or a restart ends, and only such a standstill keeps it from it
\* (performShutdown).
ShutdownEnds ==
    main \in {"shutdown", "closing", "cutting", "leaving"} ~>
       main \in {"start", "stopped", "crashed"} \/ []Standstill

\* A call of the service that waits for its answer has it still to come: the
\* call or the answer is in a pipe or with the validator (service.go:35).
ResponsesComeBack ==
    main = "poll" /\ linked /\ impl[gen] = "recv" =>
       \/ \E i \in DOMAIN serviceOut : serviceOut[i] = call[gen]
       \/ call[gen] \in calls
       \/ \E i \in DOMAIN toEngine : toEngine[i] = Msg("RESPONSE", call[gen])
       \/ \E i \in DOMAIN serviceIn : serviceIn[i] = call[gen]

\* The shutdown update makes an implementation that is not in a call return,
\* when the engine goes on with a new connection (types.go:418).
ShutdownReturns ==
    \A g \in Gens :
       closed[g] /\ impl[g] = "select" ~>
          impl[g] = "returned" \/ main \in {"stopped", "failed", "crashed"}
=============================================================================
