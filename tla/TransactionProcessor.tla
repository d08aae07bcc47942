------------------------ MODULE TransactionProcessor ------------------------
(***************************************************************************)
(* The transaction processor of processor/processor.go and worker.go: one  *)
(* router goroutine (start) between the validator's connection and a pool  *)
(* of worker goroutines, the work queue they share, the table `ids' that   *)
(* sends the answers to the workers' state calls back to the caller, and   *)
(* registration, shutdown, disconnection and restart.                      *)
(*                                                                         *)
(* The validator and ZeroMQ are external: they are modelled by what the    *)
(* code relies on (pipes are FIFO, a poll reports every readable socket in *)
(* the order they were added, a pipe whose peer is closed delivers nothing *)
(* new and reports no error).                                              *)
(*                                                                         *)
(* An operator named Slip... is a definition as a plausible mistake in the *)
(* code would have made it; no specification uses it.  Each one shows that *)
(* a property below is sensitive to that mistake.                          *)
(***************************************************************************)
EXTENDS Naturals, Sequences, FiniteSets

CONSTANTS
    Workers,         \* the goroutines of the pool (nThreads)
    Requests,        \* correlation ids of the TP_PROCESS_REQUESTs
    BadRequests,     \* those that do not unmarshal or have no handler
    Ping,            \* correlation id of a PING_REQUEST
    MaxQueue,        \* capacity of the work queue (maxQueue)
    Registrations,   \* number of (handler, version) pairs to register
    MaxCalls,        \* bound: state calls made by all the handlers
    MaxPings,        \* bound: PING_REQUESTs sent
    MaxRepeats,      \* bound: answers the validator sends more than once
    MaxDisconnects   \* bound: connections lost

ASSUME ConstantsAssumption ==
    /\ BadRequests \subseteq Requests
    /\ Ping \notin Requests
    /\ Requests \cap (1..MaxCalls) = {}    \* no correlation id is used twice
    /\ MaxQueue \in Nat \ {0}
    /\ Registrations \in Nat \ {0}
    /\ MaxCalls \in Nat /\ MaxPings \in Nat
    /\ MaxRepeats \in Nat /\ MaxDisconnects \in Nat

VARIABLES
    main,         \* where the router goroutine is
    cause,        \* the shutdown command it obeys, or why Start() failed
    registering,  \* index of the registration in progress
    polled,       \* sockets the last Poll reported and not yet handled
    queue,        \* the work queue: correlation ids of the messages in it
    ids,          \* correlation id of a state call -> worker that made it
    worker,       \* where each worker is
    job,          \* the request each worker is applying
    call,         \* the correlation id each worker waits for
    saved,        \* the `incoming' store of each worker's connection
    nextCall,     \* the next fresh correlation id
    outbox,       \* pipe from each worker to the router
    inbox,        \* pipe from the router to each worker
    toProcessor,  \* pipe from the validator
    linked,       \* the validator connection is open at both ends
    monitored,    \* a DISCONNECTED event waits on the monitor socket
    shutdowns,    \* commands waiting on the shutdown socket
    asked,        \* Shutdown() has been called
    registration, \* what the validator knows of this processor
    calls,        \* state calls the validator has still to answer
    sent,         \* requests the validator has sent on this connection
    answers,      \* responses sent per request, on this connection
    pings,        \* pings the validator has sent
    pongs,        \* pings answered, or lost with their connection
    repeats, disconnects

mainVars      == <<main, cause, registering, polled>>
workerVars    == <<worker, job, call, saved, nextCall>>
shutdownVars  == <<monitored, shutdowns, asked>>
validatorVars == <<registration, calls, sent>>
countVars     == <<pings, pongs, repeats, disconnects>>
vars == <<mainVars, queue, ids, workerVars, outbox, inbox, toProcessor, linked,
          shutdownVars, validatorVars, answers, countVars>>

CallIds == 1..MaxCalls
NoCall  == 0
NoJob   == Ping
Msg(type, id) == [type |-> type, id |-> id]
RegisterResponse(s) == [type |-> "TP_REGISTER_RESPONSE", status |-> s]

Sockets == {"validator", "monitor", "workers", "shutdown"}

\* After close(queue) and workers.Close() in shutdown(): no more work will
\* come, and nothing passes between the workers and the router.
Closed == main \in {"unregister", "join", "stopped"}
-----------------------------------------------------------------------------
Init ==
    /\ main = "start" /\ cause = "none" /\ registering = 1 /\ polled = {}
    /\ queue = <<>>
    /\ ids = [c \in {} |-> {}]
    /\ worker = [w \in Workers |-> "exited"]
    /\ job = [w \in Workers |-> NoJob]
    /\ call = [w \in Workers |-> NoCall]
    /\ saved = [w \in Workers |-> {}]
    /\ nextCall = 1
    /\ outbox = [w \in Workers |-> <<>>]
    /\ inbox = [w \in Workers |-> <<>>]
    /\ toProcessor = <<>>
    /\ linked = FALSE
    /\ monitored = FALSE /\ shutdowns = <<>> /\ asked = FALSE
    /\ registration = "none" /\ calls = {} /\ sent = {}
    /\ answers = [r \in Requests |-> 0]
    /\ pings = 0 /\ pongs = 0 /\ repeats = 0 /\ disconnects = 0
-----------------------------------------------------------------------------
(* The router goroutine.                                                   *)

\* A pass of the loop in Start(): fresh sockets, queue, table and workers, and
\* the first registration request.  Commands on the old shutdown socket and
\* messages of the old connection are gone; on the new one the validator may
\* send any request again.
Start ==
    /\ main = "start"
    /\ main' = "register" /\ cause' = "none" /\ registering' = 1 /\ polled' = {}
    /\ queue' = <<>>
    /\ ids' = [c \in {} |-> {}]
    /\ worker' = [w \in Workers |-> "idle"]
    /\ job' = [w \in Workers |-> NoJob]
    /\ call' = [w \in Workers |-> NoCall]
    /\ saved' = [w \in Workers |-> {}]
    /\ outbox' = [w \in Workers |-> <<>>]
    /\ inbox' = [w \in Workers |-> <<>>]
    /\ toProcessor' = <<>>
    /\ linked' = TRUE
    /\ monitored' = FALSE /\ shutdowns' = <<>>
    /\ registration' = "requested" /\ calls' = {} /\ sent' = {}
    /\ answers' = [r \in Requests |-> 0]
    /\ pongs' = pings
    /\ UNCHANGED <<nextCall, asked, pings, repeats, disconnects>>

Fail(why) == main' = "failed" /\ cause' = why

\* register(): a message with another correlation id goes to the queue, and
\* whatever is not a TP_REGISTER_RESPONSE ends the registration with an error.
RegisterUnexpected(m) ==
    /\ m.type # "TP_REGISTER_RESPONSE"
    /\ Len(queue) < MaxQueue
    /\ queue' = Append(queue, m.id)
    /\ Fail(m.type)
    /\ UNCHANGED <<registering, registration>>

\* Slip: the count of registrations runs one too far.
SlipRegisterConfirmed(m) ==
    /\ m = RegisterResponse("OK")
    /\ registering' = registering + 1
    /\ IF registering' <= Registrations
       THEN registration' = "requested" /\ UNCHANGED main
       ELSE main' = "poll" /\ UNCHANGED registration
    /\ UNCHANGED <<cause, queue>>

\* register() returns nil: start() registers the next pair, or begins to poll.
RegisterConfirmed(m) ==
    /\ m = RegisterResponse("OK")
    /\ IF registering < Registrations
       THEN /\ registering' = registering + 1
            /\ registration' = "requested"
            /\ UNCHANGED main
       ELSE main' = "poll" /\ UNCHANGED <<registering, registration>>
    /\ UNCHANGED <<cause, queue>>

RegisterRejected(m) ==
    /\ m = RegisterResponse("ERROR")
    /\ Fail("rejected")
    /\ UNCHANGED <<registering, registration, queue>>

\* register(): the message read while waiting for the confirmation.
RegisterReceive ==
    /\ main = "register" /\ toProcessor # <<>>
    /\ toProcessor' = Tail(toProcessor)
    /\ LET m == Head(toProcessor) IN
       RegisterUnexpected(m) \/ RegisterConfirmed(m) \/ RegisterRejected(m)
    /\ UNCHANGED <<polled, ids, workerVars, outbox, inbox, linked, shutdownVars,
                   calls, sent, answers, countVars>>

\* register(): the shutdown socket is readable and the validator's is not.
RegisterShutdown ==
    /\ main = "register" /\ toProcessor = <<>> /\ shutdowns # <<>>
    /\ Fail("shutdown")
    /\ UNCHANGED <<registering, polled, queue, ids, workerVars, outbox, inbox,
                   toProcessor, linked, shutdownVars, validatorVars, answers,
                   countVars>>

Readable(socket) ==
    CASE socket = "validator" -> toProcessor # <<>>
      [] socket = "monitor"   -> monitored
      [] socket = "workers"   -> \E w \in Workers : outbox[w] # <<>>
      [] socket = "shutdown"  -> shutdowns # <<>>

\* poller.Poll(-1): the sockets readable now; each is then served once.
Poll ==
    /\ main = "poll" /\ polled = {}
    /\ polled' = {s \in Sockets : Readable(s)}
    /\ polled' # {}
    /\ UNCHANGED <<main, cause, registering, queue, ids, workerVars, outbox,
                   inbox, toProcessor, linked, shutdownVars, validatorVars,
                   answers, countVars>>

\* The turn of a polled socket: the ones added to the poller before it are done.
Turn(socket, earlier) ==
    /\ main = "poll"
    /\ socket \in polled
    /\ polled \cap earlier = {}

Answer(r) == answers' = [answers EXCEPT ![r] = @ + 1]

\* Slip: the request is refused and queued (no return after the denial).
SlipRequestTwice(m) ==
    /\ m.type = "TP_PROCESS_REQUEST"
    /\ queue' = Append(queue, m.id)
    /\ IF Len(queue) < MaxQueue THEN UNCHANGED answers ELSE Answer(m.id)
    /\ UNCHANGED <<ids, inbox, pongs>>

\* Slip: a request that finds the queue full is dropped without an answer.
SlipRequestDropped(m) ==
    /\ m.type = "TP_PROCESS_REQUEST"
    /\ queue' = IF Len(queue) < MaxQueue THEN Append(queue, m.id) ELSE queue
    /\ UNCHANGED <<ids, inbox, answers, pongs>>

\* Slip: the last place of the queue is not used.
SlipRequestEarly(m) ==
    /\ m.type = "TP_PROCESS_REQUEST"
    /\ IF Len(queue) + 1 < MaxQueue
       THEN queue' = Append(queue, m.id) /\ UNCHANGED answers
       ELSE Answer(m.id) /\ UNCHANGED queue
    /\ UNCHANGED <<ids, inbox, pongs>>

\* Slip: the send on the queue has no default branch, and waits.
SlipRequestBlocks(m) ==
    /\ m.type = "TP_PROCESS_REQUEST"
    /\ Len(queue) < MaxQueue
    /\ queue' = Append(queue, m.id)
    /\ UNCHANGED <<ids, inbox, answers, pongs>>

\* receiveValidator(): a request is queued, or denied when the queue is full.
ReceiveRequest(m) ==
    /\ m.type = "TP_PROCESS_REQUEST"
    /\ IF Len(queue) < MaxQueue
       THEN queue' = Append(queue, m.id) /\ UNCHANGED answers
       ELSE Answer(m.id) /\ UNCHANGED queue
    /\ UNCHANGED <<ids, inbox, pongs>>

ReceivePing(m) ==
    /\ m.type = "PING_REQUEST"
    /\ pongs' = pongs + 1
    /\ UNCHANGED <<queue, ids, inbox, answers>>

\* Slip: the entry of `ids' is not deleted.
SlipResponseKept(m) ==
    /\ m.type \notin {"TP_PROCESS_REQUEST", "PING_REQUEST"}
    /\ inbox' = IF m.id \in DOMAIN ids
                THEN [inbox EXCEPT ![ids[m.id]] = Append(@, m.id)] ELSE inbox
    /\ UNCHANGED <<queue, ids, answers, pongs>>

\* Anything else goes to the worker `ids' names, or is dropped with a warning.
ReceiveResponse(m) ==
    /\ m.type \notin {"TP_PROCESS_REQUEST", "PING_REQUEST"}
    /\ IF m.id \in DOMAIN ids
       THEN /\ inbox' = [inbox EXCEPT ![ids[m.id]] = Append(@, m.id)]
            /\ ids' = [c \in DOMAIN ids \ {m.id} |-> ids[c]]
       ELSE UNCHANGED <<ids, inbox>>
    /\ UNCHANGED <<queue, answers, pongs>>

ReceiveValidator ==
    /\ Turn("validator", {}) /\ toProcessor # <<>>
    /\ polled' = polled \ {"validator"}
    /\ toProcessor' = Tail(toProcessor)
    /\ LET m == Head(toProcessor) IN
       ReceiveRequest(m) \/ ReceivePing(m) \/ ReceiveResponse(m)
    /\ UNCHANGED <<main, cause, registering, workerVars, outbox, linked,
                   shutdownVars, validatorVars, pings, repeats, disconnects>>

\* Slip: the event is read and no restart is asked for.
SlipReceiveMonitor ==
    /\ Turn("monitor", {"validator"})
    /\ polled' = polled \ {"monitor"}
    /\ monitored' = FALSE
    /\ UNCHANGED <<main, cause, registering, queue, ids, workerVars, outbox,
                   inbox, toProcessor, linked, shutdowns, asked, validatorVars,
                   answers, countVars>>

\* receiveMonitor(): the router tells itself, through the shutdown socket, to
\* restart.
ReceiveMonitor ==
    /\ Turn("monitor", {"validator"})
    /\ polled' = polled \ {"monitor"}
    /\ monitored' = FALSE
    /\ shutdowns' = Append(shutdowns, "restart")
    /\ UNCHANGED <<main, cause, registering, queue, ids, workerVars, outbox,
                   inbox, toProcessor, linked, asked, validatorVars, answers,
                   countVars>>

\* Slip: the test on the message type is inverted.
SlipForwardCall(w, m) ==
    /\ m.type # "TP_PROCESS_RESPONSE"
    /\ calls' = IF linked THEN calls \cup {m.id} ELSE calls
    /\ UNCHANGED <<ids, answers>>

\* receiveWorkers(): remember who made a call, then pass it on.  What is sent
\* on a lost connection reaches nobody.
ForwardCall(w, m) ==
    /\ m.type # "TP_PROCESS_RESPONSE"
    /\ ids' = [c \in DOMAIN ids \cup {m.id} |-> IF c = m.id THEN w ELSE ids[c]]
    /\ calls' = IF linked THEN calls \cup {m.id} ELSE calls
    /\ UNCHANGED answers

ForwardResponse(m) ==
    /\ m.type = "TP_PROCESS_RESPONSE"
    /\ Answer(m.id)
    /\ UNCHANGED <<ids, calls>>

\* The ROUTER socket serves the workers' pipes in turn.
ReceiveWorkers ==
    /\ Turn("workers", {"validator", "monitor"})
    /\ polled' = polled \ {"workers"}
    /\ \E w \in Workers :
       /\ outbox[w] # <<>>
       /\ outbox' = [outbox EXCEPT ![w] = Tail(@)]
       /\ LET m == Head(outbox[w]) IN ForwardCall(w, m) \/ ForwardResponse(m)
    /\ UNCHANGED <<main, cause, registering, queue, workerVars, inbox,
                   toProcessor, linked, shutdownVars, registration, sent,
                   countVars>>

\* Slip: any command is taken for a restart.
SlipReceiveShutdown ==
    /\ Turn("shutdown", {"validator", "monitor", "workers"})
    /\ shutdowns # <<>>
    /\ polled' = {}
    /\ cause' = "restart"
    /\ shutdowns' = Tail(shutdowns)
    /\ outbox' = [w \in Workers |-> <<>>]
    /\ main' = "join" /\ linked' = FALSE
    /\ UNCHANGED <<registering, queue, ids, workerVars, inbox, toProcessor,
                   monitored, asked, validatorVars, answers, countVars>>

\* receiveShutdown() and shutdown() up to the wait: the queue and the workers'
\* socket are closed, which loses what the workers had sent and the router had
\* not read.  A forced shutdown (restart) closes the connection at once; a
\* clean one first asks to be unregistered.
ReceiveShutdown ==
    /\ Turn("shutdown", {"validator", "monitor", "workers"})
    /\ shutdowns # <<>>
    /\ polled' = {}
    /\ cause' = Head(shutdowns)
    /\ shutdowns' = Tail(shutdowns)
    /\ outbox' = [w \in Workers |-> <<>>]
    /\ IF Head(shutdowns) = "restart"
       THEN main' = "join" /\ linked' = FALSE
       ELSE main' = "unregister" /\ UNCHANGED linked
    /\ UNCHANGED <<registering, queue, ids, workerVars, inbox, toProcessor,
                   monitored, asked, validatorVars, answers, countVars>>

\* The three seconds of shutdown() pass.  Nothing is ever written to the
\* channel that would end the wait earlier, whatever the validator answers.
UnregisterTimeout ==
    /\ main = "unregister"
    /\ main' = "join" /\ linked' = FALSE
    /\ UNCHANGED <<cause, registering, polled, queue, ids, workerVars, outbox,
                   inbox, toProcessor, shutdownVars, validatorVars, answers,
                   countVars>>

\* The end of shutdown(): one token of workers_done per worker.  Start() then
\* stops, or begins again after a restart.
Join ==
    /\ main = "join"
    /\ \A w \in Workers : worker[w] = "exited"
    /\ main' = IF cause = "restart" THEN "start" ELSE "stopped"
    /\ UNCHANGED <<cause, registering, polled, queue, ids, workerVars, outbox,
                   inbox, toProcessor, linked, shutdownVars, validatorVars,
                   answers, countVars>>

Router ==
    \/ Start \/ RegisterReceive \/ RegisterShutdown
    \/ Poll \/ ReceiveValidator \/ ReceiveMonitor \/ ReceiveWorkers
    \/ ReceiveShutdown \/ UnregisterTimeout \/ Join
-----------------------------------------------------------------------------
(* The workers.                                                            *)

rest == <<mainVars, ids, toProcessor, linked, shutdownVars, validatorVars,
          answers, countVars>>

\* worker(): take a message off the queue (a closed queue still yields what is
\* in it).  One that cannot be unmarshalled or has no handler ends the worker.
WorkerTake(w) ==
    /\ worker[w] = "idle" /\ queue # <<>>
    /\ queue' = Tail(queue)
    /\ IF Head(queue) \in Requests \ BadRequests
       THEN /\ worker' = [worker EXCEPT ![w] = "apply"]
            /\ job' = [job EXCEPT ![w] = Head(queue)]
       ELSE /\ worker' = [worker EXCEPT ![w] = "exited"]
            /\ UNCHANGED job
    /\ UNCHANGED <<call, saved, nextCall, outbox, inbox, rest>>

\* Slip: the worker returns without writing to workers_done.
SlipWorkerLeave(w) ==
    /\ worker[w] = "idle" /\ queue = <<>> /\ Closed
    /\ worker' = [worker EXCEPT ![w] = "stuck"]
    /\ UNCHANGED <<queue, job, call, saved, nextCall, outbox, inbox, rest>>

\* worker(): the queue is closed and empty.
WorkerLeave(w) ==
    /\ worker[w] = "idle" /\ queue = <<>> /\ Closed
    /\ worker' = [worker EXCEPT ![w] = "exited"]
    /\ UNCHANGED <<queue, job, call, saved, nextCall, outbox, inbox, rest>>

Send(w, m) == outbox' = IF Closed THEN outbox
                                  ELSE [outbox EXCEPT ![w] = Append(@, m)]

\* A call of the Context: a fresh correlation id, the request sent, and
\* RecvMsgWithId entered.  A fresh id is never in the connection's store.
WorkerCall(w) ==
    /\ worker[w] = "apply" /\ nextCall \in CallIds
    /\ Send(w, Msg("TP_STATE_REQUEST", nextCall))
    /\ call' = [call EXCEPT ![w] = nextCall]
    /\ nextCall' = nextCall + 1
    /\ worker' = [worker EXCEPT ![w] = "recv"]
    /\ UNCHANGED <<queue, job, saved, inbox, rest>>

\* RecvMsgWithId(): return the awaited message, store any other.
WorkerReceive(w) ==
    /\ worker[w] = "recv" /\ inbox[w] # <<>>
    /\ inbox' = [inbox EXCEPT ![w] = Tail(@)]
    /\ IF Head(inbox[w]) = call[w]
       THEN /\ worker' = [worker EXCEPT ![w] = "apply"]
            /\ call' = [call EXCEPT ![w] = NoCall]
            /\ UNCHANGED saved
       ELSE /\ saved' = [saved EXCEPT ![w] = @ \cup {Head(inbox[w])}]
            /\ UNCHANGED <<worker, call>>
    /\ UNCHANGED <<queue, job, nextCall, outbox, rest>>

\* Slip: the worker leaves its loop after the first response.
SlipWorkerReply(w) ==
    /\ worker[w] = "apply"
    /\ Send(w, Msg("TP_PROCESS_RESPONSE", job[w]))
    /\ worker' = [worker EXCEPT ![w] = "exited"]
    /\ job' = [job EXCEPT ![w] = NoJob]
    /\ UNCHANGED <<queue, call, saved, nextCall, inbox, rest>>

\* Apply() has returned: send the TP_PROCESS_RESPONSE and go back to the queue.
\* Once the router's socket is closed the send is lost, or waits for a peer
\* that never comes.
WorkerReply(w) ==
    /\ worker[w] = "apply"
    /\ Send(w, Msg("TP_PROCESS_RESPONSE", job[w]))
    /\ \/ worker' = [worker EXCEPT ![w] = "idle"]
       \/ Closed /\ worker' = [worker EXCEPT ![w] = "stuck"]
    /\ job' = [job EXCEPT ![w] = NoJob]
    /\ UNCHANGED <<queue, call, saved, nextCall, inbox, rest>>

Worker(w) ==
    \/ WorkerTake(w) \/ WorkerLeave(w)
    \/ WorkerCall(w) \/ WorkerReceive(w) \/ WorkerReply(w)
-----------------------------------------------------------------------------
(* The environment: the validator, the network and the user.               *)

processorVars == <<mainVars, queue, ids, workerVars, outbox, inbox>>

ValidatorSend(m) == linked /\ toProcessor' = Append(toProcessor, m)

ValidatorRegisters ==
    /\ registration = "requested"
    /\ registration' = "known"
    /\ \E status \in {"OK", "ERROR"} :
          ValidatorSend(RegisterResponse(status))
    /\ UNCHANGED <<processorVars, linked, shutdownVars, calls, sent, answers,
                   countVars>>

\* Requests may come as soon as the validator has a registration request.
ValidatorRequests(r) ==
    /\ registration # "none" /\ r \notin sent
    /\ ValidatorSend(Msg("TP_PROCESS_REQUEST", r))
    /\ sent' = sent \cup {r}
    /\ UNCHANGED <<processorVars, linked, shutdownVars, registration, calls,
                   answers, countVars>>

ValidatorPings ==
    /\ registration # "none" /\ pings < MaxPings
    /\ ValidatorSend(Msg("PING_REQUEST", Ping))
    /\ pings' = pings + 1
    /\ UNCHANGED <<processorVars, linked, shutdownVars, validatorVars, answers,
                   pongs, repeats, disconnects>>

\* Calls are answered in any order.
ValidatorAnswers(c) ==
    /\ c \in calls
    /\ ValidatorSend(Msg("TP_STATE_RESPONSE", c))
    /\ calls' = calls \ {c}
    /\ UNCHANGED <<processorVars, linked, shutdownVars, registration, sent,
                   answers, countVars>>

\* An answer that will be sent again: receiveValidator has a branch for a
\* message nobody waits for.
ValidatorRepeats(c) ==
    /\ c \in calls /\ repeats < MaxRepeats
    /\ ValidatorSend(Msg("TP_STATE_RESPONSE", c))
    /\ repeats' = repeats + 1
    /\ UNCHANGED <<processorVars, linked, shutdownVars, validatorVars, answers,
                   pings, pongs, disconnects>>

\* The connection is lost.  What the processor has received it can still read;
\* a message lost on the way is one the validator never sent.
Disconnect ==
    /\ linked /\ disconnects < MaxDisconnects
    /\ linked' = FALSE
    /\ monitored' = TRUE
    /\ registration' = "none" /\ calls' = {}
    /\ disconnects' = disconnects + 1
    /\ UNCHANGED <<processorVars, toProcessor, shutdowns, asked, sent, answers,
                   pings, pongs, repeats>>

\* Shutdown(), called once by the signal handler.  Before start() there is no
\* socket to send on, after shutdown() nobody reads it.
Shutdown ==
    /\ ~asked
    /\ asked' = TRUE
    /\ shutdowns' = IF main \in {"register", "poll"}
                    THEN Append(shutdowns, "shutdown") ELSE shutdowns
    /\ UNCHANGED <<processorVars, toProcessor, linked, monitored, validatorVars,
                   answers, countVars>>

Environment ==
    \/ ValidatorRegisters \/ ValidatorPings \/ Disconnect \/ Shutdown
    \/ \E r \in Requests : ValidatorRequests(r)
    \/ \E c \in CallIds : ValidatorAnswers(c) \/ ValidatorRepeats(c)

Next ==
    \/ Router
    \/ \E w \in Workers : Worker(w)
    \/ Environment

Spec == Init /\ [][Next]_vars

\* The goroutines are scheduled and handlers return; the validator answers
\* registrations and state calls.  It need not send, repeat or ping, the
\* connection need not break, and nobody has to call Shutdown().
Fairness ==
    /\ WF_vars(Router)
    /\ \A w \in Workers : WF_vars(Worker(w))
    /\ WF_vars(ValidatorRegisters)
    /\ WF_vars(\E c \in CallIds : ValidatorAnswers(c))

FairSpec == Spec /\ Fairness
-----------------------------------------------------------------------------
(* Properties.                                                             *)

MessageIds == Requests \cup {Ping} \cup CallIds
MessageTypes == {"TP_REGISTER_RESPONSE", "TP_PROCESS_REQUEST", "PING_REQUEST",
                 "TP_STATE_RESPONSE"}
ValidatorMessages ==
    [type : {"TP_REGISTER_RESPONSE"}, status : {"OK", "ERROR"}]
      \cup [type : {"TP_PROCESS_REQUEST"}, id : Requests]
      \cup [type : {"PING_REQUEST"}, id : {Ping}]
      \cup [type : {"TP_STATE_RESPONSE"}, id : CallIds]
WorkerMessages ==
    [type : {"TP_PROCESS_RESPONSE"}, id : Requests]
      \cup [type : {"TP_STATE_REQUEST"}, id : CallIds]

TypeOKRouter ==
    /\ main \in {"start", "register", "poll", "unregister", "join", "stopped",
                 "failed"}
    /\ cause \in {"none", "restart", "shutdown", "rejected"} \cup MessageTypes
    /\ registering \in 1..Registrations
    /\ polled \subseteq Sockets
    /\ queue \in Seq(MessageIds)
    /\ DOMAIN ids \subseteq CallIds
    /\ \A c \in DOMAIN ids : ids[c] \in Workers
    /\ monitored \in BOOLEAN /\ asked \in BOOLEAN
    /\ shutdowns \in Seq({"restart", "shutdown"})

TypeOKWorkers ==
    /\ worker \in [Workers -> {"idle", "apply", "recv", "stuck", "exited"}]
    /\ job \in [Workers -> Requests \cup {NoJob}]
    /\ \A w \in Workers : worker[w] \in {"apply", "recv"} => job[w] \in Requests
    /\ call \in [Workers -> CallIds \cup {NoCall}]
    /\ saved \in [Workers -> SUBSET CallIds]
    /\ nextCall \in 1..(MaxCalls + 1)
    /\ outbox \in [Workers -> Seq(WorkerMessages)]
    /\ inbox \in [Workers -> Seq(CallIds)]

TypeOKValidator ==
    /\ toProcessor \in Seq(ValidatorMessages)
    /\ linked \in BOOLEAN
    /\ registration \in {"none", "requested", "known"}
    /\ calls \subseteq CallIds
    /\ sent \subseteq Requests
    /\ answers \in [Requests -> Nat]
    /\ pings \in Nat /\ pongs \in Nat /\ repeats \in Nat /\ disconnects \in Nat

\* The type invariant.  It ties `job' to the worker's position: a worker that
\* answers does so for a request.
TypeOK == TypeOKRouter /\ TypeOKWorkers /\ TypeOKValidator

\* The answer to a state call reaches the worker that made the call, while it
\* waits for it, and only once; no worker's connection ever has to store a
\* message meant for another call (receiveWorkers and receiveValidator keep
\* `ids' so that this holds whatever order the validator answers in, and
\* whatever it repeats).
RoutedToCaller ==
    \A w \in Workers :
       /\ saved[w] = {}
       /\ inbox[w] # <<>> => worker[w] = "recv" /\ inbox[w] = <<call[w]>>

\* While the router serves a live connection, the call a worker is blocked on
\* is somewhere on its way: in the worker's pipe, or in `ids' and with the
\* validator or on the way back, or delivered.  A call that got lost between
\* receiveWorkers and receiveValidator would block the worker for ever.
NoLostCall ==
    main = "poll" /\ linked =>
       \A w \in Workers : worker[w] = "recv" =>
          \/ inbox[w] # <<>>
          \/ \E i \in DOMAIN outbox[w] :
                outbox[w][i] = Msg("TP_STATE_REQUEST", call[w])
          \/ /\ call[w] \in DOMAIN ids
             /\ ids[call[w]] = w
             /\ \/ call[w] \in calls
                \/ \E i \in DOMAIN toProcessor :
                      toProcessor[i] = Msg("TP_STATE_RESPONSE", call[w])

\* The places in the processor that hold request r.
Copies(r) ==
    {<<"pipe", i>> : i \in {j \in DOMAIN toProcessor :
                       toProcessor[j] = Msg("TP_PROCESS_REQUEST", r)}}
      \cup {<<"queue", i>> : i \in {j \in DOMAIN queue : queue[j] = r}}
      \cup {<<"worker", w>> : w \in {v \in Workers : job[v] = r}}
      \cup UNION {{<<"outbox", w, i>> : i \in {j \in DOMAIN outbox[w] :
                       outbox[w][j] = Msg("TP_PROCESS_RESPONSE", r)}} : w \in Workers}

\* Request r is in the processor.
Present(r) ==
    \/ \E i \in DOMAIN toProcessor : toProcessor[i] = Msg("TP_PROCESS_REQUEST", r)
    \/ \E i \in DOMAIN queue : queue[i] = r
    \/ \E w \in Workers :
          \/ job[w] = r
          \/ \E i \in DOMAIN outbox[w] : outbox[w][i] = Msg("TP_PROCESS_RESPONSE", r)

\* A request is in one place at a time and gets at most one response: it is
\* never both denied and applied, applied by two workers, or answered twice.
AnsweredAtMostOnce ==
    \A r \in Requests :
       /\ answers[r] <= 1
       /\ Present(r) => answers[r] = 0
       /\ \A p, q \in Copies(r) : p = q

Service == INSTANCE RequestService WITH
    serving  <- ~Closed /\ main # "start",
    open     <- {r \in Requests : Present(r)},
    answered <- {r \in Requests : answers[r] > 0}

\* Router, queue, workers and pipes together are a service that answers each
\* request of a connection once: a request that receiveValidator took leaves
\* the processor only by its answer, by ending a worker that cannot handle it,
\* or through shutdown(), and a restart begins with nothing of the old one.
IsRequestService == Service!Spec

\* The router never waits for a worker or the validator: whatever it has been
\* polled for, receiveValidator, receiveMonitor, receiveWorkers or
\* receiveShutdown can go through, with the queue full and every worker blocked.
RouterNeverWaits ==
    main = "poll" /\ (\E s \in Sockets : s \in polled \/ Readable(s)) => ENABLED Router

\* The router has a socket to serve, a worker can go on, or the validator owes
\* an answer.
Moving ==
    \/ \E s \in Sockets : Readable(s) /\ (polled = {} \/ s \in polled)
    \/ \E w \in Workers : \/ worker[w] = "apply"
                          \/ worker[w] = "idle" /\ queue # <<>>
                          \/ worker[w] = "recv" /\ inbox[w] # <<>>
    \/ calls # {}

\* Router, workers and validator never all wait for each other: register()
\* waits only for a confirmation that is still to come, the loop of start()
\* hears of a lost connection, and as long as it holds a request somebody can
\* go on, unless every worker has ended.
NoStandstill ==
    /\ main = "register" /\ linked =>
          queue = <<>> /\ (registration = "requested" \/ toProcessor # <<>>)
    /\ main = "poll" /\ ~linked =>
          Moving /\ (monitored \/ shutdowns # <<>>)
    /\ main = "poll" /\ (\E r \in Requests : Present(r)) =>
          Moving \/ \A w \in Workers : worker[w] = "exited"

\* An answer that is no worker's is a denial: it finds more than MaxQueue
\* requests in the processor.
DeniesOccupied ==
    (outbox' = outbox /\ \E r \in Requests : answers'[r] > answers[r]) =>
       Cardinality({r \in Requests : Present(r)}) > MaxQueue

\* A request is denied only while MaxQueue others are in the processor: a
\* validator that respects the max_occupancy it was given at registration is
\* never denied.
DeniedOnlyWhenOccupied == [][DeniesOccupied]_vars

\* Every request with a handler is answered, as long as the processor runs, the
\* connection lives and workers are left, which is so while fewer requests
\* without a handler have come than there are workers: each of them ends the
\* worker that takes it (worker in worker.go).
EveryRequestAnswered ==
    \A r \in Requests \ BadRequests :
       r \in sent ~> \/ answers[r] > 0
                     \/ main \notin {"start", "register", "poll"} \/ ~linked
                     \/ Cardinality(sent \cap BadRequests) >= Cardinality(Workers)

Stopping == main \in {"unregister", "join"}

\* A shutdown or restart that finds the workers at rest and the queue empty
\* does end, although nothing ever ends the wait for the unregister response
\* but its timeout (shutdown in processor.go).
IdleShutdownEnds ==
    (Stopping /\ queue = <<>>
       /\ \A w \in Workers : worker[w] \in {"idle", "exited"}) ~> ~Stopping

\* A shutdown command that is the first on its socket is obeyed, also while
\* register() waits for a confirmation that a lost connection will not bring
\* (receiveShutdown, register).  One that is behind a restart command is not.
FirstCommandObeyed ==
    (main \in {"register", "poll"} /\ shutdowns # <<>> /\ Head(shutdowns) = "shutdown")
       ~> (main = "failed" \/ cause = "shutdown")

\* A shutdown or restart always ends: closing the router's socket makes the
\* workers that still send or receive fail (processor.go:393).
ShutdownEnds == main = "join" ~> main # "join"

\* A request that comes before the confirmation does not make the registration
\* fail (processor.go:500).
EarlyRequestTolerated == cause # "TP_PROCESS_REQUEST"
=============================================================================
