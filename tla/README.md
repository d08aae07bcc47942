# A TLA+ verification of the Sawtooth Go SDK

The SDK lets a Go program take part in a Sawtooth network in one of two roles:
as a *transaction processor*, which applies transactions for a validator, or as
a *consensus engine*, which decides for a validator which blocks to publish and
commit. Both are concurrent programs around one ZeroMQ connection: a goroutine
that routes messages, goroutines that run the user's code, and a validator that
sends, answers, repeats, and goes away when it likes. The repository also holds
the programs built on them: four transaction families and a consensus
implementation. This directory models all of these, checks them with TLC on
small instances, and proves central properties for every size with TLAPS.

Paths such as `processor/processor.go` are relative to `src/`.

## Inventory of the system

| Part | Source | State | Operations | Module |
|---|---|---|---|---|
| Transaction processor | `processor/processor.go`, `worker.go` | sockets, work queue, table `ids`, position of router and workers | `Start`, `start`, `register`, `receiveValidator`, `receiveMonitor`, `receiveWorkers`, `receiveShutdown`, `shutdown`, `Shutdown`, `worker` | `TransactionProcessor` |
| State context | `processor/context.go` | none of its own | get, set, delete state, receipts, events: one request and one awaited answer each | a worker's `WorkerCall` and `WorkerReceive`; results in `Context` |
| Messaging | `messaging/connection.go` | store `incoming` of messages for other calls | `SendNewMsg`, `SendMsg`, `RecvMsg`, `RecvMsgWithId`, `Monitor` | `saved` in `TransactionProcessor` and `ConsensusEngine` |
| Consensus engine | `consensus/engine.go` | sockets, `updateChan`, position of the engine | `Start`, `start`, `register`, `waitUntilActive`, `receiveValidator`, `handleUpdate`, `receiveMonitor`, `receiveService`, `receiveShutdown`, `performShutdown`, `Shutdown` | `ConsensusEngine` |
| Consensus service | `consensus/service.go` | map of correlation ids, closed or not | `serviceRpc` under every call, `hasCorrelationId`, `Shutdown`; fourteen calls | `ConsensusEngine`, actions `Rpc...`; results in `ConsensusService` |
| Devmode engine | `examples/devmode_consensus/engine.go` | published flag, wait time | loop over updates and timer, fork choice, publishing | `Devmode`; its loop also in `ConsensusEngine` |
| Transaction families | `examples/{intkey_go,smallbank,xo_go,noop_go}` | entries in the validator's state | `Apply` | `Intkey`, `Smallbank`, `Xo`, composed in `Families` |
| Signing, logging, protobuf, clients | `signing/`, `logging/`, `protobuf/`, `sawtooth_intkey_client` | none | pure functions and I/O | not modelled |

Three modules are specifications of what a part promises, written without regard
to how it works: `RequestService` for the transaction processor, `BlockJudgement`
for the devmode engine with its validator, and `KeyValue` for intkey. The detailed
modules are shown to implement them.

The hard behaviours, and what could go wrong in them, are the `hazards` of
`PROJECT.json`. The main ones:

- answers of the validator come in any order, twice, or for a call of which
  nobody knows any more; each worker must still get its own;
- the queue, or the channel to the implementation, is full;
- two goroutines wait for each other through a third;
- a shutdown, a lost connection and a restart arrive in any order with
  everything else, and while the user's code is in the middle of a call;
- the connection is replaced while goroutines of the old one still run;
- registration takes several messages, and others come in between;
- the validator moves its head, drops its candidate block or hears of blocks
  between any two calls of the consensus implementation;
- one call of several fails, and the handler or the engine is half way;
- names that hash to one address share what is stored there; balances wrap.

## TransactionProcessor

One router goroutine polls four sockets (validator, monitor, workers, shutdown)
and serves each readable one in that order. A request from the validator goes on
the bounded queue, or is denied if the queue is full. Workers take requests off
the queue and run a handler, which calls the validator through the router. The
router remembers in `ids` which worker made a call and sends the answer there.

| Code | Model |
|---|---|
| a pass of the loop in `Start()`, up to the first registration | `Start` |
| `register()` | `RegisterReceive` (`RegisterUnexpected`, `RegisterConfirmed`, `RegisterRejected`), `RegisterShutdown` |
| `poller.Poll(-1)` and the loop over its result | `Poll`, `Turn`; `polled` holds the sockets still to be served |
| `receiveValidator()` | `ReceiveValidator` (`ReceiveRequest`, `ReceivePing`, `ReceiveResponse`) |
| `receiveMonitor()` | `ReceiveMonitor` |
| `receiveWorkers()` | `ReceiveWorkers` (`ForwardCall`, `ForwardResponse`) |
| `receiveShutdown()`, `shutdown()` | `ReceiveShutdown`, `UnregisterTimeout`, `Join` |
| `worker()` | `WorkerTake`, `WorkerReply`, `WorkerLeave` |
| a `Context` call, `SendNewMsg`, `RecvMsgWithId` | `WorkerCall`, `WorkerReceive` |
| `Shutdown()` | `Shutdown` |
| validator, network (external) | `ValidatorRegisters`, `ValidatorRequests`, `ValidatorPings`, `ValidatorAnswers`, `ValidatorRepeats`, `Disconnect` |

A message is its type and correlation id; payloads are left out, except that a
request may be one that does not unmarshal or has no handler (`BadRequests`).
Between two actions of a goroutine any other goroutine may run. `sent`,
`answers`, `pings` and `pongs` are counted for the properties only; they start
anew with a connection, because a validator may send a request again to a
processor that has come back.

## ConsensusEngine

One engine goroutine polls four sockets (validator, monitor, service, shutdown).
Notifications become updates on a channel of fixed capacity, and are acknowledged
once they are in it; one whose content does not unmarshal (`Malformed`) is logged
and acknowledged all the same. The implementation takes the updates off the
channel in a goroutine of its own. It calls the validator through a service, whose
requests and answers pass through the engine goroutine.

Each pass of the loop in `Start()` makes a new channel, service and
implementation goroutine, and nobody waits for the old goroutine. The model keeps
all of them, indexed by the number of the pass (`Gens`). All these goroutines run
on one `DevmodeEngineImpl`, and each stores its service there when it begins
(`field`): an old goroutine that has not returned then calls through the service
of the new connection. `using` is the service of the call a goroutine is in.

| Code | Model |
|---|---|
| a pass of the loop in `Start()`, connection, first request | `Start` |
| `register()`, with its retry | `Register` (`RegisterOK`, `RegisterNotReady`, `RegisterFails`) |
| `waitUntilActive()` | `WaitUntilActive` |
| a shutdown during either of them | `StartupShutdown` |
| the rest of `start()` before its loop | `Activate` |
| `receiveValidator()`, `handleUpdate()` | `ReceiveValidator` (`ReceiveNotification`, `ReceivePing`, `ReceiveResponse`), `HandleUpdate` |
| `receiveMonitor()`, `receiveService()`, `receiveShutdown()` | actions of the same names |
| `performShutdown()` | `PerformShutdown`, `CloseChannel`, `ShutdownService`, `CloseSockets`: the last update, the channel, the service and the sockets, with the implementation running in between |
| `serviceRpc()` | `RpcSend`, `RpcRecord`, `RpcLook`, `RpcReceive`, `RpcClosed`, `RpcForget`: sending, recording the id, looking in the store, waiting, and forgetting the id are separate steps, because other goroutines run in between |
| `Start()` and loop of the devmode engine | `ImplBegin`, `ImplTake`, `ImplTurn`, `CallFails`, `Services` |

The map of correlation ids is read by one goroutine and written by another
without a lock. The Go runtime may stop the program when it notices, so
`ReceiveResponse` may `Crash` while the other goroutine is about to write, and
`RpcRace` may while two implementation goroutines call through one service.
A handler of the devmode engine panics on some failed calls, hence `CallFails`.
Using a socket from two goroutines is undefined in ZeroMQ, hence the choice in
`RpcClosed` between an error and a call that does not return.

## Devmode

The example consensus implementation is one goroutine. Its `select` takes an
update or, when none comes for 10 ms, looks whether it is time to publish. Each
handler makes one service call after the other, and each call is a step of the
model, so that the validator goes on in between.

| Code | Model |
|---|---|
| `Start()` up to its loop, end of `HandleBlockCommit` | `startWait` (`calculateWaitTime`), `initializeBlock` |
| the timer, `finalizeBlock`, `broadcastPublishedBlock` | `timerExpires`, `summarizeBlock`, `finalizeBlock`, `broadcastPublishedBlock` |
| `HandlePeerMessage`, `sendBlockAck` | the same names |
| `HandleBlockNew`, `checkConsensus`, `checkBlock`, `failBlock` | the same names |
| `HandleBlockValid` | `HandleBlockValid`, `sendBlockReceived`, `getChainHead` (`Compared`), `getChainBlock` (`Walked`), `commitBlock`, `ignoreBlock` |
| `HandleBlockCommit`, `cancelBlock` | the same names |
| updates without a case | `ignoreUpdate` |
| validator (external) | `PeerBlock`, `Message`, `Validate`, `Commit`, `Signed` |

`pc` is the call the goroutine is about to make. `ConsensusService` says which
error each call makes of the validator's status, and the wrappers panic on all
errors or put up with some. The validator replies as its state calls for, or,
within `MaxEvents`, with a fault. A commit that was ordered takes effect later:
`protos/consensus.proto:389` says that OK does not mean the block has been
committed. When it does, the validator may drop the candidate or keep it.

A block is its parent, its height and whether its payload is what
`createConsensus` makes of its summary. The ids are numbers in the order of
`bytes.Compare`. `GetBlocks` and `SendTo` of `HandleBlockValid` are one step,
since neither meets the rest of the state. The shutdown update is in
`ConsensusEngine`: it is a pointer there, and matches no case of the switch.

## The transaction families

`Context` says what a handler sees of the validator (a reply is OK, an
authorization error, or lost) and which response the worker makes of the
handler's error. The validator keeps what a transaction wrote only if the
response is OK, and runs transactions that meet one after the other: this is
external, and it is why a whole `Apply` is one step, taken over every combination
of replies, and an `Apply` that returns an error no step at all.

| Code | Model |
|---|---|
| intkey `Apply` | `IntkeyApply`: `WellFormed`, `Applicable`, `NewValue`, `Updated`, `IntkeyError` |
| smallbank `apply...` | `CreateAccount`, `DepositChecking`, `WriteCheck`, `TransactSavings`, `SendPayment`, `Amalgamate`, over `saveAccount` and `uint32` |
| xo `Apply`, `validate...`, `isWin` | `Create`, `Delete`, `Take`: `CreateErrors`, `DeleteErrors`, `TakeErrors`, `Taken` |
| xo `XoState` | `SetGame`, `DeleteGame`, `LoadErrors`, `Malformed` |
| noop `Apply` | `NoopApply` |

A handler returns the first error of a list, so its checks are a list in the
order of the code (`FirstError`). In smallbank nobody looks at the result of
`saveAccount`; there the model chooses whether the validator recorded the account.
A payload of smallbank is assumed to carry the data of its own type. In xo an
`Apply` that panics (a space off the board, a name too wide for the frame
`displayTake` draws) ends the processor without a response.

`Families` composes them: a processor registers the handler of one family.

## Runs

Every configuration says `CHECK_DEADLOCK FALSE`: both programs stop after a
shutdown or an error, a bounded environment runs out of things to send, and a
finished game may be all there is.

| Run | Checks | Result |
|---|---|---|
| `tp_safety` | `TypeOK`, `RoutedToCaller`, `NoLostCall`, `AnsweredAtMostOnce`, `RouterNeverWaits`, `NoStandstill`, `DeniedOnlyWhenOccupied`, and `IsRequestService`, the refinement | hold (783,038 states, 3 min) |
| `tp_liveness` | `EveryRequestAnswered`, `IdleShutdownEnds`, `FirstCommandObeyed` | hold (161,142 states, 1.5 min) |
| `tp_shutdown_ends` | `ShutdownEnds` | violated |
| `tp_early_request` | `EarlyRequestTolerated` | violated |
| `ce_safety` | `TypeOK`, `UpdatesInOrder`, `ShutdownIsLast`, `ServiceIsolated`, `ActiveTogether`, `OneStandstill` | hold (2,904,053 states, 2 min) |
| `ce_liveness` | `RegistrationEnds`, `MessagesHandledOrStandstill`, `ShutdownEnds`, with one call | hold (68,774 states, 1 min) |
| `ce_mutual_wait` | `MessagesHandled` with one call | violated |
| `ce_lost_response` | `ResponsesComeBack` | violated |
| `ce_shutdown_update` | `ShutdownReturns` | violated |
| `devmode` | `PanicsOnlyOnFault`, `ForkChoice`, `ChainPassesCheck`, `StaleCandidateReplaced`, `OwnBlockPasses`, `NoBlockForgotten`, `PublishingAtHead`, `EveryBlockJudged`, `PublishingResumes`, `PublishesAtHeight`, and `IsBlockJudgement`, the refinement | hold (76,077 states, 1 min) |
| `devmode_wait_time` | `WaitTimeFromSettings` | violated |
| `families` | `IntkeyTypeOK`, `IntkeyIsKeyValue`, `IntkeyLossesRetried`, `TransfersConserve`, `WithdrawalsExact`, `GamesConsistent`, `MovesLegal`, `XoLossesRetried` | hold (22,173 states, 1.5 min) |

### What holds

*Routing.* Answers reach the worker that made the call, while it waits and only
once, and the store for other calls' messages stays empty (`RoutedToCaller`). A
call of a waiting worker is always somewhere on its way (`NoLostCall`).

*Requests.* The processor implements `RequestService` (`IsRequestService`): on a
connection it serves, a request is answered once, and disappears without an answer
only by ending a worker that cannot handle it or in a shutdown. A request is in
one place of the processor at a time (`AnsweredAtMostOnce`). It is denied only if
the processor holds more requests than `max_occupancy`, the limit it announced
(`DeniedOnlyWhenOccupied`). If it has a handler and workers are left, which is so
while fewer requests without a handler have come than there are workers, it is
answered in the end (`EveryRequestAnswered`). The router itself can always go on
while it serves, even if every worker is blocked for ever (`RouterNeverWaits`).

*No standstill.* Router, workers and validator never all wait for each other
(`NoStandstill`). While the router polls and the processor holds a request, the
router has a socket to serve, or a worker can go on, or the validator owes an
answer, unless every worker has ended. A registration waits only for a
confirmation that is still to come, and a lost connection is on the monitor
socket or has become a command. The consensus engine has one standstill, that of
`ce_mutual_wait`, and no other (`OneStandstill`): a full channel with an
implementation in a call. As long as there is a notification to hand on the loop
has a socket to serve, and the implementation of the present pass has neither
returned nor is stuck. Over time the same: unless that standstill lasts for ever,
every notification is acknowledged and every ping answered
(`MessagesHandledOrStandstill`), and every shutdown or restart ends
(`ShutdownEnds`). Registration ends in any case (`RegistrationEnds`).

*Stopping the processor.* A shutdown or restart that finds the pool at rest ends
(`IdleShutdownEnds`). The command that is first on the shutdown socket is obeyed,
also while the processor waits for a registration (`FirstCommandObeyed`). Only
the first: when a connection is lost just before a signal comes, the router finds
`restart`, and the `shutdown` behind it goes with the socket.

*Updates.* The implementation gets every notification of a connection that
unmarshals once and in order, however far it lags behind, and what is
acknowledged and was not malformed has been put in its channel
(`UpdatesInOrder`). The shutdown update is the last, and whoever finds the channel
closed or the service cut has it in the channel or has taken it
(`ShutdownIsLast`). A call that an implementation has made through the service of
an earlier connection ends with that connection (`ServiceIsolated`); a new call of
an old implementation goes through the new service, since the two share the
field. Engine and validator agree that the engine is active, with either of the
two activation protocols (`ActiveTogether`).

*Devmode.* The engine panics only when a call failed through no doing of its own
(`PanicsOnlyOnFault`) or on a message of a peer whose type it does not know, which
`HandlePeerMessage` does on purpose; and a validator that builds on an old head is
about to be told otherwise (`StaleCandidateReplaced`). It commits a block exactly
if the fork rule prefers it to the chain whose head it read (`ForkChoice`);
`Better` states the rule by the ancestors of the head, without the comparison and
the walk. Every block of the validator's chain has the right consensus data
(`ChainPassesCheck`), and so has a block of the engine's own (`OwnBlockPasses`).
Every block is judged (`EveryBlockJudged`), the engine publishes at each height
(`PublishesAtHeight`), and an attempt that came too late for its candidate does
not stop it (`PublishingResumes`). The safety behind these: a block that is not
judged is always with somebody, in an update, a handler or an ordered commit, or
waits for its parent (`NoBlockForgotten`). Engine and validator together implement
`BlockJudgement` (`IsBlockJudgement`): each block is checked or failed, found
valid or not, committed or ignored, in this order and each once. And
`publishedAtHeight`, which `finalizeBlock` also sets when it published nothing,
can be relied on once the engine has acted on the commits it was told of: it is
set only if a block was published on the head or a call failed, and while it is
not set the engine builds on the head (`PublishingAtHead`).

*Families.* Seen by name, intkey is one integer per name that is set once and
stays in its range (`IntkeyIsKeyValue`, which implements `KeyValue`). A transfer
between two customers takes exactly the amount from the one, without wrapping, and
adds it to the other, unless the other's checking balance overflows: nothing
checks that sum, and 2^32 is lost then (`TransfersConserve` names this as the
exception). Withdrawals take what was asked for, the least 32-bit integer included
(`WithdrawalsExact`). The state of a game tells what its board shows
(`GamesConsistent`), a move adds one mark, and games that share an address do not
disturb each other (`MovesLegal`). A lost exchange may delay the verdict on an
intkey or xo transaction, never change it (`IntkeyLossesRetried`,
`XoLossesRetried`): validators must agree. For smallbank this is not so, because
the results of its saves are ignored.

### What does not hold

Each of these runs takes a sentence from a comment of the code and shows a
behaviour of the code that contradicts it; the `findings` of `PROJECT.json` quote
the sentences.

- `tp_shutdown_ends`: a worker waits for an answer when the router closes the
  workers' socket. The receive does not fail, as the comment expects; nothing
  more comes, and `shutdown()` waits for that worker for ever.
- `tp_early_request`: a request that arrives before the confirmation of a
  registration is put on the queue, and then the registration fails.
- `ce_mutual_wait`: the channel is full and the implementation is in a call. The
  engine waits for room in the channel, the implementation for an answer that
  only the engine can pass on. `performShutdown()` can wait in the same way.
- `ce_lost_response`: the answer comes between the sending of a call and the
  recording of its id. It is dropped, and the call does not return.
- `ce_shutdown_update`: the shutdown update is a pointer, and the type switch of
  the devmode engine has a case for the value. After a restart the old
  implementation goes on beside the new one.
- `devmode_wait_time`: `calculateWaitTime` reads the settings only if the call
  for them failed, so the wait is 0 whatever they say.

### Bounds

Two workers and a queue of one place, with two good requests and a bad one, are
the least with which a request is denied, two calls are under way at once, and one
worker ends while another serves on. Two state calls and one repeated answer let
a repeated answer come while the same worker waits for its next call. One
disconnection gives a restart, and with the shutdown at any time, the two in
either order. Two registrations make the loop in `start()` turn. Workers and good
requests are interchangeable, so the safety run uses symmetry; the liveness runs
do not.

For the consensus engine, three notifications are one more than the channel of
two places holds (two is the capacity in the code), so the engine waits for room in
it; the second of them is malformed in the safety run, so that one on either side
of it is handed over. Two calls and one disconnection allow a call of the old
implementation and one of the new at once, through one service or two. A repeated
answer takes one of the calls from this budget (`MaxCalls`): it comes with one
call. The liveness run has one call, with which the channel can be full while the
implementation is in it, a ping, a refused registration and a shutdown, and no
restart: what follows a restart begins with a fresh channel and fresh sockets.

The devmode engine starts on a chain of three blocks with two more ids to give,
to peers or to its own blocks. One of these is the least of all and one lies
between the ids of the head and of its parent, so that forks win and lose at the
height of the head and after walks of one turn and of two. Two blocks are enough
for two commits to be under way, for a fork on a failed block, and for a block of
a peer to overtake one the engine is building. One disturbance (`MaxEvents`) is a
message, a block not ready, or one failing call, at any point; with two TLC needs
about ten minutes.

Intkey has two names at one address, one at another and one too long, and values
below, within and above a range of four. Smallbank has two customers and balances
of two bits (`Modulus`), the least in which sums and differences wrap and the
least signed value is its own negation. Xo has the whole board for one game, next
to a second at the same address and a barred name, with two players, who may sit
on either side or both. Customers and players are interchangeable.

`MaxQueue` is at least 1: with 0 the code's channel is unbuffered, and whether a
send succeeds depends on a worker being at the receive at that moment.

### Fairness

- The router, the engine, each worker and each implementation are goroutines,
  which the Go scheduler does not starve: weak fairness of each one's steps.
  With it, handlers return.
- An implementation selects among its channel and a timer. A `select` chooses at
  random among what is ready, so it does not pass over the channel for ever:
  strong fairness of `ImplTake`.
- The validator answers registrations and calls, and activates an engine it has
  registered: weak fairness. Sending requests, notifications and pings, repeating
  answers, disconnecting and calling `Shutdown` are never required.
- Devmode: weak fairness of the goroutine, and of the validator's ending what it
  was told to do (`Validate`, `Commit`). The timer of its `select` is part of the
  goroutine's steps and has no fairness of its own: blocks and messages run out
  in the model, as a validator that sends without a pause of 10 ms could starve it.

## Proofs

Every safety property of the passing runs, the refinements and the action
properties included, is also a theorem, except `RouterNeverWaits`. The theorems
hold for all values of the constants that satisfy the assumption of their module,
which the runs evaluate. Few of the properties are inductive; what follows gives
the invariants that are, and why the property follows.

### Transaction processor

`TransactionProcessorTypes` proves `TypeCorrect`: `Spec => []TypeOK`.
`TransactionProcessorRouting` proves `RoutingCorrect`: `Spec => []RoutedToCaller`,
`CallsNeverLost`: `Spec => []NoLostCall`, and `ProcessorGoesOn`:
`Spec => []NoStandstill`. `TransactionProcessorRequests` proves
`RequestsAnsweredAtMostOnce`: `Spec => []AnsweredAtMostOnce`,
`ProcessorIsRequestService`: `Spec => IsRequestService`, and
`DenialsAreJustified`: `Spec => DeniedOnlyWhenOccupied`.
All are for any sets of workers and requests and any bounds that satisfy
`ConstantsAssumption`. It says, among other things, that the validator's ids of
requests and the processor's ids of calls are different: the processor draws its
own at random (`GenerateId`) and takes them to meet no other.

`TypeOK` is inductive. There is one step per action, and lemmas about writing to
and reading from one of a family of pipes.

`RoutedToCaller` is not inductive: it speaks of an answer only when it is already
in a worker's inbox. `RoutingInv` follows a call all the way:

- `IdsAwaited`: an entry of `ids` names a worker that waits for that very call,
  and has nothing in its inbox;
- `CallPending`: a call the router has not read is the last thing in its worker's
  pipe, the worker waits for it, and it is not in `ids`;
- `InboxAwaited`: what is in an inbox is the awaited answer, alone, and its entry
  is gone from `ids`;
- `CallsFresh`: no two workers wait for the same id, and ids to come are larger;
- `NothingSaved`: no connection has stored anything.

The argument: an answer passes only if `ids` has its entry. By `IdsAwaited` the
worker waits for it with an empty inbox. The delivery deletes the entry, so that
a repeated answer finds none, and freshness keeps an entry from coming back.

`NoLostCall` rests on `RoutingInv` and on `CallInv`: while the processor
registers or polls on a live connection, the answer to a waiting worker is in its
inbox, or its call is still in its pipe, or `ids` has the entry and the answer is
to come. `RoutingInv` gives the step that matters: another worker's call or
answer never takes the entry away, because ids are fresh.

`NoStandstill` rests on `CallInv` and on `StandInv`:

- `LossNoticed`: while the processor registers or polls, a lost connection is on
  the monitor socket or there is a command;
- `ConfirmationComing`: while it registers the queue is empty, and a confirmation
  is on its way or the validator has still to send it;
- `PolledReady`: a socket that a poll reported is still readable when its turn
  comes, because only the router reads from it;
- `WorkersAtWork`: a worker has a request only while it applies it, and is stuck
  only after the router has closed its socket.

If a poll's result is not used up, the router has a socket to serve by
`PolledReady`. If it is, a request in a pipe makes a socket readable; one in the
queue or with a worker leaves a worker that takes it, applies it, or waits for an
answer, and that answer is by `CallInv` in its inbox, in a pipe the router polls,
or with the validator; without a connection, `LossNoticed` gives the socket.

`AnsweredAtMostOnce` and the refinement rest on `RequestInv`, which for every
request has three parts:

- `Single`: it is at most once in the validator's pipe, in the queue, with a
  worker, and in a worker's pipe;
- `Apart`: it is in at most one of these places, and in none once it is answered;
- `JobHeld`: a worker that is in a handler holds the request it took.

`Effect` sums up what a step may do to the requests: connect with none, keep all,
answer one it holds, lose what it holds with the connection, drop one that has no
handler, or get one it has not seen. Every action has one of these effects and
keeps `RequestInv`. With the requests held as the open ones of `RequestService`,
each effect is a step of the abstract service or a stutter.

`DeniedOnlyWhenOccupied` compares cardinalities. At a denial the queue is full,
and by `Single` its places hold as many different requests; by `Apart` the one
that is denied is not among them. To count them all, the set of requests held
must be finite. That is not assumed of the constants: it is a subset of `sent`,
which starts empty and gets one request at a time (`OccupancyInv`).

### Families

`FamiliesProofs` proves each family's properties of that family's own
specification. The lemma `FamilySteps` carries them over to a processor for any of
them: its steps are steps of one family or leave that family's state alone.

Intkey, for any names, any assignment of names to addresses and any range
(`IntkeyAssumption`): `IntkeyTypeCorrect`, `IntkeyRefinesKeyValue` and
`IntkeyLossesAreRetried`. `IntkeyTypeOK` is inductive. For the refinement, a step
writes one map, in which only the name of the payload has changed (`Updated`); a
name of another address, or another name of this address, reads as before, so the
step is one of `KeyValue` for that name, or a stutter. A lost exchange is the
first error of the handler or comes behind another one, and `FirstErrorIs` says
what the first error of a list is.

Smallbank, for any customers and any even width of the balances
(`SmallbankAssumption`): `TransfersConserved` and `WithdrawalsAreExact`, from the
invariant that balances stay in their width (`BankHeld`). What is hard here is the
arithmetic: `Wrapped`, `SumWraps` and their kin say what `uint32` makes of a sum,
a difference and a negation, and `NegatedWraps` that the absolute value of the
least `int32`, whose negation overflows, is still right after the conversion. Each
handler has a lemma with what it checked and wrote.

Xo, for any games, players, addresses and spaces (`XoAssumption`, which says that
no player's key is the empty string): `GamesAreConsistent`, `MovesAreLegal` and
`XoLossesAreRetried`. `XoInv` is `GamesConsistent` with the types of the games,
and is inductive. A `Take` that is accepted puts the letter whose turn it is on an
empty space; the lemmas on the board say how the numbers of marks and
the lines change when one space gets a letter, so a board with a line gets the
state that names its owner, and never two owners.

### Devmode

`DevmodeProofs` proves `PanicFree`, `StaleCandidates`, `ChainsPassCheck`,
`OwnBlocksPass` and `ForkChoiceRight`: `Spec` implies that `PanicsOnlyOnFault`,
`StaleCandidateReplaced`, `ChainPassesCheck`, `OwnBlockPasses` and `ForkChoice`
always hold, for any ids, chain, settings and bounds (`DevmodeAssumption`).

`PanicsOnlyOnFault` is not inductive: `initializeBlock` could find a candidate.
`PanicInv` adds that while the goroutine is between `cancelBlock` (or the start)
and `initializeBlock`, the validator has none; nobody else makes one, and the
calls in between leave it. For `StaleCandidateReplaced` the invariant is itself
kept by each step, with the type of the queue of updates and the fact just named:
a commit that moves the head announces itself behind whatever is queued, and the
update is taken only on the way to `CancelBlock`.

`ChainPassesCheck` follows a block from its announcement to the chain (`JudgeInv`):

- `Tree`: a block is one higher than the known block it is on, or the first;
- `Judgement`: a block that passed has good consensus data, and is on one that
  passed;
- `Announced`: a block is announced once, before the engine has judged it, and is
  reported valid only if it passed; `Ordered`: what the engine told the validator
  to commit has passed, as has the head;
- `InHandOK`: the block a handler has in hand is new and will not be announced
  again, or has passed.

The blocks that passed are then a set that holds the head and, with each block
above the first, the one below it. `Ancestors` of the head is the least such set,
so it is inside.

`OwnBlockPasses` rests on `OwnInv`: when `finalizeBlock` goes on to finalize
without a fault, it has the summary from which `createConsensus` makes the data,
or the candidate has gone and there will be no block.

`ForkChoice` rests on `JudgeInv` and `WalkInv`. While `getChainBlock` walks down
from the head, the block it has reached is an ancestor of the head, higher than
the block in hand, and every other ancestor is above it or one of its own
ancestors (`Walking`). The ancestors of a block are the block and those of its
parent (`BelowNext`), and are lower than the block itself (`BelowLower`); so when
the heights meet, the block reached is the only ancestor of that height, and the
comparison of the two ids decides as `Better` does. Heads and blocks that come
during the walk change nothing, since blocks are only added (`ChoiceStays`).
`Ancestors` is defined without recursion, as the least closed set, which lets the
proof do without induction along the chain.

`DevmodeJudgement`, on top of these, proves `BlocksRemembered`,
`JudgementStepByStep` and `PublishingFollowsHead`: `Spec` implies
`[]NoBlockForgotten`, the refinement `IsBlockJudgement`, and `[]PublishingAtHead`,
under the same assumption.

The first two rest on `JudgeInv` and `FateInv`, which keeps the verdict on each
block in step with what is queued about it:

- `Told`, `Committing`: an update that a block is valid, or an ordered commit, is
  the only one about its block, whose verdict says the same;
- `Hand`: the block a handler has in hand is at the stage the handler is for, and
  no update about it is left in the queue;
- `Remembered`: a block with the verdict new, valid or committing has the update,
  the handler or the commit that will end it;
- `Rooted`: parents lead to the first block of the chain, which is committed.

Every step of the engine is one of four kinds: it leaves the blocks alone
(`Quiet`), takes an update in hand (`Taken`), records a verdict with a directive
(`Recording`), or adds a block (`Joining`). `FateStep` says of each kind, and of
`Validate` and `Commit`, that it keeps `FateInv` and is a step of
`BlockJudgement` or a stutter. A directive cannot be given twice or out of turn,
because by `Hand` and `Told` the update that led to it was the only one.

`PublishingAtHead` rests on `PanicInv`, `OwnInv` and `PublishInv`: the flag is
not set from `initializeBlock` to `finalizeBlock`, and unless the engine is about
to follow the head or a commit is queued, the flag tells the truth. The step that
matters is `finalizeBlock`, which sets the flag even when there was no candidate.
Before it the flag was not set, so the candidate was on the head; if it is gone,
a commit has moved the head since, and its update is in the queue.

### Consensus engine

`ConsensusEngineProofs`, with the types, the channels and the registration in
`ConsensusEngineTypes`, proves `EngineTypeCorrect`, `ServicesIsolated`,
`ShutdownAlwaysLast`, `EngineActiveTogether`, `UpdatesKeepOrder` and
`EngineGoesOn`: `Spec` implies that `TypeOK`, `ServiceIsolated`, `ShutdownIsLast`,
`ActiveTogether`, `UpdatesInOrder` and `OneStandstill` always hold, for any
capacity, any bounds and any malformed notifications (`BoundsAssumption`). None of
the six is inductive, not even `TypeOK`: that a waiting call has an id at all
depends on where its goroutine is. `EngineInv` adds to `TypeOK`:

- `ChannelInv`: a pass of the loop in `Start()` without an implementation has an
  unused channel and an open service; while the loop serves a pass, its channel is
  open and holds no shutdown update; and each step of `performShutdown` finds what
  the one before it left, up to a new pass, which begins after the old service is
  cut. `ShutdownIsLast` is part of it;
- `CallInv`: nobody holds a service of a pass to come, and a goroutine in a call is
  of a pass no later than the service it calls (`Calling`); calls have ids of
  their own (`Distinct`); and a call through an earlier service is in no pipe, not
  with the validator, and not recorded by the present service (`Apart`);
- `RegisterInv`: while the engine registers on a live connection, at most one
  answer is on its way, none before the validator has seen the request, and the
  one with the startup state only from a validator that has activated the engine.

The argument for `ServiceIsolated`: a call gets a fresh id and is sent only while
its service is open, which by `ChannelInv` is the present one (`ServiceOpen`). When
the connection is replaced the pipes are emptied and the validator knows a new
peer, so the calls under way are in none of them. After that only a goroutine that
uses the present service records ids there, and by `Distinct` they are others; an
answer passes only if the present service has recorded its id.

`UpdatesInOrder` speaks of the loop only. `DeliveryInv` says the same from the
registration on, when notifications may already be on their way: the channel holds
the updates from the last taken to the last acknowledged but for the malformed
ones, the one in hand is the next, and the notifications in the pipe are the rest,
in order and without a gap (`Carries`). `Carries` compares ids and positions
instead of filtering the pipe, whose recursive definition the prover could not
follow.

`OneStandstill` rests on `EngineInv`, on `DeliveryInv` and on a `StandInv` of four
parts. `LossNoticed` and `PolledReady` are as for the processor. `MessageComing`:
the message that startup waits for is in the pipe or still to be sent; for the
activation this takes that a confirmation without startup state is the last
message only as long as the validator has not activated the engine.
`ImplRunning`: the implementation of the present pass runs, because a goroutine in
a call uses no earlier service than its own (`Calling`), which is open
(`ChannelInv`), and no update in its channel makes it return. That a notification
not acknowledged is in the pipe is `DeliveryInv`.

### What is only model-checked

- Liveness, which is beyond the prover: `EveryRequestAnswered`,
  `IdleShutdownEnds`, `FirstCommandObeyed`, `RegistrationEnds`,
  `MessagesHandledOrStandstill`, `ShutdownEnds`, `EveryBlockJudged`,
  `PublishingResumes` and `PublishesAtHeight`.
- `RouterNeverWaits`, which says with `ENABLED` that the router has a next step;
  the prover has no rules for `ENABLED`.

## Not modelled

- Sockets that fail to open and messages that fail to marshal. During the startup
  such errors end `Start()`; later they are logged. Content that does not unmarshal
  is modelled where it comes in while the programs serve: requests without a
  handler and malformed notifications.
- What is inside a notification: one that unmarshals is taken to have the parts
  `handleUpdate` reads.
- Time: the three seconds `shutdown()` waits always pass, and the back-off of
  the consensus registration and the wait time of devmode have no duration.
- ZeroMQ's high-water marks: pipes are unbounded.
- The ERROR status of `AddReceiptData` and `AddEvent`, which no handler of the
  repository calls, and `RecvMsg` from a store that is not empty, which no
  connection of the SDK meets.
- Hashing and encoding: an address is a function of the name, and what was stored
  is read back, except where a name would upset it (`Malformed`).
- Signing and logging: pure functions and output.
- The intkey client and the flags of the example programs: HTTP, command lines and
  output. The client's one loop polls a service outside the repository.
- Generated code. About three quarters of the repository's 27,000 lines of Go are
  accessors, descriptors and registrations generated from `protos/`, next to a
  generated mock. They hold no decisions of this program: what the program does
  with a message is modelled where it is done. The share of lines the models
  stand for is for that reason small, and cannot be much larger; of the code written by hand
  they stand for nearly half (imports and comments count as lines), and the rest is
  what this list names.
