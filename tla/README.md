# Formal model of the valve controller

The valve-controller drives Zigbee irrigation valves through Tasmota bridges. A
REST call asks for a valve to be opened or closed; a pipeline per valve sends the
MQTT command, waits for the device to confirm it, retries, closes the valve again
after a timed open, and mirrors the state into a Kubernetes resource. What must
never go wrong is simple to say - a valve must not stay open by accident - and
hard to test, because the pipeline shares its state between API calls, its own
goroutine and a safety ping, over a network that loses messages.

The TLA+ modules here model that code. TLC checks them on small instances, TLAPS
proves every invariant the runs check, and the refinement, for every value of the
constants.

## Inventory

| Part | State | Operations | Module |
|---|---|---|---|
| Valve pipeline (`internal/scheduler/pipeline.go`, `action.go`) | `actionCh`, `current`, `cancelFn`, `history`, `info.State`, `info.Config`, the `Action` objects | `Enqueue`, `run`, `execute`, `attemptWithRetry`, `applyDeviceState`, `markCloseUnconfirmed`, `updateActionID`, `keepClosedPing` | `Pipeline` |
| Confirmation waiter (`waitForPower`), dispatcher (`internal/mqtt/dispatcher.go`) and `handleSensor` | `handlers`, per wait the channels `ch` and `done` and the variable `unsub` | `Subscribe`, unsubscribe, `Dispatch`, handler, context goroutine | `WaitForPower` |
| Bridge manager and clients (`internal/mqtt/manager.go`, `bridge.go`) | `bridges`, per client `connected`, the paho connection, subscriptions | `Upsert`, `Remove`, `StopAll`, `Connect`, `Disconnect`, `onConnect`, `onConnectionLost`, `resubscribe` | `BridgeManager` |
| MQTTBridge reconciler (`internal/k8s`) | none of its own | `Reconcile` | `BridgeManager` |
| Scheduler registry (`internal/scheduler/scheduler.go`) | `pipelines`, `cancels` | `RegisterValve`, `DeregisterValve`, `Open`, `Close`, `FindKey`, `GetAction`, `ListActions`, `GetValveInfo`, `ListValves` | `Registry`; one pipeline's view in `Pipeline` |
| MQTTValve reconciler (`internal/k8s`) | none of its own | `Reconcile`, `findDevice`, `patchReadyCondition`, the two map functions; `UpdateValveStatus` | `Registry`; status writes and config changes in `Pipeline` |
| ZbStatus3 query (`checkClosedWithStatus3`, `SendZbStatus3`, `handleResult`) | `zbStatus3Chs`, a channel per query | query, route an answer | `StatusQuery` |
| Tasmota payloads (`internal/mqtt/tasmota.go`) | none | `ParseSensorPayload`, `ParseZbStatus3ValvePower`, `dispatchKey` | `Tasmota`, operators |
| REST handlers (`internal/api/handler.go`) | none | open, close, lookups, name resolution; readiness | `Registry`, and as callers of `Pipeline` |
| Process (`cmd/controller/main.go`) | the root context | signal, exit, restart | `Registry`, `BridgeManager` |
| Router, TLS, metrics, database, CRD types, Helm chart | - | - | not modelled: no logic of the controller's own |

How they interact. An API handler runs `Scheduler.Open`/`Close`, which reads the
pipeline's config under its lock, creates an `Action` and calls `Enqueue`. The
run goroutine takes actions from the channel, publishes through the bridge
manager and blocks on a channel that `waitForPower` fills from the dispatcher,
which MQTT callbacks feed. The keep-closed goroutine publishes OFF on a ticker,
without going through the channel, and records a confirmation itself. Reconcilers
replace the config, cancel the pipeline's context, and create, replace or remove
bridge clients. Everything meets in `p.mu`, `mgr.mu`, the dispatcher's lock and a
few channels.

What is hard: three goroutines per valve interleave between critical sections;
a check and the action it guards are often in different ones; commands and
reports are lost, delayed or unsolicited; status writes fail or overtake each
other; contexts end at any point; `Enqueue` works at the limit of its channel;
configuration changes under a running action; paho callbacks arrive late; a
reconciler installs what it read some time ago; lookups read two places in turn.
`PROJECT.json` lists each such hazard with its line and the properties for it.

What makes each part correct: the pipeline comes to rest closed, executes
actions one at a time and to the end, cancels only what a newer close cancels,
and reports truthfully; a wait answers once, only for a report that says so, and
leaves nothing behind; there is one MQTT session per bridge, none lost from sight,
and on each one the topics are asked for; the registry holds every pipeline that may act and
comes to agree with the resources; a status query hears its own device and ends.

## Modules

**`Pipeline`** is the core. A step is what the code does between two points at
which another goroutine may interfere: one critical section of `p.mu`, one channel
operation, one publish, one status write.

- *Callers*: `Open`, `Close` (with `CancelCurrent`, the locked part of `Enqueue`),
  then `SendToQueue`, or `FindFull` and `DropOldest` and a blocking send. The two
  selects of `Enqueue` are separate steps, since no lock is held.
- *Run goroutine* (`pc`): `Dequeue` (with the upgrade to a timed open and the
  rejection of a disabled valve), `Begin`, `Attempt`, `SendZbSend` once per
  repeated publish, `Confirmed`/`Unconfirmed`/`GiveUp`, `Fulfilled`, `Closing`,
  the hold, the close phase (`phase = "close"`), `Closed`, `MarkCloseUnconfirmed`,
  `ClearActionID`, and `Done`/`Record`, the deferred function. A status write is
  the step `Write`, with the value captured earlier in `pend`. `StopRun` is the
  `ctx.Done()` case of `run`. `SendZbSend` is the return of a publish; at
  `pc = "send"` the goroutine waits for the broker's acknowledgement or the end of the
  context, and without either it stays there, as no timeout covers the publish.
- *Keep-closed goroutine* (`ppc`): `PingTick` .. `PingWrite`. The test of
  `p.current`, the update, the second look at `p.current` and the write are four
  steps, as in the code.
- *Environment*: `Stop`, `UpdateConfig`, `CloseTimeout` (the two-minute context),
  `WaitTimeout`, `DeliverReport`, and the external device and network
  (`DeviceObey`, `Lose`, `Telemetry`). Timers have no length: each may fire at any
  moment after it started.
- `acked` and `last` are history variables: which powers each action saw
  confirmed, and the last command of the run goroutine. They restrict nothing.
- Reads and writes of `a.State` from two goroutines race in the code; a string
  write is modelled as atomic, its interleavings are all there.
- Names, addresses and bridges of a valve are not distinguished here, and neither
  is `p.info.CurrentActionID`, which nothing reads. No code creates a `keep_close`
  action, so the type is left out. A status write for a resource that is gone
  counts as a failed write.

**`ActionService`** is the abstract specification: what a caller of the scheduler
may rely on (one at a time, in order, one final outcome, discarded only while
another action is offered). `Pipeline!ImplementsService` is the refinement, with a
status computed from the channel, the caller's progress and `job`.

**`PipelineClaims`** states what comments in the code say and the code does not do;
each definition is the subject of one run that must find the violation.

**`Tasmota`** holds the parsers as operators. A JSON field is a record with the kind
of its value (absent, null, string, number, other), which is all the decoders react
to. They differ: `ParseSensorPayload` decodes field by field, so that a bad field
counts as missing (but null as 0), while `ParseZbStatus3ValvePower` decodes into a
struct, so that one bad value loses the message. `SameId` says what a reader of the
wire takes for the same identifier; properties use it, never the code's key. What
`ParseZbStatus3ValvePower` returns is a function on the positions of the items it keeps,
so the order in which `handleResult` offers them is that of the message.

**`WaitForPower`** opens up the one step `DeliverReport`/`WaitTimeout` of
`Pipeline`: the caller, the goroutine watching the context and the dispatching
goroutine take single steps on `ch`, `done` and `unsub`. A message becomes events
(`HandleSensor`), which are dispatched in any order, since they come from a map;
`msg` keeps the message for `ConfirmedByReport`. The handlers a `Dispatch` has still to call
are a function from positions in its list to waits (`todo`), called from the front
(`Callee`). A panic stops everything.

**`StatusQuery`**: `Register`, `Publish`, `Receive` or `GiveUp`, and `Cleanup`, the
deferred function, per query; `HandleResult` routes a whole message, under the lock
of the map; since a channel has room for one result, what a query gets from a
message is the first result addressed to it (`ResultsFor`, `Deliver`). `alone` is a history
variable for `Heard`. The conclusion of a query is a log line and left out.

**`BridgeManager`** has one reconciler worker (the controller-runtime default) with
a work queue served in turn, the map of clients, and per client the paho connection
with its callbacks, which run some time after the event and in any order. Host,
port, user and topics, the fields `Upsert` compares, are one value, the address.
`session` says what became of the SUBSCRIBEs of a connection: none sent yet ("bare"),
granted, or sent in vain ("deaf": refused, lost, or none at all for topics of other
types). `resubscribe` looks at no token, so `OnConnect` may leave any of the two, and
nothing in the controller reacts to a deaf session. After the signal the queue takes
nothing more, but what is on it is still reconciled, with a context that has ended: `Connect`
then returns at once and forgets a client that goes on dialling, so that during
these last moments clients can be out of sight or share a name; `OneSessionPerName` and
`NoOrphanClient` speak of the time before.

**`Registry`** has the valve reconciler with a step per read (`GetValve`,
`FindDevice`, `GetBridge`), then `RegisterValve` and `PatchReady`, or the two halves of
`DeregisterValve` (`GetValve` for the maps, `Cancel` for the context). Watches put
valves on the work queue; `delayed` holds those to be tried again. Of a pipeline
only the way of an action through channel, `p.current`, the gap between them
and the history is kept. API calls resolve a key, look up the pipeline, and enqueue
or read; each is a step, as no lock spans them. `Signal`, `Exit` and `Restart` are
the process, whose worker empties its queue after the signal; a restart at any moment is
a crash. Status writes of the pipelines
also trigger a reconciliation in the code; leaving them out leaves only triggers
out, so `Converges` holds without them. `sure` and `missed` are
history variables: `sure` holds of a lookup whose action had begun when the pipeline was
looked up, has not been pushed out of the history, and is current or recorded at
the second read. It stays true while the action moves from `p.current` over the gap to
the history; only a second read that falls into the gap itself clears it.

**`MCPipeline`, `MCWaitForPower`, `MCBridgeManager`, `MCRegistry`, `MCStatusQuery`**
hold the constant values; **`PipelineProofs`, `PipelineServiceProofs`,
`WaitForPowerProofs`, `BridgeManagerProofs`, `RegistryProofs`, `StatusQueryProofs`** the theorems
about the module they are named after, and **`TasmotaProofs`** lemmas about the parsers that
two of them use. Definitions called
`X_something` directly before `X` are deliberately broken forms of `X`: replacing `X`
by one makes the property named in `PROJECT.json` fail, which shows that the
property can fail.

How the modules fit together: `Registry` creates the pipelines that `Pipeline`
models one of, and its `TypeOK` includes what `Pipeline` assumes of a
configuration (at least one attempt); the waiter of `Pipeline` is `WaitForPower`; the
publishes of `Pipeline` and `StatusQuery` succeed or fail as `BridgeManager`'s map has
the bridge or not; `Tasmota` is common to the two message handlers.

## Runs that pass

| Run | Shows | Bounds |
|---|---|---|
| `PipelineSafety` | `RestsClosed`, `StopCloses`, `CancelledForANewerClose`, `HistoryHonest`, `TypeOK` | two calls, one of which may be discarded; channel of 1; all recorded states and both positions at start; stops and failing writes; 2.7 M states |
| `PipelineNet` | `HistoryHonest`, `ActionsEnd`, `SafetyNet` | one call, two attempts, closes sent twice, a hold and a closing phase, config switching between limited and unlimited, both positions at start; 0.23 M states |
| `PipelineQueue` | `ActionsEnd`, `CancelledEnds`, `ImplementsService` | two calls, channel of 1, a broker that need not answer; 0.40 M states |
| `PipelineStop` | `LimitedRestsClosed`, `StopEnds` | one call, a stop at any moment, config switching between two limits and to disabled, a broker that need not answer; 0.43 M states |
| `WaitForPower` | `DeliveredOnce`, `SendFindsRoom`, `ConfirmedByReport`, `WaitEnds`, `TypeOK` | two waits on one device, by address and by name, one dispatching goroutine, six messages; 0.18 M states |
| `Bridge` | `OneSessionPerName`, `NoOrphanClient`, `NoBareSession`, `Converges`, `TypeOK` | two resources, one of which may take the other's name while the other may move to another address, three changes or failing reads, three clients, a shutdown; 2.0 M states |
| `Registry` | `NoOrphanPipeline`, `ListedOnce`, `FoundIfThere`, `Converges`, `TypeOK` | two valves of one name, one device and bridge, two pipelines, two API calls and a lookup, three changes, failing reads or restarts, of which API calls meet one; 1.4 M states |
| `StatusQuery` | `NoStaleEntry`, `RightDevice`, `Heard`, `QueriesEnd`, `TypeOK` | four queries: of one valve by its address in both spellings and by name, and of another valve; five messages; 0.09 M states |

Why the bounds are enough. Two calls are an open and the close that races it, and a
channel of one with a second call reaches full, drop and blocked send. That
`ImplementsService` keeps the order of a longer channel needs three calls; it was
checked once that way (a channel of two, 1.0 M states up to symmetry), and it is
proved for any number of calls and any capacity (`PipelineServesActions`).
`NetCap = 1` still gives loss, delay and unsolicited reports; while the slot is
taken a further command can only be lost, and more in transit only repeats
confirmations the code cannot tell apart. A hold needs one
duration above and one equal to zero; the numbers themselves decide nothing.
`ActionsEnd` has two runs because the ways to hang need different instances: a
blocked `Enqueue` needs two calls; a second attempt, a hold and the closing phase need
a longer action. The hold and the closing phase of `CancelledEnds` were checked
once as well (opens of a duration, 1.15 M states). A device belongs to one bridge, whose
client calls handlers one after the other, hence one dispatching goroutine. In
`BridgeManager` three changes are
create, change and delete (or two resources and a change), and every change makes
at most one client, so `MaxClients` never blocks `Upsert`. In `Registry` the second
valve is created, or the device moved to it, or the first deleted and created again,
which takes both pipelines; three changes fall between the reads of one
reconciliation. A third pipeline does not fit into three changes, so `MaxPipes` never
blocks `RegisterValve`. A history of one entry is pushed out by the second
action. Three queries of one valve are what replacing (same key) and hiding (name
before address) need together.

`PipelineSafety` uses the view `ControlView`, which hides
`cr`, `pid` and the value waiting in `pend`: they are written and never read by the
pipeline, and of the properties of that run only `TypeOK`, which is proved as
well, mentions them. Requests are interchangeable, so it uses symmetry; liveness runs
use neither. Deadlock is checked in all runs of `Pipeline`, though the valve's telemetry can
always go on; the liveness runs say what must go on besides. It is not checked
in the other modules, where a finished wait or query, a crashed process or a used-up
number of changes ends the behaviour.

## Fairness

`RunSpec` asks for weak fairness of the run goroutine, of each caller inside `Enqueue`
and of the timers (the wait of the run goroutine, the two minutes of a closing phase):
the Go scheduler runs what can run and timers fire. A publish is left out of this:
`SendZbSend` waits for a QoS 1 acknowledgement under the context of the action, which
has no deadline, so that fairness of a goroutine in the middle of a publish is asked
for only once that context has ended. `CancelledEnds` and `StopEnds` hold on that
basis. `ActionsEnd` has the broker as its premise: `Answered` says that no publish of
the run goroutine waits for ever, as it does only while the broker is silent.
`StopSpec` adds the ping goroutine to `RunSpec`, with the same exception, and strong
fairness of the two `ctx.Done()` cases, because `select` chooses at random among ready
cases, so a case that is ready again and again is taken. `DeliverySpec`, for
`SafetyNet`, adds the ping goroutine to `RunSpec` and assumes a working environment:
publishes return (`BrokerAnswers`), and a command published again and again gets
through at some point and is obeyed: strong fairness of `PingSend(TRUE)` and
`DeviceObey`. Without it no software could close a valve.

`FairSpec` of `WaitForPower` is weak fairness per goroutine and for the timeout; the
caller that receives from `ch` publishes before, and is taken to come back from that.
`FairSpec` of `BridgeManager` is weak fairness of the worker, whose queue is served in
turn, and of dialling a broker that answers, which paho does for ever; of the
reconnection and of callbacks nothing is assumed. `FairSpec` of `Registry` is weak
fairness of the worker and of the timers that put a valve back on its queue; API
calls, pipelines, shutdown and restart are free to stop. `FairSpec` of `StatusQuery`
is weak fairness of a query once it is registered: its goroutine runs and its timeouts
fire.

## Disagreements with the code's own words

Four runs check one sentence of the code's comments each, and TLC finds a
behaviour of the code that contradicts it. `PROJECT.json` quotes sentence and line.

- `HoldNotOverridden`: a timed open is confirmed and set to fulfilled; a tick sees
  a terminal action and passes the suppression test; the action moves on to
  its hold; the ping publishes OFF, and the valve is shut for the whole hold.
- `CancelledOpenStops`: a close arrives during an open whose publish then fails;
  the loop goes to the next attempt and publishes ON again.
- `DoneClosedOnce`: handler and context goroutine of one wait both find `done` open
  and both close it; the second close panics.
- `ReachableIsServed`: the worker waits for a broker that never answers while a
  reachable bridge stays on the work queue.

The models reach these as well; each was seen in a trace and has no run of its own:

- `pipeline.go:288` "the entire retry budget - up to retryCount × timeout": the publish is not
  covered by that timeout. An action publishes, the broker never acknowledges (`SendZbSend`
  waits under the context of the action, which has no deadline), the wait times out
  unseen, and the run goroutine stays there for ever, while further calls fill the
  channel and, during an open, the ping is suppressed. A close still gets through
  (`CancelledEnds`).
- `scheduler.go:62` "open valves whose keepClosedPing is intentionally suppressed",
  `scheduler.go:93` and `openapi.yaml:108` "Omit for an indefinite open": an open without
  limit is fulfilled and over; the next tick finds no current action and publishes OFF.
  The repository says the opposite too, `pipeline.go:423` "A completed open ... still gets the
  ping; that is the point". This is what the code does and what `SafetyNet` states, for
  opens without limit as well; an open that lasts does not exist in this controller.
- `pipeline.go:460` "the ping never overwrites an in-flight action's bookkeeping": the
  ping is confirmed and sees no current action (`PingWait`), an action begins, and
  `PingApply` then sets the recorded state.
- `mqttvalve_types.go:71` "the last confirmed physical state": a close fails and the
  run goroutine is about to write "unknown"; the ping writes "closed"; the
  older write lands last and stays.
- `mqttvalve_types.go:80` "empty when idle": an open fails; before its slot is
  released a confirmed ping writes its ID; the failure path clears nothing.
- `pipeline.go:422` "A close or keep-close that is still retrying must NOT suppress the
  ping": in the close phase of a timed open `p.current` is still the open.
- `pipeline.go:71` "Non-blocking enqueue; if the queue is full, discard the oldest": of
  two callers that meet a full channel one drops and the other takes the slot, so
  the first blocks; and the worker may take an entry between the two selects, so
  that another is discarded from a channel with room.
- `action.go:68` "a final state": every timed open goes from fulfilled to closing.
- `mqttvalve_types.go:45` "a hard safety limit": a timed open longer than the limit is
  held for its own duration; and a pipeline stopped while an ON is on its way
  returns with a recorded state that is not open, and the valve opens afterwards.
- `pipeline.go:526`, the result of `waitForPower`: an event dispatched after
  `Subscribe` registered the handler and before `unsub` is assigned runs
  `go unsub()` on nil, which is fatal.
- `manager.go:14` "created/updated/removed": a resource deleted without a finalizer
  is not found, and its client stays registered.
- `bridge.go:251` "currently connected": the old client that `Upsert` has disconnected
  keeps `connected` true, and stays in the map until the new one is connected. And of a
  connection that is made and lost, `onConnect` may run after `onConnectionLost`, which
  leaves `connected` true without a connection; `onConnectionLost` after the next `onConnect`
  leaves it false with one.
- `scheduler.go:122` "looks up an action by ID across all pipelines": one pipeline is
  looked at, and an accepted action is not found while it waits in the channel, in
  the gap between `p.current` and the history, or after it was discarded.
- `openapi.yaml:168` "the current in-progress action (if any) followed by the completed
  action history": `ListActions` reads the history while an action is current; the action
  ends and is recorded; the second read finds nothing current, and the list lacks it.
- `bridge.go:168` "Route ZbStatus3 responses to any registered waiters": while queries
  by name and by address of one device are under way only the one by name is
  served, and of two under one key the first is replaced.
- `bridge.go:108` "MQTT connected, subscribing to topics": the tokens of `Subscribe` are dropped, so
  a bridge whose SUBSCRIBE was refused stays connected and hears nothing.
- `tasmota.go:18` "nil if field absent": a power of null is 0, that is, off.
- `manager.go:14`, `mqttvalve_reconciler.go:42`: two resources with one bridge name take
  the client from each other; a valve deleted without a finalizer, or whose device
  was given to another valve, keeps its pipeline, which goes on pinging the device.
- `main.go:150`: the process exits without waiting for the shutdown closes; and a call
  that has looked up its pipeline before the valve was deregistered is answered with
  202 for an action nobody executes.
- `openapi.yaml:44` "All MQTT bridges are connected": a bridge enters the map after its
  first connection, so readiness does not see one that was never connected.

## Proofs

Every invariant that a run checks, and the refinement of `ActionService`, is a theorem
for every value of the constants. The named assumptions of the modules are all that is
assumed of these, and TLC evaluates them in every run. The inductive invariants
were checked with TLC on the instances above before they were proved. The step lemmas
have one step per action, and under it one per conjunct the action can disturb;
actions that touch only frames are grouped.

**`PipelineProofs`**, for any set of requests, any configurations with at least one
attempt, and any capacities of at least 1:

- `TypeCorrect`: `Spec => []TypeOK`, which includes the capacities of channel and
  history. `TypeOK` is not inductive: that an action is being executed at all
  (`job # None`) is needed to type every use of `act[job]`. The invariant is
  `TypeInv == TypeOK /\ ControlOK`, where `ControlOK` ties `job`, `pend.next` and
  the counters to `pc`.
- `ValveRestsClosed`: `Spec => []RestsClosed`. The invariant `SafeInv` follows the
  last command: a confirmed ON of a limited open is the last command only of the
  action being executed, and only at the points from which its close is still to
  come (`LastInv`, with `MustClose`). For that, an ON is confirmed only for an
  action that has started and is no close (`AckInv`), the channel holds accepted
  calls, each once (`QueueInv`), an action being executed has left it for good and
  has attempts to make (`JobInv`), and the shutdown close stays a close (`ShutInv`).
- `LimitedOpensRestClosed`: `Spec => []LimitedRestsClosed`. `LimitInv` adds that a
  job past `Dequeue` is never an indefinite open, given that all configurations
  set a limit; then `SafeInv` excludes the first escape of `RestsClosed`.
- `ShutdownCommandsClose`: `Spec => []StopCloses`. `StopInv` says that the
  shutdown close has been the last to command once it has made an attempt, and
  that `run` ends otherwise only with a recorded state that is not open. Only the
  run goroutine records "open", so the ping cannot spoil it.

**`PipelineServiceProofs`** builds on these:

- `HistoryTellsTheTruth`: `Spec => []HistoryHonest`. `ProgressInv` says for every point of
  `execute` which confirmations the job has by then, and that it is honest from the
  moment the deferred function is reached; `ListedInv` that a listed action is in
  neither the channel nor execution, so that nothing changes it any more.
- `CancelledByANewerClose`: `Spec => []CancelledForANewerClose`. `SlotInv` says that
  a cancelled context of an action has a close of another call behind it that is still
  unexecuted, `ReasonInv` the same of an action whose state is cancelled. The
  argument rests on the deferred function of `execute`, which clears `p.current`
  and `cancelFn` in one critical section before the next action gets a context.
- `PipelineServesActions`: `Spec => ImplementsService`. `ServiceInv` adds `PlaceInv` (an
  action is in one of channel, execution and the discarded ones) to all of the
  above. Initial states map to the initial state; `CallerNext` maps to offering,
  accepting or discarding, `Dequeue` to starting, `Record` to finishing, and
  every other step to a stutter (`ServiceStutters`); the shutdown close is no request.

**`WaitForPowerProofs`**: `WaitTypes`, `EachHandlerOnce`, `WatcherFindsRoom` and
`ReportsConfirm`, for any number of waits, dispatching goroutines and messages. The
invariant `WaitInv` has a part per dispatching goroutine (`SourceInv`: what it has
still to call are waits of the event's device, each once, and it fills a channel only
for the power expected), one for the subscriptions (`HandlersInv`: each under the key of
its target) and one per wait (`RoomInv`). `SendFindsRoom` alone is not inductive: it takes
that a full channel of a wait whose `done` is open belongs to a handler about to close
it (`Closing`), since only then the watching goroutine cannot pass its own test of
`done` and still meet a full channel. That handlers of two dispatching goroutines
may race for one wait is included.

**`BridgeManagerProofs`**: `BridgeTypes`, `OneSession`, `NoClientIsLost` and `SessionsAreAsked`,
for any resources, any assignment of names and addresses, clashing names included. The
invariant `BridgeInv` adds to the properties that a map entry is a client of that
name (`MapInv`), what the worker holds at each point of `Upsert` (`WorkInv`), and that a live
client is in the map or the worker's until the shutdown (`SightInv`); with one worker these
give one session per name, as `Upsert` disconnects what the map has before it dials.
`SessionsAreAsked` says that the SUBSCRIBEs went out on the session there is, not that they
were granted, which the code does not look at.

**`RegistryProofs`**: `RegistryTypes`, `PipelinesInReach`, `ListsHaveNoDuplicates` and
`LookupsFind`, for any number of valves, devices, bridges, pipelines, calls and lookups. The
invariant `RegistryInv` says that both maps agree and lead to pipelines of their
key (`MapInv`), what the worker has read at each point (`WorkInv`), that an action is in
one place of its pipeline, once (`PipesInv` with `PipeOK`), and for a lookup between its two
reads (`LookupOK`): what it read from the history is finished and cannot be current
later, which is why `ListActions` lists nothing twice; and an action that had begun and was
not found current by the first read of `GetAction` never becomes current again, so
that, current or recorded at the second read, it is in the history, which is what is
read then. Each depends on the order of its reads, and the orders are opposite: the mutants
`Reads_currentFirst` and `Reads_historyFirst` break one each. The price of the order of
`ListActions` is that it can omit an action (see above).

**`StatusQueryProofs`**: `QueryTypes`, `MapHasNoStaleEntry`, `AnswersAreOfTheDevice` and
`AloneIsHeard`, for any number of queries and any messages. `QueryInv` adds `AloneInv`: a query
that is alone with its device still has its entry in the map. `AloneIsHeard` then
follows an answer through the parser, `dispatchKey` (`DispatchKeySame` of `TasmotaProofs`: two
spellings of one identifier have one key) and the choice by name first.

What the assumptions on constants stand for. `None` and `NoName` are not a client, key,
pipeline, query or identifier: they are Go's nil and the empty string, which the code
tests for. An identifier that is no address has no spelling to fold (`Identifiers`).
`PayloadsAssumption` says what a JSON field holds when it is a string or a number: any
identifier, and 0 or 1 for a power, the two values the firmware reports; every field may
still be absent, null or of another type. `DevicesAssumption` says that one identifier
on one bridge stands for one device, also inside a message; `Heard` is about devices and
means nothing without it. `RegistryAssumption` types the resources and says that the set
of keys is finite, as an API server's list is.

Only model-checked: the liveness properties (`ActionsEnd`, `CancelledEnds`, `SafetyNet`,
`StopEnds`, `WaitEnds`, `Converges` of `BridgeManager` and of `Registry`, `QueriesEnd`). They need fairness
and `ENABLED`, which are out of the prover's reach. The four claims that the code
contradicts are refuted by a trace, which is all there is to show.

## Plan

Order of work, most important first; done unless marked.

1. `Pipeline` with `ActionService`, its claims, runs and the first theorems.
2. `WaitForPower`, the races under the confirmation step.
3. `BridgeManager`, connections and readiness.
4. `Registry`, which pipelines exist and what the API finds in them.
5. `StatusQuery` and `Tasmota`, answers and the parsers under them.
6. Proofs of every checked invariant and of the refinement.
7. *Next:* action properties (what a step may never do to a finished action, to a
   registered pipeline, to a disconnected client) checked and proved from the same
   invariants; the safety half of the liveness arguments (no wait or caller is in a state
   without a step) where it can be stated without `ENABLED`.

## Not modelled

Durations and clock values (only the order of events matters here); metrics and
logging; the probes and the fields of API responses, which only read; JSON encoding
and MQTT topics; TLS and routing; `ParseResultPayload`, which decides on a log line, and
`UpdateSensorFields`, which nothing calls; the database package, which nothing opens;
generated code and deployment files. A shutdown close that meets a bridge map already
emptied is the failing publish of `Pipeline`; the two modules are not composed, since
their product is out of TLC's reach and adds no step. Two controllers running
against one cluster are outside the model, the deployment runs one replica.

## Running

    tlc -workers 2 -config PipelineSafety.cfg MCPipeline
    tlapm PipelineProofs.tla

`PROJECT.json` names the module and configuration of every run; the proof modules are
checked with `tlapm`, one by one.
