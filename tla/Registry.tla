------------------------------ MODULE Registry ------------------------------
(***************************************************************************)
(* Which pipelines exist, and what the API finds in them: the maps of       *)
(* Scheduler, MQTTValveReconciler, the lookups of the REST handlers and the *)
(* shutdown in main.                                                        *)
(*                                                                         *)
(* One controller worker reconciles MQTTValve resources one after the       *)
(* other; API requests and the run goroutines of the pipelines interleave   *)
(* with it.  Of a pipeline only the way of an action through channel,       *)
(* p.current and history is kept; Pipeline has the rest, the limit of the   *)
(* channel included.                                                        *)
(***************************************************************************)
EXTENDS Naturals, SequencesExt

CONSTANTS
    Keys,           \* "namespace/name" of the MQTTValve resources
    NameOf,         \* their names: two namespaces may use the same one
    Devices,        \* MQTTDevice resources, by the identifier commands go to
    Bridges,        \* MQTTBridge resources
    ValveSpecs,     \* what a valve's spec may say: [retry, disabled]
    DeviceSpecs,    \* what a device's spec may say: [ref, bridge, disabled]
    BridgeSpecs,    \* what a bridge's spec may say
    Clusters,       \* resources there may be when the process starts
    Acts,           \* calls of Open and Close, by the action they create
    ShutdownClose,  \* the close that run creates when its context ends
    Readers,        \* calls of GetAction, ListActions and GetValve
    HistoryCap,     \* maxHistorySize (100 in the code)
    MaxPipes,       \* bound: pipelines created
    MaxChanges,     \* bound: changes of resources, failing reads, restarts
    ApiChanges,     \* bound: how many of these a call of the API may meet
    None

Pipes == 1 .. MaxPipes

Valves == [spec : ValveSpecs, deleting : BOOLEAN, ready : BOOLEAN]

ASSUME RegistryAssumption ==
    /\ IsFiniteSet(Keys) /\ None \notin Keys /\ None \notin Pipes
    /\ ValveSpecs \subseteq [retry : Nat, disabled : BOOLEAN]
    /\ DeviceSpecs \subseteq [ref : Keys \cup {None}, bridge : Bridges, disabled : BOOLEAN]
    /\ HistoryCap \in Nat \ {0} /\ MaxPipes \in Nat
    /\ MaxChanges \in Nat /\ ApiChanges \in 0 .. MaxChanges
    /\ ShutdownClose \notin Acts
    /\ Clusters \subseteq [valve  : [Keys -> Valves \cup {None}],
                           device : [Devices -> DeviceSpecs \cup {None}],
                           bridge : [Bridges -> BridgeSpecs \cup {None}]]

VARIABLES
    valve, device, bridge,  \* the resources in the cluster
    changes,    \* how many of these there were
    missed,     \* history variable: a change of a bridge triggered nothing
    workqueue,  \* valves to reconcile, each once, in turn
    delayed,    \* valves whose reconciliation is due again later
    work,       \* the worker: where it is, on which valve, what it has read
    pipelines, cancels,  \* the two maps of Scheduler
    pipe,       \* the pipelines: valve, info, context, and their actions
    call,       \* the calls of Open and Close
    reader,     \* the lookups
    phase       \* main: "run", "stopping", "exited"

clusterVars == <<valve, device, bridge, changes, missed>>
queueVars == <<workqueue, delayed>>
mapVars == <<pipelines, cancels>>
apiVars == <<call, reader>>
vars == <<clusterVars, queueVars, work, mapVars, pipe, apiVars, phase>>

Idle == [pc |-> "idle", key |-> None, read |-> None]
Unused == [key |-> None, info |-> None, ctx |-> "done", run |-> "stopped",
           job |-> None, queue |-> <<>>, history |-> <<>>]
NoCall == [pc |-> "new", key |-> None, pipe |-> None]
NoRead == [pc |-> "new", op |-> None, key |-> None, pipe |-> None, act |-> None,
           got |-> <<>>, sure |-> FALSE]

\* A process that has just started knows nothing; its informers report every
\* resource as new.
AllValves(vs) == SetToSeq({k \in Keys : vs[k] # None})
NoMap == [k \in Keys |-> None]

Init ==
    /\ \E c \in Clusters : valve = c.valve /\ device = c.device /\ bridge = c.bridge
    /\ changes = 0 /\ missed = FALSE
    /\ workqueue = AllValves(valve) /\ delayed = {} /\ work = Idle
    /\ pipelines = NoMap /\ cancels = NoMap
    /\ pipe = [p \in Pipes |-> Unused]
    /\ call = [a \in Acts |-> NoCall] /\ reader = [r \in Readers |-> NoRead]
    /\ phase = "run"

-----------------------------------------------------------------------------
(* The cluster, and the watches that put valves on the work queue.          *)

Changed ==
    /\ changes < IF \A a \in Acts : call[a].pc = "new" THEN MaxChanges ELSE ApiChanges
    /\ changes' = changes + 1

\* The queue holds a key once and takes no more after the signal to stop; a key
\* of no existing valve may be on it.
Add(S) == workqueue' = IF phase = "run"
                       THEN workqueue \o SetToSeq((S \cap Keys) \ ToSet(workqueue))
                       ELSE workqueue

\* Applied, marked for deletion (a finalizer holds it back) or gone.
ChangeValve(k) ==
    /\ Changed
    /\ \/ \E s \in ValveSpecs :
            /\ valve[k] # None => ~valve[k].deleting /\ valve[k].spec # s
            /\ valve' = [valve EXCEPT ![k] =
                  IF @ = None THEN [spec |-> s, deleting |-> FALSE, ready |-> FALSE]
                              ELSE [@ EXCEPT !.spec = s]]
       \/ valve[k] # None /\ ~valve[k].deleting /\ valve' = [valve EXCEPT ![k].deleting = TRUE]
       \/ valve[k] # None /\ valve' = [valve EXCEPT ![k] = None]
    /\ Add({k})
    /\ UNCHANGED <<device, bridge, missed, delayed, work, mapVars, pipe, apiVars, phase>>

\* mapDeviceToValve, asked for the old and for the new object.
MapDeviceToValve(dev) == IF dev = None THEN {} ELSE {dev.ref}

ChangeDevice(d) ==
    /\ Changed
    /\ \E s \in DeviceSpecs \cup {None} :
          /\ s # device[d]
          /\ device' = [device EXCEPT ![d] = s]
          /\ Add(MapDeviceToValve(device[d]) \cup MapDeviceToValve(s))
    /\ UNCHANGED <<valve, bridge, missed, delayed, work, mapVars, pipe, apiVars, phase>>

\* Mutant of MapBridgeToValves: only valves that have no pipeline yet.
MapBridgeToValves_new(b) ==
    {device[d].ref : d \in {x \in Devices : /\ device[x] # None
                                            /\ device[x].bridge = b
                                            /\ device[x].ref # None
                                            /\ pipelines[device[x].ref] = None}}

MapBridgeToValves(b) ==
    {device[d].ref : d \in {x \in Devices : device[x] # None /\ device[x].bridge = b}}

\* The list that mapBridgeToValves reads may fail: then nothing is triggered.
ChangeBridge(b, listed) ==
    /\ Changed
    /\ \E s \in BridgeSpecs \cup {None} : s # bridge[b] /\ bridge' = [bridge EXCEPT ![b] = s]
    /\ Add(IF listed THEN MapBridgeToValves(b) ELSE {})
    /\ missed' = (missed \/ ~listed)
    /\ UNCHANGED <<valve, device, delayed, work, mapVars, pipe, apiVars, phase>>

-----------------------------------------------------------------------------
(* MQTTValveReconciler.Reconcile.                                          *)

Alive == phase # "exited"

\* A read that fails counts towards the bound.
ReadOutcome(ok) == /\ IF ok THEN UNCHANGED changes ELSE Changed
                   /\ UNCHANGED <<valve, device, bridge, missed>>

AddAfter(k) == delayed' = IF phase = "run" THEN delayed \cup {k} ELSE delayed

Requeue == work' = Idle /\ AddAfter(work.key)

\* Get the valve.  One that is gone needs no work, also when it has a pipeline;
\* one that is being deleted loses it: first the map entries, then the context.
\* The keys that are queued at the signal are still handed out.
GetValve ==
    LET k == Head(workqueue) IN
    /\ Alive /\ work.pc = "idle" /\ workqueue # <<>>
    /\ workqueue' = Tail(workqueue)
    /\ \/ valve[k] = None /\ UNCHANGED <<work, mapVars>>
       \/ /\ valve[k] # None /\ valve[k].deleting
          /\ work' = IF cancels[k] = None THEN Idle
                     ELSE [pc |-> "cancel", key |-> k, read |-> cancels[k]]
          /\ pipelines' = [pipelines EXCEPT ![k] = None]
          /\ cancels' = [cancels EXCEPT ![k] = None]
       \/ /\ valve[k] # None /\ ~valve[k].deleting
          /\ work' = [pc |-> "device", key |-> k, read |-> valve[k].spec]
          /\ UNCHANGED mapVars
    /\ UNCHANGED <<clusterVars, delayed, pipe, apiVars, phase>>

\* The error is returned, and the controller tries again later.
GetValveFails ==
    /\ Alive /\ work.pc = "idle" /\ workqueue # <<>>
    /\ workqueue' = Tail(workqueue)
    /\ AddAfter(Head(workqueue))
    /\ ReadOutcome(FALSE)
    /\ UNCHANGED <<work, mapVars, pipe, apiVars, phase>>

\* Mutant of Cancel: the context is left as it is.
Cancel_not ==
    /\ Alive /\ work.pc = "cancel"
    /\ work' = Idle
    /\ UNCHANGED <<clusterVars, queueVars, mapVars, pipe, apiVars, phase>>

\* The end of DeregisterValve.
Cancel ==
    /\ Alive /\ work.pc = "cancel"
    /\ pipe' = [pipe EXCEPT ![work.read].ctx = "done"]
    /\ work' = Idle
    /\ UNCHANGED <<clusterVars, queueVars, mapVars, apiVars, phase>>

\* findDevice takes any device that refers to the valve: the list has no order.
FindDevice(listed) ==
    LET linked == {d \in Devices : device[d] # None /\ device[d].ref = work.key} IN
    /\ Alive /\ work.pc = "device"
    /\ IF listed /\ linked # {}
       THEN /\ \E d \in linked :
                  work' = [work EXCEPT !.pc = "bridge",
                                       !.read = [spec |-> work.read, target |-> d, dev |-> device[d]]]
            /\ UNCHANGED delayed
       ELSE Requeue
    /\ ReadOutcome(listed)
    /\ UNCHANGED <<workqueue, mapVars, pipe, apiVars, phase>>

\* Mutant of RetryCount: the default is forgotten.
RetryCount_raw(s) == s.retry

\* Zero stands for the default, here as for the other settings.
RetryCount(s) == IF s.retry = 0 THEN 3 ELSE s.retry

ValveInfo(r) == [retry    |-> RetryCount(r.spec),
                 disabled |-> r.spec.disabled \/ r.dev.disabled,
                 target   |-> r.target,
                 bridge   |-> bridge[r.dev.bridge]]

GetBridge(ok) ==
    /\ Alive /\ work.pc = "bridge"
    /\ IF ok /\ bridge[work.read.dev.bridge] # None
       THEN /\ work' = [work EXCEPT !.pc = "register", !.read = ValveInfo(work.read)]
            /\ UNCHANGED delayed
       ELSE Requeue
    /\ ReadOutcome(ok)
    /\ UNCHANGED <<workqueue, mapVars, pipe, apiVars, phase>>

\* Scheduler.RegisterValve: refresh the pipeline there is, or start a new one.
RegisterValve ==
    LET k == work.key IN
    /\ Alive /\ work.pc = "register"
    /\ work' = [work EXCEPT !.pc = "ready", !.read = None]
    /\ IF pipelines[k] # None
       THEN /\ pipe' = [pipe EXCEPT ![pipelines[k]].info = work.read]
            /\ UNCHANGED mapVars
       ELSE \E p \in Pipes :
            /\ pipe[p] = Unused /\ \A q \in Pipes : pipe[q] = Unused => p <= q
            /\ pipelines' = [pipelines EXCEPT ![k] = p]
            /\ cancels' = [cancels EXCEPT ![k] = p]
            /\ pipe' = [pipe EXCEPT ![p] =
                 [key |-> k, info |-> work.read, ctx |-> IF phase = "run" THEN "live" ELSE "done",
                  run |-> "idle", job |-> None, queue |-> <<>>, history |-> <<>>]]
    /\ UNCHANGED <<clusterVars, queueVars, apiVars, phase>>

\* patchReadyCondition: an error is logged; a change of the status is an event.
PatchReady(ok) ==
    LET k == work.key
        change == ok /\ valve[k] # None /\ ~valve[k].ready IN
    /\ Alive /\ work.pc = "ready"
    /\ work' = Idle
    /\ valve' = IF change THEN [valve EXCEPT ![k].ready = TRUE] ELSE valve
    /\ Add(IF change THEN {k} ELSE {})
    /\ UNCHANGED <<device, bridge, changes, missed, delayed, mapVars, pipe, apiVars, phase>>

\* RequeueAfter, or the backoff after an error.
RequeueTimer(k) ==
    /\ phase = "run" /\ k \in delayed
    /\ delayed' = delayed \ {k}
    /\ Add({k})
    /\ UNCHANGED <<clusterVars, work, mapVars, pipe, apiVars, phase>>

-----------------------------------------------------------------------------
(* The run goroutine of a pipeline: channel, p.current, history.           *)

Current(p) == IF pipe[p].run = "current" THEN <<pipe[p].job>> ELSE <<>>

\* Pipeline x, given as a record, has begun action a and not forgotten it; a read
\* of current action and history at this moment shows it.
Begun(x, a) == (x.run \in {"current", "gap"} /\ x.job = a) \/ a \in ToSet(x.history)
Sees(x, a) == (x.run = "current" /\ x.job = a) \/ a \in ToSet(x.history)

\* A step of pipeline p; a lookup whose action fell out of the history is noted.
PipeStep(p, new) ==
    /\ Alive
    /\ pipe' = [pipe EXCEPT ![p] = new]
    /\ reader' = [r \in Readers |->
                    IF reader[r].pipe = p
                    THEN [reader[r] EXCEPT !.sure = @ /\ Begun(new, reader[r].act)]
                    ELSE reader[r]]
    /\ UNCHANGED <<clusterVars, queueVars, work, mapVars, call, phase>>

\* An open of a disabled valve is rejected before it becomes current.
Take(p) ==
    /\ pipe[p].run = "idle" /\ pipe[p].queue # <<>>
    /\ \E next \in {"taken", "gap"} :
          /\ next = "gap" => pipe[p].info.disabled
          /\ PipeStep(p, [pipe[p] EXCEPT !.run = next, !.job = Head(pipe[p].queue),
                                         !.queue = Tail(@)])

\* The ctx.Done case: a valve recorded open is closed first.
StopRun(p) ==
    /\ pipe[p].run = "idle" /\ pipe[p].ctx = "done"
    /\ \/ PipeStep(p, [pipe[p] EXCEPT !.run = "stopped"])
       \/ PipeStep(p, [pipe[p] EXCEPT !.run = "taken", !.job = ShutdownClose])

Begin(p) == pipe[p].run = "taken" /\ PipeStep(p, [pipe[p] EXCEPT !.run = "current"])

\* The deferred function of execute releases the slot, then records the action.
Done(p) == pipe[p].run = "current" /\ PipeStep(p, [pipe[p] EXCEPT !.run = "gap"])

AddToHistory(h, a) ==
    LET all == <<a>> \o h
    IN  IF Len(all) > HistoryCap THEN SubSeq(all, 1, HistoryCap) ELSE all

Record(p) ==
    /\ pipe[p].run = "gap"
    /\ PipeStep(p, [pipe[p] EXCEPT
          !.run = IF pipe[p].job = ShutdownClose THEN "stopped" ELSE "idle",
          !.job = None, !.history = AddToHistory(@, pipe[p].job)])

-----------------------------------------------------------------------------
(* The API.                                                                *)

\* Scheduler.FindKey: the one registered valve of that name.
FindKey(name) ==
    LET matches == {k \in Keys : pipelines[k] # None /\ NameOf[k] = name}
    IN  IF Cardinality(matches) = 1 THEN CHOOSE k \in matches : TRUE ELSE None

\* resolveValveKey: with a namespace the key is taken as it comes.
ResolveValveKey(key) ==
    \/ \E k \in Keys : key = k
    \/ \E k \in Keys : key = FindKey(NameOf[k])

CallStep(a, new) ==
    /\ Alive
    /\ call' = [call EXCEPT ![a] = new]
    /\ UNCHANGED <<clusterVars, queueVars, work, mapVars, reader, phase>>

CallResolve(a) ==
    /\ call[a].pc = "new" /\ changes <= ApiChanges
    /\ \E k \in Keys \cup {None} :
          /\ ResolveValveKey(k)
          /\ CallStep(a, [NoCall EXCEPT !.pc = IF k = None THEN "failed" ELSE "keyed",
                                        !.key = k])
    /\ UNCHANGED pipe

\* getPipeline and GetInfo; an open of a disabled valve ends here.
CallGetPipeline(a) ==
    LET p == pipelines[call[a].key] IN
    /\ call[a].pc = "keyed"
    /\ \/ p # None /\ CallStep(a, [call[a] EXCEPT !.pc = "held", !.pipe = p])
       \/ /\ p # None => pipe[p].info.disabled
          /\ CallStep(a, [NoCall EXCEPT !.pc = "failed"])
    /\ UNCHANGED pipe

Enqueue(a) ==
    /\ call[a].pc = "held"
    /\ CallStep(a, [NoCall EXCEPT !.pc = "accepted"])
    /\ pipe' = [pipe EXCEPT ![call[a].pipe].queue = Append(@, a)]

ReadStep(r, new) ==
    /\ Alive
    /\ reader' = [reader EXCEPT ![r] = new]
    /\ UNCHANGED <<clusterVars, queueVars, work, mapVars, pipe, call, phase>>

\* GetAction asks for an action whose ID a caller was given.
ReadResolve(r) ==
    /\ reader[r].pc = "new"
    /\ \E k \in Keys \cup {None}, op \in {"get", "list", "valve"},
          a \in {x \in Acts : call[x].pc = "accepted"} :
          /\ ResolveValveKey(k)
          /\ ReadStep(r, [reader[r] EXCEPT !.pc = IF k = None THEN "notFound" ELSE "keyed",
                                           !.op = op, !.key = k, !.act = a])

\* GetValve looks the pipeline up twice: for its info, and for its actions,
\* where an error is ignored.  ListValves does the same for every key there is.
ReadGetPipeline(r) ==
    LET p == pipelines[reader[r].key]
        pc == reader[r].pc
        info == pc = "keyed" /\ reader[r].op = "valve" IN
    /\ pc \in {"keyed", "info"}
    /\ ReadStep(r, IF p = None
                   THEN [reader[r] EXCEPT !.pc = IF pc = "keyed" THEN "notFound" ELSE "answered"]
                   ELSE IF info THEN [reader[r] EXCEPT !.pc = "info"]
                   ELSE [reader[r] EXCEPT !.pc = "first", !.pipe = p,
                                          !.sure = Begun(pipe[p], reader[r].act)])

\* Mutant of Reads: one order for both.
Reads_currentFirst(op) == <<"current", "history">>

\* Mutant of Reads: the history first for both.
Reads_historyFirst(op) == <<"history", "current">>

\* The order in which the two lookups read, each under a lock of its own.
Reads(op) == IF op = "get" THEN <<"current", "history">> ELSE <<"history", "current">>

ReadFirst(r) ==
    LET p == reader[r].pipe IN
    /\ reader[r].pc = "first"
    /\ ReadStep(r, [reader[r] EXCEPT !.pc = "second",
                      !.got = IF Reads(reader[r].op)[1] = "current"
                              THEN Current(p) ELSE pipe[p].history])

ReadSecond(r) ==
    LET p == reader[r].pipe IN
    /\ reader[r].pc = "second"
    /\ ReadStep(r, [reader[r] EXCEPT !.pc = "answered",
                      !.got = IF Reads(reader[r].op)[2] = "current"
                              THEN Current(p) \o @ ELSE @ \o pipe[p].history,
                      !.sure = @ /\ Sees(pipe[p], reader[r].act)])

\* The handler writes its response and is done.
Respond(r) == reader[r].pc \in {"answered", "notFound"} /\ ReadStep(r, NoRead)

-----------------------------------------------------------------------------
(* main.                                                                    *)

\* SIGTERM ends the root context, and with it the context of every pipeline.
Signal ==
    /\ phase = "run"
    /\ phase' = "stopping"
    /\ pipe' = [p \in Pipes |-> [pipe[p] EXCEPT !.ctx = "done"]]
    /\ UNCHANGED <<clusterVars, queueVars, work, mapVars, apiVars>>

\* The manager waits until its worker has emptied the queue and the API server for
\* its requests, 30 s at most; nothing waits for the pipelines.
Exit ==
    /\ phase = "stopping" /\ work.pc = "idle" /\ workqueue = <<>>
    /\ phase' = "exited"
    /\ UNCHANGED <<clusterVars, queueVars, work, mapVars, pipe, apiVars>>

\* A new process, after an exit or a crash (the end of those 30 s is one, to the
\* worker).
Restart ==
    /\ Changed
    /\ missed' = FALSE
    /\ workqueue' = AllValves(valve) /\ delayed' = {} /\ work' = Idle
    /\ pipelines' = NoMap /\ cancels' = NoMap
    /\ pipe' = [p \in Pipes |-> Unused]
    /\ call' = [a \in Acts |-> IF call[a].pc = "new" THEN NoCall
                               ELSE [NoCall EXCEPT !.pc = "lost"]]
    /\ reader' = [r \in Readers |-> NoRead]
    /\ phase' = "run"
    /\ UNCHANGED <<valve, device, bridge>>

-----------------------------------------------------------------------------
ClusterNext == \/ \E k \in Keys : ChangeValve(k)
               \/ \E d \in Devices : ChangeDevice(d)
               \/ \E b \in Bridges, listed \in BOOLEAN : ChangeBridge(b, listed)

WorkerNext == \/ GetValve \/ GetValveFails \/ Cancel \/ RegisterValve
              \/ \E ok \in BOOLEAN : FindDevice(ok) \/ GetBridge(ok) \/ PatchReady(ok)

PipeNext(p) == Take(p) \/ StopRun(p) \/ Begin(p) \/ Done(p) \/ Record(p)

ApiNext == \/ \E a \in Acts : CallResolve(a) \/ CallGetPipeline(a) \/ Enqueue(a)
           \/ \E r \in Readers : \/ ReadResolve(r) \/ ReadGetPipeline(r)
                                 \/ ReadFirst(r) \/ ReadSecond(r) \/ Respond(r)

Next == \/ ClusterNext \/ WorkerNext \/ ApiNext
        \/ \E k \in Keys : RequeueTimer(k)
        \/ \E p \in Pipes : PipeNext(p)
        \/ Signal \/ Exit \/ Restart

Spec == Init /\ [][Next]_vars

\* The worker goes on while it has work, and timers fire.
FairSpec == Spec /\ WF_vars(WorkerNext) /\ \A k \in Keys : WF_vars(RequeueTimer(k))

-----------------------------------------------------------------------------
(* Properties.                                                             *)

Infos == [retry : Nat, disabled : BOOLEAN, target : Devices, bridge : BridgeSpecs]
PipeRuns == {"idle", "taken", "current", "gap", "stopped"}
ActIds == Acts \cup {ShutdownClose}

\* Every variable has its type, the history its capacity, and a pipeline only
\* ever gets settings with at least one attempt, as Pipeline assumes.
TypeOK ==
    /\ valve \in [Keys -> Valves \cup {None}]
    /\ device \in [Devices -> DeviceSpecs \cup {None}]
    /\ bridge \in [Bridges -> BridgeSpecs \cup {None}]
    /\ changes \in 0 .. MaxChanges /\ missed \in BOOLEAN
    /\ workqueue \in Seq(Keys) /\ delayed \subseteq Keys
    /\ work.pc \in {"idle", "device", "bridge", "register", "ready", "cancel"}
    /\ pipelines \in [Keys -> Pipes \cup {None}] /\ cancels \in [Keys -> Pipes \cup {None}]
    /\ pipe \in [Pipes -> {Unused} \cup
          [key : Keys, info : Infos, ctx : {"live", "done"}, run : PipeRuns,
           job : ActIds \cup {None}, queue : Seq(Acts), history : Seq(ActIds)]]
    /\ \A p \in Pipes : Len(pipe[p].history) <= HistoryCap
    /\ \A p \in Pipes : pipe[p] # Unused => pipe[p].info.retry > 0
    /\ phase \in {"run", "stopping", "exited"}

\* Until shutdown a pipeline that may act is in the registry under its own key,
\* or the worker is about to cancel it: no other could ever be stopped, and two
\* would command one valve, each with a safety ping of its own.
NoOrphanPipeline ==
    phase = "run" => \A p \in Pipes : pipe[p].ctx = "live" =>
        \/ pipelines[pipe[p].key] = p /\ cancels[pipe[p].key] = p
        \/ work.pc = "cancel" /\ work.read = p

\* The list of actions never shows one twice, although an action moves from
\* p.current to the history between the two reads.
ListedOnce ==
    \A r \in Readers : reader[r].op # "get" =>
        \A i, j \in 1 .. Len(reader[r].got) :
            reader[r].got[i] = reader[r].got[j] => i = j

\* GetAction finds an action that was under way or over when the lookup began, and
\* that is current or recorded when it reads the second time; also when the action
\* ended and moved to the history between its two reads.  Only the moment between
\* the release of p.current and the record hides one, and the end of the history.
FoundIfThere ==
    \A r \in Readers : reader[r].pc = "answered" /\ reader[r].op = "get" /\ reader[r].sure
        => reader[r].act \in ToSet(reader[r].got)

\* The devices a valve may be served by, and whether pipeline p does so.
Linked(k) == {d \in Devices : device[d] # None /\ device[d].ref = k}

Serves(p, k) ==
    /\ p # None /\ pipe[p].ctx = "live"
    /\ \E d \in Linked(k) : pipe[p].info =
          ValveInfo([spec |-> valve[k].spec, target |-> d, dev |-> device[d]])

\* When the resources stop changing, every valve with a device and a bridge has a
\* pipeline with just these settings, whatever changed while the worker was
\* between its reads, and across restarts; a valve being deleted has none.
Converges == \A k \in Keys :
    <>[](phase = "run" /\ ~missed /\ valve[k] # None =>
           IF valve[k].deleting THEN pipelines[k] = None
           ELSE Linked(k) # {} /\ (\A d \in Linked(k) : bridge[device[d].bridge] # None)
                  => Serves(pipelines[k], k))
=============================================================================
