------------------------------ MODULE Pipeline ------------------------------
(***************************************************************************)
(* The command pipeline of one valve: internal/scheduler/pipeline.go with   *)
(* the calls of internal/scheduler/scheduler.go that feed it.               *)
(*                                                                         *)
(* Three kinds of goroutine share one pipeline struct under p.mu:           *)
(*   - API callers run Open/Close, then Enqueue (variable caller);          *)
(*   - the run goroutine executes one action at a time (variables pc ...);  *)
(*   - the keep-closed goroutine publishes an OFF on a ticker (ppc ...).    *)
(* A step of the model is what the code does between two points where       *)
(* another goroutine can interfere: a critical section of p.mu, a channel   *)
(* operation, a publish, or a write of the MQTTValve status.  The bridge    *)
(* and the valve are the environment: commands and reports travel in order, *)
(* with arbitrary delay, and either may be lost.                            *)
(*                                                                         *)
(* Time is abstracted away: a timeout, a ticker or a hold may end at any    *)
(* moment after it starts.                                                  *)
(***************************************************************************)
EXTENDS Naturals, Sequences, FiniteSets

CONSTANTS
    Requests,       \* the API calls (and the actions they create)
    ShutdownClose,  \* the close that run creates when its context ends
    None,           \* nil action, empty action ID
    QueueCap,       \* capacity of actionCh (8 in the code)
    HistoryCap,     \* maxHistorySize (100 in the code)
    Configs,        \* device.ValveConfig values the reconciler may install
    InitialStates,  \* what the resource's status may hold at registration
    InitialValve,   \* where the valve may be at that time
    Durations,      \* open durations a caller may ask for, 0 = indefinite
    NetCap,         \* bound: commands, and reports, in transit at once
    MayStop,        \* whether the pipeline's context may be cancelled
    WritesMayFail   \* whether a status write to Kubernetes may fail

Ids == Requests \cup {ShutdownClose}
Powers == {"on", "off"}
RecordedStates == {"", "open", "closed", "unknown"}

ASSUME IdsAssumption == /\ ShutdownClose \notin Requests
                        /\ None \notin Ids
ASSUME CapsAssumption == /\ QueueCap \in Nat \ {0}
                         /\ HistoryCap \in Nat \ {0}
                         /\ NetCap \in Nat \ {0}
\* The reconciler turns retryCount 0 into 3, and the CRD demands at least 1.
ASSUME ConfigsAssumption ==
    Configs \subseteq [disabled : BOOLEAN, retryCount : Nat \ {0},
                       maxOpen : Nat, closeRepeat : Nat]
ASSUME DurationsAssumption == Durations \subseteq Nat
ASSUME InitialAssumption == /\ InitialStates \subseteq RecordedStates
                            /\ InitialValve \subseteq {"open", "closed"}
ASSUME FlagsAssumption == MayStop \in BOOLEAN /\ WritesMayFail \in BOOLEAN

VARIABLES
    \* callers and the channel
    caller,     \* progress of each API call
    queue,      \* actionCh
    dropped,    \* history variable: actions discarded from a full channel
    \* the pipeline struct
    act,        \* the Action objects: type, duration, state
    current,    \* p.current; p.cancelFn is non-nil exactly when it is not None
    history,    \* p.history, newest first
    recorded,   \* p.info.State
    cfg,        \* p.info.Config
    cr,         \* status of the MQTTValve resource: valveState, currentActionID
    \* contexts
    ctxDone,    \* the pipeline's context
    actDone,    \* actionCtx was cancelled through p.cancelFn
    closeDone,  \* the two-minute context of a closing phase has expired
    \* the run goroutine
    pc, job, phase, attempt, budget, sendLeft, published, pend,
    \* the keep-closed goroutine
    ppc, pleft, pid,
    \* the channels returned by waitForPower, one per goroutine
    waiter,
    \* the bridge and the valve
    valve, cmds, reports,
    \* history variables about the run goroutine
    acked,      \* per action, the powers the device was seen to confirm
    last        \* the last command it handed to SendZbSend; who wanted an ON

callVars == <<caller, queue, dropped>>
ctxVars  == <<ctxDone, actDone, closeDone>>
tryVars  == <<attempt, budget, sendLeft, published>>
pingVars == <<ppc, pleft, pid>>
envVars  == <<valve, cmds, reports>>
vars == <<callVars, act, current, history, recorded, cfg, cr, ctxVars,
          pc, job, phase, tryVars, pend, pingVars, waiter, envVars, acked, last>>

ActionTypes  == {"open", "open_timed", "close"}
ActionStates == {"pending", "sending", "waiting_confirmation", "fulfilled",
                 "closing", "failed", "cancelled"}
Actions == [type : ActionTypes, dur : Nat, state : ActionStates]
RunPCs  == {"idle", "begin", "attempt", "send", "wait", "write", "fulfilled",
            "closing", "hold", "closed", "mark", "clear", "done", "record",
            "stopped"}
PingPCs == {"sleep", "register", "send", "wait", "apply", "read", "write",
            "stopped"}
CallerStates == {"new", "rejected", "enqueue", "full", "send", "accepted"}
Writes == [state : RecordedStates, id : Ids \cup {None}, next : RunPCs]

\* newAction
NewAction(type, dur) == [type |-> type, dur |-> dur, state |-> "pending"]

SetState(id, s) == [act EXCEPT ![id] = [@ EXCEPT !.state = s]]

Init ==
    /\ caller = [r \in Requests |-> "new"]
    /\ queue = <<>> /\ dropped = {} /\ history = <<>>
    /\ act = [a \in Ids |-> NewAction("close", 0)]
    /\ current = None
    /\ recorded \in InitialStates
    /\ cr = [state |-> recorded, id |-> None]
    /\ cfg \in Configs
    /\ ctxDone = FALSE /\ actDone = FALSE /\ closeDone = FALSE
    /\ pc = "idle" /\ job = None /\ phase = "main"
    /\ attempt = 0 /\ budget = 0 /\ sendLeft = 0 /\ published = FALSE
    /\ pend = [state |-> "", id |-> None, next |-> "idle"]
    /\ ppc = "sleep" /\ pleft = 0 /\ pid = None
    /\ waiter = [w \in {"run", "ping"} |-> "off"]
    /\ valve \in InitialValve /\ cmds = <<>> /\ reports = <<>>
    /\ acked = [a \in Ids |-> {}]
    /\ last = [power |-> "none", by |-> None]

-----------------------------------------------------------------------------
(* Callers: Scheduler.Open, Scheduler.Close, pipeline.Enqueue.             *)

Open(r, d) ==
    /\ caller[r] = "new"
    /\ caller' = [caller EXCEPT ![r] = IF cfg.disabled THEN "rejected" ELSE "enqueue"]
    /\ act' = [act EXCEPT ![r] =
                 IF cfg.disabled THEN @
                 ELSE NewAction(IF d > 0 THEN "open_timed" ELSE "open", d)]
    /\ UNCHANGED <<queue, dropped, current, history, recorded, cfg, cr, ctxVars,
                   pc, job, phase, tryVars, pend, pingVars, waiter, envVars, acked, last>>

\* First half of Enqueue: a close cancels whatever is being executed.
CancelCurrent == actDone' = (actDone \/ current # None)

Close(r) ==
    /\ caller[r] = "new"
    /\ caller' = [caller EXCEPT ![r] = "enqueue"]
    /\ act' = [act EXCEPT ![r] = NewAction("close", 0)]
    /\ CancelCurrent
    /\ UNCHANGED <<queue, dropped, current, history, recorded, cfg, cr, ctxDone,
                   closeDone, pc, job, phase, tryVars, pend, pingVars, waiter,
                   envVars, acked, last>>

\* Both selects of Enqueue: `case p.actionCh <- a` of the first, and the plain
\* send that follows the drop.  The latter blocks until there is room.
SendToQueue(r) ==
    /\ caller[r] \in {"enqueue", "send"}
    /\ Len(queue) < QueueCap
    /\ queue' = Append(queue, r)
    /\ caller' = [caller EXCEPT ![r] = "accepted"]
    /\ UNCHANGED <<dropped, act, current, history, recorded, cfg, cr, ctxVars, pc,
                   job, phase, tryVars, pend, pingVars, waiter, envVars, acked, last>>

FindFull(r) ==
    /\ caller[r] = "enqueue"
    /\ Len(queue) >= QueueCap
    /\ caller' = [caller EXCEPT ![r] = "full"]
    /\ UNCHANGED <<queue, dropped, act, current, history, recorded, cfg, cr, ctxVars,
                   pc, job, phase, tryVars, pend, pingVars, waiter, envVars, acked, last>>

\* Mutant of DropOldest: the new action is discarded, and nobody told.
DropOldest_itself(r) ==
    /\ caller[r] = "full"
    /\ caller' = [caller EXCEPT ![r] = "accepted"]
    /\ UNCHANGED <<queue, dropped, act, current, history, recorded, cfg, cr, ctxVars, pc,
                   job, phase, tryVars, pend, pingVars, waiter, envVars, acked, last>>

\* The inner select: take the oldest entry if there still is one.
DropOldest(r) ==
    /\ caller[r] = "full"
    /\ IF queue = <<>>
       THEN UNCHANGED <<queue, dropped>>
       ELSE /\ queue' = Tail(queue)
            /\ dropped' = dropped \cup {Head(queue)}
    /\ caller' = [caller EXCEPT ![r] = "send"]
    /\ UNCHANGED <<act, current, history, recorded, cfg, cr, ctxVars, pc, job,
                   phase, tryVars, pend, pingVars, waiter, envVars, acked, last>>

\* DeregisterValve, or the end of the controller's root context.
Stop ==
    /\ MayStop /\ ~ctxDone
    /\ ctxDone' = TRUE
    /\ UNCHANGED <<callVars, act, current, history, recorded, cfg, cr, actDone,
                   closeDone, pc, job, phase, tryVars, pend, pingVars, waiter,
                   envVars, acked, last>>

UpdateConfig(c) ==
    /\ c # cfg
    /\ cfg' = c
    /\ UNCHANGED <<callVars, act, current, history, recorded, cr, ctxVars, pc, job,
                   phase, tryVars, pend, pingVars, waiter, envVars, acked, last>>

-----------------------------------------------------------------------------
(* The run goroutine.                                                      *)

\* power: what the current phase of execute commands.
Command == IF phase = "close" \/ act[job].type = "close" THEN "off" ELSE "on"

\* sendCount of attemptWithRetry and keepClosedPing.
Repeat(c) == IF c.closeRepeat < 1 THEN 1 ELSE c.closeRepeat

\* Mutant of CtxErr: the attempts of an action look at run's context alone.
CtxErr_parent == IF phase = "close" \/ job = ShutdownClose THEN closeDone ELSE ctxDone

\* ctx.Err() != nil inside attemptWithRetry.
CtxErr == CASE phase = "close"      -> closeDone
            [] job = ShutdownClose  -> actDone \/ closeDone
            [] OTHER                -> actDone \/ ctxDone

\* Mutant of Upgraded: the limit is copied, the action stays an indefinite open.
Upgraded_duration(a) == IF a.type = "open" /\ cfg.maxOpen > 0
                        THEN [a EXCEPT !.dur = cfg.maxOpen]
                        ELSE a

\* execute up to its first critical section: read the config, upgrade an
\* indefinite open, reject an open of a disabled valve.
Upgraded(a) == IF a.type = "open" /\ cfg.maxOpen > 0
               THEN [a EXCEPT !.type = "open_timed", !.dur = cfg.maxOpen]
               ELSE a

Prepare(id) ==
    LET a == Upgraded(act[id])
        reject == cfg.disabled /\ a.type # "close"
    IN  /\ act' = [act EXCEPT ![id] = IF reject THEN [a EXCEPT !.state = "cancelled"]
                                                ELSE a]
        /\ pc' = IF reject THEN "record" ELSE "begin"
        /\ job' = id
        /\ budget' = cfg.retryCount

Dequeue ==
    /\ pc = "idle" /\ queue # <<>>
    /\ queue' = Tail(queue)
    /\ Prepare(Head(queue))
    /\ UNCHANGED <<caller, dropped, current, history, recorded, cfg, cr, ctxVars,
                   phase, attempt, sendLeft, published, pend, pingVars, waiter,
                   envVars, acked, last>>

\* Mutant of StopRun: return without closing.
StopRun_nothing ==
    /\ pc = "idle" /\ ctxDone
    /\ pc' = "stopped"
    /\ UNCHANGED <<act, job, budget, callVars, current, history, recorded, cfg, cr,
                   ctxVars, phase, attempt, sendLeft, published, pend, pingVars,
                   waiter, envVars, acked, last>>

\* The ctx.Done() case of run: close a valve recorded as open, then return.
StopRun ==
    /\ pc = "idle" /\ ctxDone
    /\ IF recorded = "open"
       THEN Prepare(ShutdownClose)
       ELSE pc' = "stopped" /\ UNCHANGED <<act, job, budget>>
    /\ UNCHANGED <<callVars, current, history, recorded, cfg, cr, ctxVars, phase,
                   attempt, sendLeft, published, pend, pingVars, waiter, envVars,
                   acked, last>>

Begin ==
    /\ pc = "begin"
    /\ current' = job
    /\ act' = SetState(job, "sending")
    /\ pc' = "attempt"
    /\ UNCHANGED <<callVars, history, recorded, cfg, cr, ctxVars, job, phase,
                   tryVars, pend, pingVars, waiter, envVars, acked, last>>

\* The state of the action given to attemptWithRetry; in the closing phase of a
\* timed open that is a fresh close nobody else sees.
SetMainState(s) == act' = IF phase = "main" THEN SetState(job, s) ELSE act

\* Mutant of Attempt: the attempts are not counted.
Attempt_uncounted ==
    /\ pc = "attempt" /\ attempt < budget
    /\ sendLeft' = IF Command = "off" THEN Repeat(cfg) ELSE 1
    /\ published' = FALSE
    /\ waiter' = [waiter EXCEPT !["run"] = "none"]
    /\ SetMainState("waiting_confirmation")
    /\ pc' = "send"
    /\ UNCHANGED <<attempt, callVars, current, history, recorded, cfg, cr, ctxVars,
                   job, phase, budget, pend, pingVars, envVars, acked, last>>

\* Start one attempt: re-read the config and register the waiter.
Attempt ==
    /\ pc = "attempt" /\ attempt < budget
    /\ attempt' = attempt + 1
    /\ sendLeft' = IF Command = "off" THEN Repeat(cfg) ELSE 1
    /\ published' = FALSE
    /\ waiter' = [waiter EXCEPT !["run"] = "none"]
    /\ SetMainState("waiting_confirmation")
    /\ pc' = "send"
    /\ UNCHANGED <<callVars, current, history, recorded, cfg, cr, ctxVars, job,
                   phase, budget, pend, pingVars, envVars, acked, last>>

\* The publish may reach the broker or not; it may also reach it although the
\* caller is told otherwise, because its context ended first.
Publish(power, sent) ==
    /\ IF sent THEN Len(cmds) < NetCap /\ cmds' = Append(cmds, power)
               ELSE cmds' = cmds
    /\ UNCHANGED <<valve, reports>>

\* One call of SendZbSend up to its return.  The call ends with the broker's
\* acknowledgement or with the context it was given, and that of an action has
\* no deadline: the return may never come, see RunFairness.  What the device
\* does before the return commutes with it.
SendZbSend(sent, ok) ==
    /\ pc = "send"
    /\ ok => sent
    /\ Publish(Command, sent)
    /\ last' = [power |-> Command, by |-> IF Command = "on" THEN job ELSE None]
    /\ sendLeft' = sendLeft - 1
    /\ published' = (published \/ ok)
    /\ IF sendLeft > 1 THEN UNCHANGED <<pc, waiter>>
       ELSE IF published' THEN pc' = "wait" /\ UNCHANGED waiter
       ELSE pc' = "attempt" /\ waiter' = [waiter EXCEPT !["run"] = "off"]
    /\ UNCHANGED <<callVars, act, current, history, recorded, cfg, cr, ctxVars, job,
                   phase, attempt, budget, pend, pingVars, acked>>

\* err := <-waitCh with err == nil: first half of applyDeviceState.
Confirmed ==
    /\ pc = "wait" /\ waiter["run"] = "ok"
    /\ waiter' = [waiter EXCEPT !["run"] = "off"]
    /\ recorded' = IF Command = "on" THEN "open" ELSE "closed"
    /\ acked' = [acked EXCEPT ![job] = @ \cup {Command}]
    /\ pend' = [state |-> recorded', id |-> current,
                next |-> IF phase = "main" THEN "fulfilled" ELSE "closed"]
    /\ pc' = "write"
    /\ UNCHANGED <<callVars, act, current, history, cfg, cr, ctxVars, job, phase,
                   tryVars, pingVars, envVars, last>>

\* Mutant of FailTo: an unconfirmed closing phase counts as fulfilled.
FailTo_fulfilled(s) ==
    /\ act' = SetState(job, IF phase = "close" THEN "fulfilled" ELSE s)
    /\ pc' = IF s = "failed" /\ Command = "off" THEN "mark" ELSE "done"

\* What follows a failed attemptWithRetry: the error path of execute, or the
\* outcome of the closing phase.
FailTo(s) ==
    /\ act' = SetState(job, s)
    /\ pc' = IF s = "failed" /\ Command = "off" THEN "mark" ELSE "done"

\* err != nil: cancelled if the context ended, else on to the next attempt.
Unconfirmed ==
    /\ pc = "wait" /\ waiter["run"] = "err"
    /\ waiter' = [waiter EXCEPT !["run"] = "off"]
    /\ IF CtxErr THEN FailTo(IF phase = "main" THEN "cancelled" ELSE "failed")
                 ELSE pc' = "attempt" /\ UNCHANGED act
    /\ UNCHANGED <<callVars, current, history, recorded, cfg, cr, ctxVars, job,
                   phase, tryVars, pend, pingVars, envVars, acked, last>>

GiveUp ==
    /\ pc = "attempt" /\ attempt >= budget
    /\ FailTo("failed")
    /\ UNCHANGED <<callVars, current, history, recorded, cfg, cr, ctxVars, job,
                   phase, tryVars, pend, pingVars, waiter, envVars, acked, last>>

\* UpdateValveStatus, whose error is logged and dropped.
Write(done) ==
    /\ pc = "write"
    /\ done \/ WritesMayFail
    /\ cr' = IF done THEN [state |-> pend.state, id |-> pend.id] ELSE cr
    /\ pc' = pend.next
    /\ UNCHANGED <<callVars, act, current, history, recorded, cfg, ctxVars, job,
                   phase, tryVars, pend, pingVars, waiter, envVars, acked, last>>

Fulfilled ==
    /\ pc = "fulfilled"
    /\ act' = SetState(job, "fulfilled")
    /\ pc' = IF act[job].type = "open_timed" THEN "closing" ELSE "clear"
    /\ UNCHANGED <<callVars, current, history, recorded, cfg, cr, ctxVars, job,
                   phase, tryVars, pend, pingVars, waiter, envVars, acked, last>>

\* updateActionID; p.info.CurrentActionID itself is never read.
UpdateActionID(id, next) ==
    /\ pend' = [state |-> recorded, id |-> id, next |-> next]
    /\ pc' = "write"

Closing ==
    /\ pc = "closing"
    /\ act' = SetState(job, "closing")
    /\ UpdateActionID(job, "hold")
    /\ UNCHANGED <<callVars, current, history, recorded, cfg, cr, ctxVars, job,
                   phase, tryVars, pingVars, waiter, envVars, acked, last>>

\* The hold ends when the duration has passed or actionCtx is done; the close
\* that follows has a context of its own.
EndHold ==
    /\ pc = "hold"
    /\ phase' = "close" /\ attempt' = 0
    /\ pc' = "attempt"
    /\ UNCHANGED <<callVars, act, current, history, recorded, cfg, cr, ctxVars, job,
                   budget, sendLeft, published, pend, pingVars, waiter, envVars,
                   acked, last>>

HoldExpires == EndHold

\* Mutant of HoldCancelled: a cancelled hold ends without a close.
HoldCancelled_noClose ==
    /\ pc = "hold" /\ (actDone \/ ctxDone)
    /\ pc' = "clear"
    /\ UNCHANGED <<act, callVars, current, history, recorded, cfg, cr, ctxVars, job,
                   phase, tryVars, pend, pingVars, waiter, envVars, acked, last>>

HoldCancelled == (actDone \/ ctxDone) /\ EndHold

\* The closing phase was confirmed.
Closed ==
    /\ pc = "closed"
    /\ act' = SetState(job, "fulfilled")
    /\ pc' = "clear"
    /\ UNCHANGED <<callVars, current, history, recorded, cfg, cr, ctxVars, job,
                   phase, tryVars, pend, pingVars, waiter, envVars, acked, last>>

\* markCloseUnconfirmed: only a recorded "closed" is downgraded.
MarkCloseUnconfirmed ==
    LET next == IF phase = "main" THEN "done" ELSE "clear" IN
    /\ pc = "mark"
    /\ IF recorded = "closed"
       THEN /\ recorded' = "unknown"
            /\ pend' = [state |-> "unknown", id |-> None, next |-> next]
            /\ pc' = "write"
       ELSE pc' = next /\ UNCHANGED <<recorded, pend>>
    /\ UNCHANGED <<callVars, act, current, history, cfg, cr, ctxVars, job, phase,
                   tryVars, pingVars, waiter, envVars, acked, last>>

ClearActionID ==
    /\ pc = "clear"
    /\ UpdateActionID(None, "done")
    /\ UNCHANGED <<callVars, act, current, history, recorded, cfg, cr, ctxVars, job,
                   phase, tryVars, pingVars, waiter, envVars, acked, last>>

\* Mutant of Done: the cancellation survives into the next action.
Done_stillCancelled ==
    /\ pc = "done"
    /\ current' = None
    /\ closeDone' = FALSE
    /\ phase' = "main" /\ attempt' = 0
    /\ sendLeft' = 0 /\ published' = FALSE
    /\ pend' = [state |-> "", id |-> None, next |-> "idle"]
    /\ pc' = "record"
    /\ UNCHANGED <<actDone, callVars, act, history, recorded, cfg, cr, ctxDone, job,
                   budget, pingVars, waiter, envVars, acked, last>>

\* The deferred function of execute: release the slot, then record the action.
Done ==
    /\ pc = "done"
    /\ current' = None
    /\ actDone' = FALSE /\ closeDone' = FALSE
    /\ phase' = "main" /\ attempt' = 0
    /\ sendLeft' = 0 /\ published' = FALSE
    /\ pend' = [state |-> "", id |-> None, next |-> "idle"]
    /\ pc' = "record"
    /\ UNCHANGED <<callVars, act, history, recorded, cfg, cr, ctxDone, job, budget,
                   pingVars, waiter, envVars, acked, last>>

\* Mutant of AddToHistory: no truncation.
AddToHistory_unbounded(a) == <<a>> \o history

AddToHistory(a) ==
    LET h == <<a>> \o history
    IN  IF Len(h) > HistoryCap THEN SubSeq(h, 1, HistoryCap) ELSE h

\* Mutant of Record: run goes on after the shutdown close.
Record_goOn ==
    /\ pc = "record"
    /\ history' = AddToHistory(job)
    /\ pc' = "idle"
    /\ job' = None /\ budget' = 0
    /\ UNCHANGED <<callVars, act, current, recorded, cfg, cr, ctxVars, phase,
                   attempt, sendLeft, published, pend, pingVars, waiter, envVars,
                   acked, last>>

Record ==
    /\ pc = "record"
    /\ history' = AddToHistory(job)
    /\ pc' = IF job = ShutdownClose THEN "stopped" ELSE "idle"
    /\ job' = None /\ budget' = 0
    /\ UNCHANGED <<callVars, act, current, recorded, cfg, cr, ctxVars, phase,
                   attempt, sendLeft, published, pend, pingVars, waiter, envVars,
                   acked, last>>

\* The two-minute context of the closing phase, or of the shutdown close.
CloseTimeout ==
    /\ ~closeDone
    /\ pc \in {"attempt", "send", "wait"}
    /\ phase = "close" \/ job = ShutdownClose
    /\ closeDone' = TRUE
    /\ UNCHANGED <<callVars, act, current, history, recorded, cfg, cr, ctxDone,
                   actDone, pc, job, phase, tryVars, pend, pingVars, waiter,
                   envVars, acked, last>>

-----------------------------------------------------------------------------
(* The keep-closed goroutine.                                              *)

IsTerminal(a) == act[a].state \in {"fulfilled", "failed", "cancelled"}

HoldsValveOpen(a) == act[a].type \in {"open", "open_timed"}

Suppressed == current # None /\ ~IsTerminal(current) /\ HoldsValveOpen(current)

\* A tick that is suppressed changes nothing.
PingTick ==
    /\ ppc = "sleep" /\ ~Suppressed
    /\ ppc' = "register"
    /\ pleft' = Repeat(cfg)
    /\ UNCHANGED <<callVars, act, current, history, recorded, cfg, cr, ctxVars, pc,
                   job, phase, tryVars, pend, pid, waiter, envVars, acked, last>>

PingRegister ==
    /\ ppc = "register"
    /\ waiter' = [waiter EXCEPT !["ping"] = "none"]
    /\ ppc' = "send"
    /\ UNCHANGED <<callVars, act, current, history, recorded, cfg, cr, ctxVars, pc,
                   job, phase, tryVars, pend, pleft, pid, envVars, acked, last>>

PingSend(sent) ==
    /\ ppc = "send"
    /\ Publish("off", sent)
    /\ pleft' = pleft - 1
    /\ ppc' = IF pleft > 1 THEN "send" ELSE "wait"
    /\ UNCHANGED <<callVars, act, current, history, recorded, cfg, cr, ctxVars, pc,
                   job, phase, tryVars, pend, pid, waiter, acked, last>>

\* Mutant of PingWait: a ping that is not confirmed ends the goroutine.
PingWait_return ==
    /\ ppc = "wait" /\ waiter["ping"] \in {"ok", "err"}
    /\ waiter' = [waiter EXCEPT !["ping"] = "off"]
    /\ ppc' = IF waiter["ping"] = "err" THEN "stopped"
              ELSE IF current = None \/ IsTerminal(current) THEN "apply" ELSE "sleep"
    /\ UNCHANGED <<callVars, act, current, history, recorded, cfg, cr, ctxVars, pc,
                   job, phase, tryVars, pend, pleft, pid, envVars, acked, last>>

\* <-waitCh, and after a confirmation the check that no action is in flight.
PingWait ==
    /\ ppc = "wait" /\ waiter["ping"] \in {"ok", "err"}
    /\ waiter' = [waiter EXCEPT !["ping"] = "off"]
    /\ ppc' = IF waiter["ping"] = "ok" /\ (current = None \/ IsTerminal(current))
              THEN "apply" ELSE "sleep"
    /\ UNCHANGED <<callVars, act, current, history, recorded, cfg, cr, ctxVars, pc,
                   job, phase, tryVars, pend, pleft, pid, envVars, acked, last>>

\* applyDeviceState(false) on this goroutine: the critical section, the second
\* look at p.current, and the status write are three separate steps.
PingApply ==
    /\ ppc = "apply"
    /\ recorded' = "closed"
    /\ ppc' = "read"
    /\ UNCHANGED <<callVars, act, current, history, cfg, cr, ctxVars, pc, job, phase,
                   tryVars, pend, pleft, pid, waiter, envVars, acked, last>>

PingRead ==
    /\ ppc = "read"
    /\ pid' = current
    /\ ppc' = "write"
    /\ UNCHANGED <<callVars, act, current, history, recorded, cfg, cr, ctxVars, pc,
                   job, phase, tryVars, pend, pleft, waiter, envVars, acked, last>>

PingWrite(done) ==
    /\ ppc = "write"
    /\ done \/ WritesMayFail
    /\ cr' = IF done THEN [state |-> "closed", id |-> pid] ELSE cr
    /\ pid' = None
    /\ ppc' = "sleep"
    /\ UNCHANGED <<callVars, act, current, history, recorded, cfg, ctxVars, pc, job,
                   phase, tryVars, pend, pleft, waiter, envVars, acked, last>>

PingStop ==
    /\ ppc = "sleep" /\ ctxDone
    /\ ppc' = "stopped"
    /\ UNCHANGED <<callVars, act, current, history, recorded, cfg, cr, ctxVars, pc,
                   job, phase, tryVars, pend, pleft, pid, waiter, envVars, acked, last>>

-----------------------------------------------------------------------------
(* waitForPower, the bridge and the valve.                                 *)

\* The waiter's context ends: its timeout, or a cancellation of its parent.
WaitTimeout(w) ==
    /\ waiter[w] = "none"
    /\ waiter' = [waiter EXCEPT ![w] = "err"]
    /\ UNCHANGED <<callVars, act, current, history, recorded, cfg, cr, ctxVars, pc,
                   job, phase, tryVars, pend, pingVars, envVars, acked, last>>

Expected(w) == IF w = "ping" THEN "off" ELSE Command

DeliverReport ==
    /\ reports # <<>>
    /\ reports' = Tail(reports)
    /\ waiter' = [w \in {"run", "ping"} |->
                    IF waiter[w] = "none" /\ Head(reports) = Expected(w)
                    THEN "ok" ELSE waiter[w]]
    /\ UNCHANGED <<callVars, act, current, history, recorded, cfg, cr, ctxVars, pc,
                   job, phase, tryVars, pend, pingVars, valve, cmds, acked, last>>

PowerOf(v) == IF v = "open" THEN "on" ELSE "off"

WithReport(power) == IF Len(reports) < NetCap THEN Append(reports, power) ELSE reports

DeviceObey ==
    /\ cmds # <<>>
    /\ cmds' = Tail(cmds)
    /\ valve' = IF Head(cmds) = "on" THEN "open" ELSE "closed"
    /\ reports' = WithReport(Head(cmds))
    /\ UNCHANGED <<callVars, act, current, history, recorded, cfg, cr, ctxVars, pc,
                   job, phase, tryVars, pend, pingVars, waiter, acked, last>>

\* A command or a report is lost, or the valve answers nothing and stays put.
Lose ==
    /\ \/ cmds # <<>> /\ cmds' = Tail(cmds) /\ reports' = reports
       \/ reports # <<>> /\ reports' = Tail(reports) /\ cmds' = cmds
    /\ UNCHANGED <<callVars, act, current, history, recorded, cfg, cr, ctxVars, pc,
                   job, phase, tryVars, pend, pingVars, waiter, valve, acked, last>>

\* The device reports its position without being asked.
Telemetry ==
    /\ Len(reports) < NetCap
    /\ reports' = Append(reports, PowerOf(valve))
    /\ UNCHANGED <<callVars, act, current, history, recorded, cfg, cr, ctxVars, pc,
                   job, phase, tryVars, pend, pingVars, waiter, valve, cmds, acked, last>>

-----------------------------------------------------------------------------
CallerNext == \E r \in Requests :
                 \/ \E d \in Durations : Open(r, d)
                 \/ Close(r) \/ SendToQueue(r) \/ FindFull(r) \/ DropOldest(r)

RunNext == \/ Dequeue \/ StopRun \/ Begin \/ Attempt
           \/ \E sent, ok \in BOOLEAN : SendZbSend(sent, ok)
           \/ Confirmed \/ Unconfirmed \/ GiveUp
           \/ \E done \in BOOLEAN : Write(done)
           \/ Fulfilled \/ Closing \/ HoldExpires \/ HoldCancelled \/ Closed
           \/ MarkCloseUnconfirmed \/ ClearActionID \/ Done \/ Record

PingNext == \/ PingTick \/ PingRegister
            \/ \E sent \in BOOLEAN : PingSend(sent)
            \/ PingWait \/ PingApply \/ PingRead
            \/ \E done \in BOOLEAN : PingWrite(done)
            \/ PingStop

EnvNext == \/ Stop \/ CloseTimeout
           \/ \E c \in Configs : UpdateConfig(c)
           \/ \E w \in {"run", "ping"} : WaitTimeout(w)
           \/ DeliverReport \/ DeviceObey \/ Lose \/ Telemetry

Next == CallerNext \/ RunNext \/ PingNext \/ EnvNext

Spec == Init /\ [][Next]_vars

\* What the scheduling gives.  The Go runtime runs every goroutine that can run,
\* and every timer fires: WF.  A publish is the exception: only the broker or the
\* end of the context it was given makes it return.  select picks at random
\* between ready cases, so a case that is ready again and again is taken: SF on
\* the two stop cases.
RunFairness ==
    /\ \A r \in Requests : WF_vars(SendToQueue(r) \/ FindFull(r) \/ DropOldest(r))
    /\ WF_vars(RunNext /\ (pc = "send" => CtxErr))
    /\ WF_vars(WaitTimeout("run"))
    /\ WF_vars(CloseTimeout)

PingFairness ==
    /\ WF_vars(PingNext /\ (ppc = "send" => ctxDone))
    /\ WF_vars(WaitTimeout("ping"))

StopFairness == SF_vars(StopRun) /\ SF_vars(PingStop)

\* What the environment may give.  The broker answers: it acknowledges a publish,
\* or the bridge refuses it.
BrokerAnswers == WF_vars(\E sent, ok \in BOOLEAN : SendZbSend(sent, ok))

\* A command that is published again and again is carried and obeyed at some
\* point: without this the valve need not move at all.
Delivery == SF_vars(PingSend(TRUE)) /\ SF_vars(DeviceObey)

RunSpec == Spec /\ RunFairness

StopSpec == RunSpec /\ PingFairness /\ StopFairness

DeliverySpec == RunSpec /\ BrokerAnswers /\ PingFairness /\ Delivery

-----------------------------------------------------------------------------
(* Properties.                                                             *)

Entries(s) == {s[i] : i \in 1 .. Len(s)}

CallerType ==
    /\ caller \in [Requests -> CallerStates]
    /\ queue \in Seq(Requests) /\ Len(queue) <= QueueCap
    /\ dropped \subseteq Requests

StructType ==
    /\ act \in [Ids -> Actions]
    /\ current \in Ids \cup {None}
    /\ history \in Seq(Ids) /\ Len(history) <= HistoryCap
    /\ recorded \in RecordedStates
    /\ cfg \in Configs
    /\ cr \in [state : RecordedStates, id : Ids \cup {None}]

RunType ==
    /\ ctxDone \in BOOLEAN /\ actDone \in BOOLEAN /\ closeDone \in BOOLEAN
    /\ pc \in RunPCs
    /\ job \in Ids \cup {None}
    /\ phase \in {"main", "close"}
    /\ attempt \in Nat /\ budget \in Nat /\ sendLeft \in Nat
    /\ published \in BOOLEAN
    /\ pend \in Writes

PingType ==
    /\ ppc \in PingPCs /\ pleft \in Nat /\ pid \in Ids \cup {None}
    /\ waiter \in [{"run", "ping"} -> {"off", "none", "ok", "err"}]

EnvType ==
    /\ valve \in {"open", "closed"}
    /\ cmds \in Seq(Powers) /\ Len(cmds) <= NetCap
    /\ reports \in Seq(Powers) /\ Len(reports) <= NetCap
    /\ acked \in [Ids -> SUBSET Powers]
    /\ last \in [power : Powers \cup {"none"}, by : Ids \cup {None}]

\* Every variable has its type; the channel and the history stay within their
\* capacities, whatever callers race in Enqueue.
TypeOK == CallerType /\ StructType /\ RunType /\ PingType /\ EnvType

\* "Close regardless of cancellation -- safety first" (execute): the run
\* goroutine never comes to rest, idle or stopped, with ON as its last command,
\* unless that ON was for an open without limit, or was never confirmed.
RestsClosed ==
    pc \in {"idle", "stopped"} /\ last.power = "on"
        => \/ act[last.by].type = "open"
           \/ "on" \notin acked[last.by]

\* Where every configuration sets MaxOpenDuration, no open is without limit: the
\* upgrade of execute turns each one into a timed open, whatever the config
\* changes in between.
LimitedRestsClosed ==
    (\A c \in Configs : c.maxOpen > 0)
        => (pc \in {"idle", "stopped"} /\ last.power = "on"
              => "on" \notin acked[last.by])

\* When run returns with the valve still recorded as open, it has at least
\* commanded a close since (the ctx.Done case of run).
StopCloses == pc = "stopped" /\ recorded = "open" => last.power = "off"

\* An action is cancelled only for a reason that postdates its start: the end
\* of its context, or a close that has not been executed itself yet.  A cancel
\* aimed at one action never leaks into the next one.
Unexecuted(r) == \/ caller[r] \in {"enqueue", "full", "send"}
                 \/ r \in Entries(queue)
                 \/ r \in dropped

CancelledForANewerClose ==
    pc = "done" /\ act[job].state = "cancelled"
        => \/ ctxDone
           \/ \E r \in Requests \ {job} : act[r].type = "close" /\ Unexecuted(r)

\* The history tells the truth: what it lists is finished, and an action listed
\* as fulfilled has had every command of its confirmed, the closing OFF of a
\* timed open included ("A timed open whose close was never confirmed is not a
\* success").
NeededAcks(a) == CASE act[a].type = "open"       -> {"on"}
                   [] act[a].type = "open_timed" -> {"on", "off"}
                   [] act[a].type = "close"      -> {"off"}

HistoryHonest ==
    \A a \in Entries(history) :
        /\ IsTerminal(a)
        /\ act[a].state = "fulfilled" => NeededAcks(a) \subseteq acked[a]

\* Every call comes to an end as long as no publish waits for ever: its action is
\* executed to the end, unless it was discarded from a full channel.  No blocked
\* Enqueue, retry loop, hold, closing phase or lost confirmation lasts for ever.
Settled(r) == \/ caller[r] = "rejected"
              \/ caller[r] = "accepted" /\ r \notin Entries(queue) /\ job # r

Answered == []<>(pc # "send")

ActionsEnd == Answered => \A r \in Requests : caller[r] # "new" ~> Settled(r)

\* A close always gets its turn: the action it cancels ends and releases
\* p.current, whichever publish, wait, hold or closing phase the cancellation
\* meets, and whether or not the broker answers at all.
CancelledEnds == actDone ~> ~actDone

\* The safety net: as long as the pipeline runs, an open valve is closed again
\* sooner or later, whatever the actions do and whatever gets lost.  This is what
\* keepClosedPing says ("A completed open ... still gets the ping; that is the
\* point") and does, for an open without limit too, although other places of the
\* repository speak of an indefinite open (scheduler.go, openapi.yaml).
SafetyNet == valve = "open" ~> valve = "closed"

\* Once its context ends, both goroutines of the pipeline return.
StopEnds == ctxDone ~> (pc = "stopped" /\ ppc = "stopped")

-----------------------------------------------------------------------------
\* The service a caller sees.
Status(r) ==
    IF caller[r] \in {"new", "rejected"} THEN caller[r]
    ELSE IF caller[r] # "accepted" THEN "offered"
    ELSE IF r \in Entries(queue) THEN "waiting"
    ELSE IF r \in dropped THEN "dropped"
    ELSE IF job = r THEN "running" ELSE "finished"

statusBar == [r \in Requests |-> Status(r)]
resultBar == [r \in Requests |->
                IF Status(r) = "finished" THEN act[r].state ELSE "none"]

Service == INSTANCE ActionService WITH
    status <- statusBar, line <- queue, result <- resultBar

\* The pipeline implements ActionService: racing callers, the drop from a full
\* channel, cancellation and every failure path keep actions one at a time, in
\* order, with one final outcome each.
ImplementsService == Service!ServiceSpec
=============================================================================
