---------------------------- MODULE WaitForPower ----------------------------
(***************************************************************************)
(* How a confirmation reaches the goroutine that waits for it:             *)
(* waitForPower of internal/scheduler/pipeline.go on top of handleSensor of *)
(* internal/mqtt/bridge.go and the Dispatcher of dispatcher.go.  Pipeline   *)
(* abstracts all of this into its variable waiter.                         *)
(*                                                                         *)
(* A call w of waitForPower involves three goroutines: the caller, the one  *)
(* it spawns to watch the context, and whichever MQTT client goroutine (a   *)
(* source) dispatches an event of a message into the handler.  They share the channels   *)
(* ch and done and the variable unsub.  A panic ends the whole process.     *)
(***************************************************************************)
EXTENDS Tasmota

CONSTANTS
    Waiters,   \* calls of waitForPower
    Sources,   \* goroutines that dispatch events, one per connected bridge
    Payloads,  \* messages on tele/<bridge>/SENSOR
    Target,    \* the identifier each call subscribes to
    Expect,    \* the power each call waits for
    None

ASSUME WaitersAssumption ==
    \A w \in Waiters : Target[w] \in Identifiers /\ Expect[w] \in {"on", "off"}

\* What JSON and the firmware give: identifiers are strings, and a power that is a
\* number is 0 or 1.
ASSUME PayloadsAssumption ==
    \A m \in Payloads :
        /\ m.json \in BOOLEAN
        /\ m.json => \A x \in m.ZbReceived : x.object =>
              /\ Given(x.Name, "string", Identifiers)
              /\ Given(x.Device, "string", Identifiers)
              /\ x.Power \in {Absent, Null, Other, Num("on"), Num("off")}

VARIABLES
    handlers,  \* Dispatcher.handlers, per key, in order of subscription
    todo,      \* per source, the handlers its Dispatch has still to call, by position
    event,     \* per source, the event it is dispatching
    pending,   \* per source, the events of its message it has still to dispatch
    msg,       \* per source, its message
    spc,       \* per source, where it is inside the handler
    wpc,       \* per call, where the caller is
    answer,    \* per call, what the caller received
    ch, done,  \* the two channels: buffer contents, closed or not
    ctx,       \* per call, whether its context has ended
    goro,      \* per call, where the goroutine watching the context is
    unsubs,    \* per call, whether `go unsub()` was started and has not run
    panic      \* what brought the process down

subVars == <<handlers, unsubs>>
srcVars == <<todo, event, pending, msg, spc>>
chVars  == <<ch, done>>
vars == <<subVars, srcVars, wpc, answer, chVars, ctx, goro, panic>>

Keys == {DispatchKey(Target[w]) : w \in Waiters}

\* Mutant of ChCap: room for both answers.
ChCap_two == 2

\* make(chan error, 1)
ChCap == 1

Alive == panic = "none"

Init ==
    /\ handlers = [k \in Keys |-> <<>>]
    /\ todo = [s \in Sources |-> <<>>]
    /\ event = [s \in Sources |-> None]
    /\ pending = [s \in Sources |-> {}]
    /\ msg = [s \in Sources |-> None]
    /\ spc = [s \in Sources |-> "idle"]
    /\ wpc = [w \in Waiters |-> "new"]
    /\ answer = [w \in Waiters |-> "none"]
    /\ ch = [w \in Waiters |-> <<>>]
    /\ done = [w \in Waiters |-> FALSE]
    /\ ctx = [w \in Waiters |-> FALSE]
    /\ goro = [w \in Waiters |-> "none"]
    /\ unsubs = [w \in Waiters |-> FALSE]
    /\ panic = "none"

-----------------------------------------------------------------------------
(* The caller.                                                             *)

Subscribe(w) ==
    LET k == DispatchKey(Target[w]) IN
    /\ Alive
    /\ wpc[w] = "new"
    /\ handlers' = [handlers EXCEPT ![k] = Append(@, w)]
    /\ wpc' = [wpc EXCEPT ![w] = "assign"]
    /\ UNCHANGED <<unsubs, srcVars, answer, chVars, ctx, goro, panic>>

\* unsub = ..., the function Subscribe returned.
AssignUnsub(w) ==
    /\ Alive
    /\ wpc[w] = "assign"
    /\ wpc' = [wpc EXCEPT ![w] = "spawn"]
    /\ UNCHANGED <<subVars, srcVars, answer, chVars, ctx, goro, panic>>

SpawnWatcher(w) ==
    /\ Alive
    /\ wpc[w] = "spawn"
    /\ wpc' = [wpc EXCEPT ![w] = "wait"]
    /\ goro' = [goro EXCEPT ![w] = "select"]
    /\ UNCHANGED <<subVars, srcVars, answer, chVars, ctx, panic>>

\* err := <-waitCh
Receive(w) ==
    /\ Alive
    /\ wpc[w] = "wait" /\ ch[w] # <<>>
    /\ answer' = [answer EXCEPT ![w] = Head(ch[w])]
    /\ ch' = [ch EXCEPT ![w] = Tail(@)]
    /\ wpc' = [wpc EXCEPT ![w] = "got"]
    /\ UNCHANGED <<subVars, srcVars, done, ctx, goro, panic>>

\* waitCancel(), after the answer, or instead of reading it when no command
\* could be published.
WaitCancel(w) ==
    /\ Alive
    /\ wpc[w] \in {"got", "wait"}
    /\ ctx' = [ctx EXCEPT ![w] = TRUE]
    /\ wpc' = [wpc EXCEPT ![w] = "left"]
    /\ UNCHANGED <<subVars, srcVars, answer, chVars, goro, panic>>

\* The timeout passes, or a parent context ends.
CtxExpires(w) ==
    /\ Alive
    /\ wpc[w] # "new" /\ ~ctx[w]
    /\ ctx' = [ctx EXCEPT ![w] = TRUE]
    /\ UNCHANGED <<subVars, srcVars, wpc, answer, chVars, goro, panic>>

-----------------------------------------------------------------------------
(* The unsubscribe function and close(done), from whichever goroutine.     *)

Without(q, w) ==
    LET found == {i \in 1 .. Len(q) : q[i] = w}
    IN  IF found = {} THEN q
        ELSE SubSeq(q, 1, First(found) - 1) \o SubSeq(q, First(found) + 1, Len(q))

Unsubscribe(w) ==
    handlers' = [handlers EXCEPT ![DispatchKey(Target[w])] = Without(@, w)]

\* close(done) panics when done is closed already.
CloseDone(w) ==
    /\ done' = [done EXCEPT ![w] = TRUE]
    /\ panic' = IF done[w] THEN "close of closed channel" ELSE panic

RunUnsub(w) ==
    /\ Alive
    /\ unsubs[w]
    /\ unsubs' = [unsubs EXCEPT ![w] = FALSE]
    /\ Unsubscribe(w)
    /\ UNCHANGED <<srcVars, wpc, answer, chVars, ctx, goro, panic>>

-----------------------------------------------------------------------------
(* The goroutine that watches the context.                                 *)

\* The outer select: either case when both are ready.
WatchSelect(w) ==
    /\ Alive
    /\ goro[w] = "select"
    /\ \/ ctx[w] /\ goro' = [goro EXCEPT ![w] = "check"]
       \/ done[w] /\ goro' = [goro EXCEPT ![w] = "exit"]
    /\ UNCHANGED <<subVars, srcVars, wpc, answer, chVars, ctx, panic>>

WatchCheck(w) ==
    /\ Alive
    /\ goro[w] = "check"
    /\ goro' = [goro EXCEPT ![w] = IF done[w] THEN "exit" ELSE "close"]
    /\ UNCHANGED <<subVars, srcVars, wpc, answer, chVars, ctx, panic>>

WatchClose(w) ==
    /\ Alive
    /\ goro[w] = "close"
    /\ CloseDone(w)
    /\ goro' = [goro EXCEPT ![w] = "unsub"]
    /\ UNCHANGED <<subVars, srcVars, wpc, answer, ch, ctx>>

WatchUnsub(w) ==
    /\ Alive
    /\ goro[w] = "unsub"
    /\ Unsubscribe(w)
    /\ goro' = [goro EXCEPT ![w] = "send"]
    /\ UNCHANGED <<unsubs, srcVars, wpc, answer, chVars, ctx, panic>>

\* ch <- ctx.Err(): blocks while the buffer is full.
WatchSend(w) ==
    /\ Alive
    /\ goro[w] = "send" /\ Len(ch[w]) < ChCap
    /\ ch' = [ch EXCEPT ![w] = Append(@, "err")]
    /\ goro' = [goro EXCEPT ![w] = "exit"]
    /\ UNCHANGED <<subVars, srcVars, wpc, answer, done, ctx, panic>>

-----------------------------------------------------------------------------
(* A source: Dispatch, and the handler it calls for each subscription.     *)

\* The handlers registered under one identifier of the event.
HandlersOf(id) == IF id # NoName /\ DispatchKey(id) \in Keys
                  THEN handlers[DispatchKey(id)] ELSE <<>>

\* Mutant of Snapshot: no record of the handlers seen already.
Snapshot_twice(e) ==
    LET subs == HandlersOf(e.name) \o HandlersOf(e.addr) IN [i \in 1 .. Len(subs) |-> subs[i]]

\* The handlers to call, by name and by short address, without those seen before.
Snapshot(e) ==
    LET subs == HandlersOf(e.name) \o HandlersOf(e.addr)
        new  == {i \in 1 .. Len(subs) : \A j \in 1 .. i - 1 : subs[j] # subs[i]}
    IN  [i \in new |-> subs[i]]

HandleSensor(s, m) ==
    /\ Alive
    /\ spc[s] = "idle" /\ pending[s] = {}
    /\ pending' = [pending EXCEPT ![s] = ParseSensorPayload(m)]
    /\ msg' = [msg EXCEPT ![s] = IF ParseSensorPayload(m) = {} THEN None ELSE m]
    /\ UNCHANGED <<subVars, todo, event, spc, wpc, answer, chVars, ctx, goro, panic>>

\* The events of a message come in any order: they were the values of a map.
Dispatch(s) ==
    /\ Alive
    /\ spc[s] = "idle"
    /\ \E e \in pending[s] :
          /\ pending' = [pending EXCEPT ![s] = @ \ {e}]
          /\ todo' = [todo EXCEPT ![s] = Snapshot(e)]
          /\ IF DOMAIN Snapshot(e) # {}
             THEN /\ event' = [event EXCEPT ![s] = e]
                  /\ spc' = [spc EXCEPT ![s] = "call"]
                  /\ UNCHANGED msg
             ELSE /\ msg' = [msg EXCEPT ![s] = IF pending[s] = {e} THEN None ELSE @]
                  /\ UNCHANGED <<event, spc>>
    /\ UNCHANGED <<subVars, wpc, answer, chVars, ctx, goro, panic>>

\* The call whose handler source s is in, or about to enter.
Callee(s) == todo[s][First(DOMAIN todo[s])]

\* The handler returns; Dispatch goes on with the next one, handleSensor with
\* the next event.
Return(s) ==
    LET left == DOMAIN todo[s] \ {First(DOMAIN todo[s])} IN
    /\ todo' = [todo EXCEPT ![s] = [i \in left |-> @[i]]]
    /\ spc' = [spc EXCEPT ![s] = IF left = {} THEN "idle" ELSE "call"]
    /\ event' = [event EXCEPT ![s] = IF left = {} THEN None ELSE @]
    /\ msg' = [msg EXCEPT ![s] = IF left = {} /\ pending[s] = {} THEN None ELSE @]
    /\ UNCHANGED pending

\* First select of the handler, then the comparison of the power.
HandlerCheck(s) ==
    LET w == Callee(s) IN
    /\ Alive
    /\ spc[s] = "call"
    /\ IF done[w] \/ event[s].power # Expect[w]
       THEN Return(s)
       ELSE spc' = [spc EXCEPT ![s] = "offer"] /\ UNCHANGED <<todo, event, pending, msg>>
    /\ UNCHANGED <<subVars, wpc, answer, chVars, ctx, goro, panic>>

\* Second select: ch <- nil, or nothing when the buffer is full.
HandlerOffer(s) ==
    LET w == Callee(s) IN
    /\ Alive
    /\ spc[s] = "offer"
    /\ IF Len(ch[w]) < ChCap
       THEN /\ ch' = [ch EXCEPT ![w] = Append(@, "nil")]
            /\ spc' = [spc EXCEPT ![s] = "close"]
            /\ UNCHANGED <<todo, event, pending, msg>>
       ELSE Return(s) /\ UNCHANGED ch
    /\ UNCHANGED <<subVars, wpc, answer, done, ctx, goro, panic>>

\* Mutant of HandlerClose: done is left open.
HandlerClose_open(s) ==
    /\ Alive
    /\ spc[s] = "close"
    /\ spc' = [spc EXCEPT ![s] = "unsub"]
    /\ UNCHANGED <<subVars, todo, event, pending, msg, wpc, answer, chVars, ctx, goro, panic>>

HandlerClose(s) ==
    /\ Alive
    /\ spc[s] = "close"
    /\ CloseDone(Callee(s))
    /\ spc' = [spc EXCEPT ![s] = "unsub"]
    /\ UNCHANGED <<subVars, todo, event, pending, msg, wpc, answer, ch, ctx, goro>>

\* Mutant of HandlerUnsub: the subscription is not given back.
HandlerUnsub_forgotten(s) ==
    /\ Alive
    /\ spc[s] = "unsub"
    /\ Return(s)
    /\ UNCHANGED <<subVars, wpc, answer, chVars, ctx, goro, panic>>

\* go unsub(), fatal while unsub is still nil.
HandlerUnsub(s) ==
    LET w == Callee(s) IN
    /\ Alive
    /\ spc[s] = "unsub"
    /\ IF wpc[w] = "assign"
       THEN panic' = "go of nil func value" /\ UNCHANGED unsubs
       ELSE unsubs' = [unsubs EXCEPT ![w] = TRUE] /\ UNCHANGED panic
    /\ Return(s)
    /\ UNCHANGED <<handlers, wpc, answer, chVars, ctx, goro>>

-----------------------------------------------------------------------------
CallerStep(w) == \/ Subscribe(w) \/ AssignUnsub(w) \/ SpawnWatcher(w)
                 \/ Receive(w) \/ WaitCancel(w) \/ CtxExpires(w)

WatcherStep(w) == \/ WatchSelect(w) \/ WatchCheck(w) \/ WatchClose(w)
                  \/ WatchUnsub(w) \/ WatchSend(w) \/ RunUnsub(w)

SourceStep(s) == \/ Dispatch(s) \/ HandlerCheck(s) \/ HandlerOffer(s)
                 \/ HandlerClose(s) \/ HandlerUnsub(s)

Next == \/ \E w \in Waiters : CallerStep(w) \/ WatcherStep(w)
        \/ \E s \in Sources : SourceStep(s) \/ \E m \in Payloads : HandleSensor(s, m)

Spec == Init /\ [][Next]_vars

\* Every goroutine that can run does, and every context with a timeout ends.
FairSpec ==
    /\ Spec
    /\ \A w \in Waiters :
          /\ WF_vars(AssignUnsub(w) \/ SpawnWatcher(w) \/ Receive(w))
          /\ WF_vars(WaitCancel(w) /\ wpc[w] = "got")
          /\ WF_vars(CtxExpires(w))
          /\ WF_vars(WatcherStep(w) /\ goro' # goro)
          /\ WF_vars(RunUnsub(w))
    /\ \A s \in Sources : WF_vars(SourceStep(s))

-----------------------------------------------------------------------------
(* Properties.                                                             *)

Registered(w) == \E k \in Keys : \E i \in 1 .. Len(handlers[k]) : handlers[k][i] = w

\* Every variable has its type, and ch never holds more than its one slot.
TypeOK ==
    /\ handlers \in [Keys -> Seq(Waiters)]
    /\ \A s \in Sources : \A i \in DOMAIN todo[s] : i \in Nat /\ todo[s][i] \in Waiters
    /\ \A s \in Sources : \A e \in pending[s] \cup ({event[s]} \ {None}) :
          e.power \in {"on", "off", "absent"} /\ msg[s] \in Payloads
    /\ spc \in [Sources -> {"idle", "call", "offer", "close", "unsub"}]
    /\ \A s \in Sources : (spc[s] = "idle") = (DOMAIN todo[s] = {})
    /\ wpc \in [Waiters -> {"new", "assign", "spawn", "wait", "got", "left"}]
    /\ answer \in [Waiters -> {"none", "nil", "err"}]
    /\ ch \in [Waiters -> Seq({"nil", "err"})]
    /\ \A w \in Waiters : Len(ch[w]) <= 1
    /\ done \in [Waiters -> BOOLEAN] /\ ctx \in [Waiters -> BOOLEAN]
    /\ goro \in [Waiters -> {"none", "select", "check", "close", "unsub", "send", "exit"}]
    /\ unsubs \in [Waiters -> BOOLEAN]
    /\ panic \in {"none", "close of closed channel", "go of nil func value"}

\* One event is handed to a subscription once at most, even when its name and
\* its short address lead to the same key (TestDispatch_DoesNotDoubleDeliver).
DeliveredOnce ==
    \A s \in Sources : \A i, j \in DOMAIN todo[s] :
        todo[s][i] = todo[s][j] => i = j

\* The goroutine watching the context finds the buffer of ch full only when a
\* handler has just filled it and is about to close done as well: in any other
\* state it would be stuck there with the subscription gone and nobody to read.
SendFindsRoom ==
    \A w \in Waiters : goro[w] = "send" /\ ch[w] # <<>>
        => \/ \E s \in Sources : spc[s] = "close" /\ Callee(s) = w
           \/ panic # "none"

\* Entry x reports what call w waits for.  For the parser null is a 0.
Reports(x, w) ==
    /\ \E id \in {StringField(x.Name), StringField(x.Device)} : SameId(id, Target[w])
    /\ x.Power = Num(Expect[w]) \/ (x.Power = Null /\ Expect[w] = "off")

\* A call is confirmed only by a report that names its device, by name or by
\* address in any spelling, and gives the expected power, whatever else stands
\* in the message.
ConfirmedByReport ==
    \A s \in Sources : spc[s] = "close" =>
        \E x \in msg[s].ZbReceived : x.object /\ Reports(x, Callee(s))

\* Every call comes to an end: the caller gets on, the goroutine that watched
\* the context returns and the subscription is given back, although handler,
\* timeout and cancellation race (unless their race brings the process down, by
\* closing done twice or by calling unsub before it is assigned).
WaitEnds ==
    \A w \in Waiters : wpc[w] # "new" ~>
        \/ panic # "none"
        \/ wpc[w] = "left" /\ goro[w] = "exit" /\ ~Registered(w)

\* waitForPower "returns a channel that receives nil when the device reports
\* the expected power state, or ctx.Err() on timeout/cancel": neither outcome is
\* a crash.  In particular done is closed once only.
DoneClosedOnce == panic # "close of closed channel"
=============================================================================
