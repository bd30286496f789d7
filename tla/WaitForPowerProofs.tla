------------------------- MODULE WaitForPowerProofs -------------------------
(***************************************************************************)
(* Proofs about WaitForPower, for any number of calls, sources and          *)
(* messages: an event reaches a subscription once, a call is confirmed by a *)
(* report of its device only, and the watching goroutine is never left      *)
(* alone with a full channel.                                               *)
(***************************************************************************)
EXTENDS WaitForPower, TasmotaProofs, SequenceTheorems

SpcStates == {"idle", "call", "offer", "close", "unsub"}

\* The part of the type invariant that is not about the sources.
CallType ==
    /\ handlers \in [Keys -> Seq(Waiters)]
    /\ wpc \in [Waiters -> {"new", "assign", "spawn", "wait", "got", "left"}]
    /\ answer \in [Waiters -> {"none", "nil", "err"}]
    /\ ch \in [Waiters -> Seq({"nil", "err"})]
    /\ \A w \in Waiters : Len(ch[w]) <= 1
    /\ done \in [Waiters -> BOOLEAN] /\ ctx \in [Waiters -> BOOLEAN]
    /\ goro \in [Waiters -> {"none", "select", "check", "close", "unsub", "send", "exit"}]
    /\ unsubs \in [Waiters -> BOOLEAN]
    /\ panic \in {"none", "close of closed channel", "go of nil func value"}

\* A handler is registered under the key of its own device.
HandlersInv == \A k \in Keys : \A i \in 1 .. Len(handlers[k]) :
    DispatchKey(Target[handlers[k][i]]) = k

\* Event e carries the identifier that call w subscribed to.
Concerns(e, w) == SameId(e.name, Target[w]) \/ SameId(e.addr, Target[w])

\* A source between two steps: what it has still to dispatch and to call is of
\* the message at hand, the calls are of the event's device, each once, and it
\* offers a confirmation only for the power the call waits for.
SourceInv(s) ==
    /\ spc[s] \in SpcStates
    /\ \A i \in DOMAIN todo[s] : i \in Nat /\ todo[s][i] \in Waiters
    /\ \A i, j \in DOMAIN todo[s] : todo[s][i] = todo[s][j] => i = j
    /\ spc[s] = "idle" <=> DOMAIN todo[s] = {}
    /\ pending[s] \subseteq ParseSensorPayload(msg[s])
    /\ pending[s] # {} \/ spc[s] # "idle" => msg[s] \in Payloads
    /\ spc[s] = "idle" => event[s] = None
    /\ spc[s] # "idle" => /\ event[s] \in ParseSensorPayload(msg[s])
                          /\ \A i \in DOMAIN todo[s] : Concerns(event[s], todo[s][i])
    /\ spc[s] \in {"offer", "close"} => event[s].power = Expect[Callee(s)]

ShapeInv == /\ todo = [s \in Sources |-> todo[s]] /\ event = [s \in Sources |-> event[s]]
            /\ pending = [s \in Sources |-> pending[s]] /\ msg = [s \in Sources |-> msg[s]]
            /\ spc = [s \in Sources |-> spc[s]]

SourcesInv == ShapeInv /\ \A s \in Sources : SourceInv(s)

\* A handler has filled the channel of w and is about to close done.
Closing(w) == \E s \in Sources : spc[s] = "close" /\ Callee(s) = w

\* Who has filled the channel, by where the watching goroutine is.  Once that one
\* has closed done itself, a handler that gets as far closes it again.
RoomInv(w) ==
    /\ wpc[w] \in {"new", "assign", "spawn"} => goro[w] = "none"
    /\ Alive /\ goro[w] \in {"unsub", "send"} => done[w] /\ (ch[w] # <<>> => Closing(w))
    /\ Alive /\ goro[w] # "exit" /\ ch[w] # <<>> => done[w] \/ Closing(w)

WaitInv == CallType /\ HandlersInv /\ SourcesInv /\ \A w \in Waiters : RoomInv(w)

-----------------------------------------------------------------------------
(* Facts about the operators.                                              *)

Events == [name : Identifiers \cup {NoName}, addr : Identifiers \cup {NoName},
           power : {"on", "off", "absent"}]

\* What ParseSensorPayload returns, whatever the message.
LEMMA ParsedEvents ==
    ASSUME NEW m \in Payloads, NEW e \in ParseSensorPayload(m)
    PROVE  /\ e \in Events
           /\ m.json /\ \E x \in m.ZbReceived : x.object /\ e = SensorEvent(x)
<1>1. m.json /\ \E x \in m.ZbReceived : x.object /\ e = SensorEvent(x)
  BY PayloadsAssumption DEF ParseSensorPayload
<1>2. PICK x \in m.ZbReceived : x.object /\ e = SensorEvent(x)
  BY <1>1
<1>3. /\ x.Name.json = "string" => x.Name.val \in Identifiers
      /\ x.Device.json = "string" => x.Device.val \in Identifiers
      /\ x.Power \in {Absent, Null, Other, Num("on"), Num("off")}
  BY <1>1, <1>2, PayloadsAssumption DEF Given
<1>4. IntField(x.Power) \in {"on", "off", "absent"}
  BY <1>3 DEF IntField, Absent, Null, Other, Num
<1>5. e \in Events
  BY <1>2, <1>3, <1>4 DEF SensorEvent, StringField, Events
<1> QED BY <1>1, <1>5

\* The power of an event is the one its entry reports; null counts as 0.
LEMMA ReportedPower ==
    ASSUME NEW f \in {Absent, Null, Other, Num("on"), Num("off")},
           NEW p \in {"on", "off"}, IntField(f) = p
    PROVE  f = Num(p) \/ (f = Null /\ p = "off")
BY DEF IntField, Absent, Null, Other, Num

\* Without removes one entry at most and leaves the others in order.
LEMMA WithoutType ==
    ASSUME NEW q \in Seq(Waiters), NEW w
    PROVE  /\ Without(q, w) \in Seq(Waiters)
           /\ \A i \in 1 .. Len(Without(q, w)) : \E j \in 1 .. Len(q) : Without(q, w)[i] = q[j]
<1> DEFINE found == {i \in 1 .. Len(q) : q[i] = w}
<1>0. Len(q) \in Nat /\ \A i \in 1 .. Len(q) : q[i] \in Waiters
  OBVIOUS
<1>1. CASE found = {}
  BY <1>1 DEF Without
<1>2. CASE found # {}
  <2> DEFINE f == First(found)
             a == SubSeq(q, 1, f - 1)
             b == SubSeq(q, f + 1, Len(q))
  <2>1. f \in 1 .. Len(q)
    <3>1. found \subseteq Nat /\ found \subseteq 1 .. Len(q)
      BY <1>0
    <3> QED BY <1>2, <3>1, FirstIsLeast
  <2>2. Without(q, w) = a \o b
    BY <1>2 DEF Without
  <2> HIDE DEF f, found
  <2>3. /\ a \in Seq(Waiters) /\ Len(a) = f - 1
        /\ \A i \in 1 .. f - 1 : a[i] = q[i]
    <3>1. \A i \in 1 .. f - 1 : q[i] \in Waiters
      BY <1>0, <2>1
    <3>2. 1 \in Int /\ f - 1 \in Int
      BY <2>1
    <3> QED BY <2>1, <3>1, <3>2, SubSeqProperties
  <2>4. /\ b \in Seq(Waiters) /\ Len(b) = Len(q) - f
        /\ \A i \in 1 .. Len(q) - f : b[i] = q[f + i]
    <3>1. \A i \in f + 1 .. Len(q) : q[i] \in Waiters
      BY <1>0, <2>1
    <3>2. f + 1 \in Int /\ Len(q) \in Int
      BY <1>0, <2>1
    <3>3. /\ b \in Seq(Waiters) /\ Len(b) = IF f + 1 <= Len(q) THEN Len(q) - (f + 1) + 1 ELSE 0
          /\ \A i \in 1 .. Len(q) - (f + 1) + 1 : b[i] = q[f + 1 + i - 1]
      BY <3>1, <3>2, SubSeqProperties
    <3> HIDE DEF b
    <3>4. Len(q) - (f + 1) + 1 = Len(q) - f /\ \A i \in Nat : f + 1 + i - 1 = f + i
      BY <1>0, <2>1
    <3>5. Len(b) = Len(q) - f
      BY <1>0, <2>1, <3>3
    <3>6. ASSUME NEW i \in 1 .. Len(q) - f PROVE b[i] = q[f + i]
      <4>1. i \in Nat /\ i \in 1 .. Len(q) - (f + 1) + 1
        BY <1>0, <2>1
      <4> QED BY <3>3, <3>4, <4>1
    <3> QED BY <3>3, <3>5, <3>6
  <2> HIDE DEF a, b
  <2>5. /\ a \o b \in Seq(Waiters) /\ Len(a \o b) = Len(a) + Len(b)
        /\ \A i \in 1 .. Len(a) + Len(b) :
              (a \o b)[i] = IF i <= Len(a) THEN a[i] ELSE b[i - Len(a)]
    BY <2>3, <2>4, ConcatProperties
  <2>6. ASSUME NEW i \in 1 .. Len(a \o b) PROVE \E j \in 1 .. Len(q) : (a \o b)[i] = q[j]
    <3>1. CASE i <= f - 1
      BY <1>0, <2>1, <2>3, <2>4, <2>5, <3>1
    <3>2. CASE i > f - 1
      <4>1. i - (f - 1) \in 1 .. Len(q) - f /\ f + (i - (f - 1)) \in 1 .. Len(q)
        BY <1>0, <2>1, <2>3, <2>4, <2>5, <3>2
      <4>2. (a \o b)[i] = b[i - (f - 1)]
        BY <1>0, <2>1, <2>3, <2>4, <2>5, <3>2
      <4> QED BY <2>4, <4>1, <4>2
    <3> QED BY <2>1, <2>5, <3>1, <3>2
  <2> QED BY <2>2, <2>5, <2>6
<1> QED BY <1>1, <1>2

\* The handlers found for an event subscribed to its device.
LEMMA HandlersOfConcern ==
    ASSUME CallType, HandlersInv, NEW id \in Identifiers \cup {NoName}
    PROVE  /\ HandlersOf(id) \in Seq(Waiters)
           /\ \A i \in 1 .. Len(HandlersOf(id)) : SameId(id, Target[HandlersOf(id)[i]])
<1>1. CASE id # NoName /\ DispatchKey(id) \in Keys
  <2>1. HandlersOf(id) = handlers[DispatchKey(id)] /\ id \in Identifiers
    BY <1>1 DEF HandlersOf
  <2>2. HandlersOf(id) \in Seq(Waiters)
    <3>1. handlers \in [Keys -> Seq(Waiters)]
      BY DEF CallType
    <3> QED BY <1>1, <2>1, <3>1
  <2>3. ASSUME NEW i \in 1 .. Len(HandlersOf(id)) PROVE SameId(id, Target[HandlersOf(id)[i]])
    <3>1. DispatchKey(Target[HandlersOf(id)[i]]) = DispatchKey(id)
      BY <1>1, <2>1 DEF HandlersInv
    <3>2. HandlersOf(id)[i] \in Waiters
      BY <2>2
    <3>3. Target[HandlersOf(id)[i]] \in Identifiers
      BY <3>2, WaitersAssumption
    <3> QED BY <2>1, <3>1, <3>3, DispatchKeySame
  <2> QED BY <2>2, <2>3
<1>2. CASE ~(id # NoName /\ DispatchKey(id) \in Keys)
  <2>1. HandlersOf(id) = <<>>
    BY <1>2 DEF HandlersOf
  <2> QED BY <2>1
<1> QED BY <1>1, <1>2

\* Dispatch calls each of them once.
LEMMA SnapshotOnce ==
    ASSUME CallType, HandlersInv, NEW e \in Events
    PROVE  /\ \A i \in DOMAIN Snapshot(e) :
                 i \in Nat /\ Snapshot(e)[i] \in Waiters /\ Concerns(e, Snapshot(e)[i])
           /\ \A i, j \in DOMAIN Snapshot(e) : Snapshot(e)[i] = Snapshot(e)[j] => i = j
<1> DEFINE a == HandlersOf(e.name)
           b == HandlersOf(e.addr)
           subs == a \o b
           new == {i \in 1 .. Len(subs) : \A j \in 1 .. i - 1 : subs[j] # subs[i]}
<1>1. /\ a \in Seq(Waiters) /\ \A i \in 1 .. Len(a) : SameId(e.name, Target[a[i]])
      /\ b \in Seq(Waiters) /\ \A i \in 1 .. Len(b) : SameId(e.addr, Target[b[i]])
  BY HandlersOfConcern DEF Events
<1> HIDE DEF a, b
<1>2. /\ subs \in Seq(Waiters) /\ Len(subs) = Len(a) + Len(b)
      /\ \A i \in 1 .. Len(a) + Len(b) :
            subs[i] = IF i <= Len(a) THEN a[i] ELSE b[i - Len(a)]
      /\ Len(a) \in Nat /\ Len(b) \in Nat
  BY <1>1, ConcatProperties
<1> HIDE DEF subs
<1>3. ASSUME NEW i \in 1 .. Len(subs) PROVE subs[i] \in Waiters /\ Concerns(e, subs[i])
  <2>1. CASE i <= Len(a)
    BY <1>1, <1>2, <2>1 DEF Concerns
  <2>2. CASE i > Len(a)
    <3>1. i - Len(a) \in 1 .. Len(b) /\ subs[i] = b[i - Len(a)]
      BY <1>2, <2>2
    <3> QED BY <1>1, <1>2, <3>1 DEF Concerns
  <2> QED BY <1>2, <2>1, <2>2
<1>4. Snapshot(e) = [i \in new |-> subs[i]]
  BY DEF Snapshot, subs, a, b
<1>5. ASSUME NEW i \in new, NEW j \in new, subs[i] = subs[j] PROVE i = j
  <2>1. i \in Nat /\ j \in Nat /\ i >= 1 /\ j >= 1
    BY <1>2
  <2>2. ~(i < j)
    <3> SUFFICES ASSUME i < j PROVE FALSE
      OBVIOUS
    <3>1. i \in 1 .. j - 1
      BY <2>1
    <3> QED BY <1>5, <3>1
  <2>3. ~(j < i)
    <3> SUFFICES ASSUME j < i PROVE FALSE
      OBVIOUS
    <3>1. j \in 1 .. i - 1
      BY <2>1
    <3> QED BY <1>5, <3>1
  <2> QED BY <2>1, <2>2, <2>3
<1>6. new \subseteq 1 .. Len(subs) /\ new \subseteq Nat
  BY <1>2
<1> HIDE DEF new
<1>7. DOMAIN Snapshot(e) = new /\ \A i \in new : Snapshot(e)[i] = subs[i]
  BY <1>4
<1>8. \A i \in new : i \in Nat /\ subs[i] \in Waiters /\ Concerns(e, subs[i])
  BY <1>3, <1>6
<1> QED BY <1>5, <1>7, <1>8

\* The handler a dispatcher calls is that of a wait it has listed.
LEMMA CalleeType ==
    ASSUME NEW s, SourceInv(s), spc[s] # "idle"
    PROVE  /\ First(DOMAIN todo[s]) \in DOMAIN todo[s]
           /\ Callee(s) \in Waiters /\ Concerns(event[s], Callee(s))
<1>1. DOMAIN todo[s] \subseteq Nat /\ DOMAIN todo[s] # {}
  BY DEF SourceInv
<1>2. First(DOMAIN todo[s]) \in DOMAIN todo[s]
  BY <1>1, FirstIsLeast
<1> QED BY <1>2 DEF SourceInv, Callee

-----------------------------------------------------------------------------
(* Frames.                                                                 *)

\* What holds of a dispatcher depends on its own state and on who is subscribed.
LEMMA SourceFrame ==
    ASSUME NEW t, SourceInv(t), todo'[t] = todo[t], event'[t] = event[t],
           pending'[t] = pending[t], msg'[t] = msg[t], spc'[t] = spc[t]
    PROVE  SourceInv(t)'
BY DEF SourceInv, Callee, Concerns

\* The same for all of them.
LEMMA SourcesFrame ==
    ASSUME SourcesInv, UNCHANGED srcVars
    PROVE  SourcesInv' /\ \A w \in Waiters : Closing(w)' <=> Closing(w)
<1>1. UNCHANGED <<todo, event, pending, msg, spc>>
  BY DEF srcVars
<1>2. \A w \in Waiters : Closing(w)' <=> Closing(w)
  BY <1>1 DEF Closing, Callee
<1>3. ShapeInv'
  BY <1>1 DEF SourcesInv, ShapeInv
<1>4. ASSUME NEW t \in Sources PROVE SourceInv(t)'
  BY <1>1, SourceFrame DEF SourcesInv
<1> QED BY <1>2, <1>3, <1>4 DEF SourcesInv

\* Others is what a step of source s leaves alone.
Others(s) == \A t \in Sources : t # s =>
    /\ todo'[t] = todo[t] /\ event'[t] = event[t] /\ pending'[t] = pending[t]
    /\ msg'[t] = msg[t] /\ spc'[t] = spc[t]

\* A step of one dispatcher leaves the others alone.
LEMMA SourcesStep ==
    ASSUME SourcesInv, NEW s \in Sources, Others(s), ShapeInv', SourceInv(s)'
    PROVE  SourcesInv'
<1>1. ASSUME NEW t \in Sources PROVE SourceInv(t)'
  BY SourceFrame DEF SourcesInv, Others
<1> QED BY <1>1 DEF SourcesInv

\* A handler about to close done stays so while another source takes a step.
LEMMA ClosingKept ==
    ASSUME NEW s \in Sources, Others(s), spc[s] # "close", NEW w, Closing(w)
    PROVE  Closing(w)'
BY DEF Closing, Callee, Others

\* The handler returns: the source is where it was, one call further.
LEMMA ReturnSource ==
    ASSUME SourcesInv, NEW s \in Sources, spc[s] # "idle", Return(s)
    PROVE  SourcesInv' /\ Others(s)
<1> DEFINE f == First(DOMAIN todo[s])
           left == DOMAIN todo[s] \ {f}
<1>1. /\ todo' = [todo EXCEPT ![s] = [i \in left |-> todo[s][i]]]
      /\ spc' = [spc EXCEPT ![s] = IF left = {} THEN "idle" ELSE "call"]
      /\ event' = [event EXCEPT ![s] = IF left = {} THEN None ELSE event[s]]
      /\ msg' = [msg EXCEPT ![s] = IF left = {} /\ pending[s] = {} THEN None ELSE msg[s]]
      /\ pending' = pending
  BY DEF Return
<1> HIDE DEF left
<1>2. /\ todo'[s] = [i \in left |-> todo[s][i]]
      /\ spc'[s] = IF left = {} THEN "idle" ELSE "call"
      /\ event'[s] = IF left = {} THEN None ELSE event[s]
      /\ msg'[s] = IF left = {} /\ pending[s] = {} THEN None ELSE msg[s]
      /\ Others(s)
  BY <1>1 DEF SourcesInv, ShapeInv, Others
<1>3. ShapeInv'
  BY <1>1 DEF SourcesInv, ShapeInv
<1>4. DOMAIN todo'[s] = left /\ (\A i \in left : todo'[s][i] = todo[s][i])
      /\ left \subseteq DOMAIN todo[s]
  BY <1>2 DEF left
<1>5. SourceInv(s)
  BY DEF SourcesInv
<1>6. SourceInv(s)'
  <2>1. CASE left = {} /\ pending[s] = {}
    BY <1>1, <1>2, <1>4, <1>5, <2>1 DEF SourceInv, SpcStates
  <2>2. CASE left = {} /\ pending[s] # {}
    BY <1>1, <1>2, <1>4, <1>5, <2>2 DEF SourceInv, SpcStates
  <2>3. CASE left # {}
    <3>1. spc'[s] = "call" /\ event'[s] = event[s] /\ msg'[s] = msg[s] /\ pending' = pending
      BY <1>1, <1>2, <2>3
    <3> QED BY <1>4, <1>5, <2>3, <3>1 DEF SourceInv, SpcStates, Concerns
  <2> QED BY <2>1, <2>2, <2>3
<1> QED BY <1>2, <1>3, <1>6, SourcesStep

-----------------------------------------------------------------------------
(* The caller and the goroutine watching the context.                      *)

\* A wait is subscribed under the key of its target and no other.
LEMMA TargetKey ==
    ASSUME NEW w \in Waiters PROVE DispatchKey(Target[w]) \in Keys
BY DEF Keys

\* Taking one subscription out leaves the others in place, each once.
LEMMA UnsubscribeInv ==
    ASSUME CallType, HandlersInv, NEW w \in Waiters, Unsubscribe(w)
    PROVE  HandlersInv' /\ handlers' \in [Keys -> Seq(Waiters)]
<1> DEFINE k == DispatchKey(Target[w])
<1>1. /\ handlers \in [Keys -> Seq(Waiters)] /\ k \in Keys
      /\ handlers' = [handlers EXCEPT ![k] = Without(handlers[k], w)]
  BY TargetKey DEF CallType, Unsubscribe
<1> HIDE DEF k
<1>2. /\ Without(handlers[k], w) \in Seq(Waiters)
      /\ \A i \in 1 .. Len(Without(handlers[k], w)) : \E j \in 1 .. Len(handlers[k]) :
            Without(handlers[k], w)[i] = handlers[k][j]
  BY <1>1, WithoutType
<1>3. HandlersInv'
  <2> SUFFICES ASSUME NEW x \in Keys, NEW i \in 1 .. Len(handlers'[x])
               PROVE  DispatchKey(Target[handlers'[x][i]]) = x
    BY DEF HandlersInv
  <2>1. CASE x = k
    <3>1. handlers'[x] = Without(handlers[k], w)
      BY <1>1, <2>1
    <3>2. PICK j \in 1 .. Len(handlers[k]) : handlers'[x][i] = handlers[k][j]
      BY <1>2, <3>1
    <3> QED BY <1>1, <2>1, <3>2 DEF HandlersInv
  <2>2. CASE x # k
    BY <1>1, <2>2 DEF HandlersInv
  <2> QED BY <2>1, <2>2
<1> QED BY <1>1, <1>2, <1>3

\* What a step of a call or its watcher shows of the invariant when the sources
\* stand still.
LEMMA CallStepInv ==
    ASSUME WaitInv, UNCHANGED srcVars, CallType', HandlersInv',
           \A x \in Waiters : RoomInv(x)'
    PROVE  WaitInv'
BY SourcesFrame DEF WaitInv

\* The caller of waitForPower keeps the invariant.
LEMMA WaitCaller ==
    ASSUME WaitInv, NEW w \in Waiters, CallerStep(w)
    PROVE  WaitInv'
<1>0. CallType /\ HandlersInv /\ SourcesInv /\ \A x \in Waiters : RoomInv(x)
  BY DEF WaitInv
<1>1. UNCHANGED srcVars
  BY DEF CallerStep, Subscribe, AssignUnsub, SpawnWatcher, Receive, WaitCancel, CtxExpires
<1>2. \A x \in Waiters : Closing(x)' <=> Closing(x)
  BY <1>0, <1>1, SourcesFrame
<1>3. CASE Subscribe(w)
  <2> DEFINE k == DispatchKey(Target[w])
  <2>1. /\ handlers' = [handlers EXCEPT ![k] = Append(handlers[k], w)]
        /\ wpc' = [wpc EXCEPT ![w] = "assign"] /\ wpc[w] = "new"
        /\ UNCHANGED <<unsubs, answer, ch, done, ctx, goro, panic>> /\ k \in Keys
    BY <1>3, TargetKey DEF Subscribe, chVars
  <2>2. CallType'
    <3> HIDE DEF k
    <3>1. handlers \in [Keys -> Seq(Waiters)]
      BY <1>0 DEF CallType
    <3>2. Append(handlers[k], w) \in Seq(Waiters)
      BY <2>1, <3>1
    <3>3. handlers' \in [Keys -> Seq(Waiters)]
      BY <2>1, <3>1, <3>2
    <3>4. wpc' \in [Waiters -> {"new", "assign", "spawn", "wait", "got", "left"}]
      BY <1>0, <2>1 DEF CallType
    <3> QED BY <1>0, <2>1, <3>3, <3>4 DEF CallType
  <2>3. HandlersInv'
    <3> SUFFICES ASSUME NEW x \in Keys, NEW i \in 1 .. Len(handlers'[x])
                 PROVE  DispatchKey(Target[handlers'[x][i]]) = x
      BY DEF HandlersInv
    <3>1. handlers \in [Keys -> Seq(Waiters)]
      BY <1>0 DEF CallType
    <3>2. CASE x = k
      <4>1. handlers'[x] = Append(handlers[x], w) /\ handlers[x] \in Seq(Waiters)
        BY <2>1, <3>1, <3>2
      <4>2. CASE i = Len(handlers[x]) + 1
        BY <3>2, <4>1, <4>2
      <4>3. CASE i # Len(handlers[x]) + 1
        <5>1. i \in 1 .. Len(handlers[x]) /\ handlers'[x][i] = handlers[x][i]
          BY <4>1, <4>3
        <5> QED BY <1>0, <5>1 DEF HandlersInv
      <4> QED BY <4>2, <4>3
    <3>3. CASE x # k
      BY <1>0, <2>1, <3>1, <3>3 DEF HandlersInv
    <3> QED BY <3>2, <3>3
  <2>4. \A x \in Waiters : RoomInv(x)'
    BY <1>0, <1>2, <2>1 DEF RoomInv, CallType, Alive
  <2> QED BY <1>1, <2>2, <2>3, <2>4, CallStepInv
<1>4. CASE AssignUnsub(w) \/ WaitCancel(w) \/ CtxExpires(w)
  <2>1. /\ UNCHANGED <<handlers, unsubs, answer, ch, done, goro, panic>>
        /\ \/ wpc' = [wpc EXCEPT ![w] = "spawn"] /\ ctx' = ctx /\ wpc[w] = "assign"
           \/ wpc' = [wpc EXCEPT ![w] = "left"] /\ ctx' = [ctx EXCEPT ![w] = TRUE]
           \/ wpc' = wpc /\ ctx' = [ctx EXCEPT ![w] = TRUE]
    BY <1>4 DEF AssignUnsub, WaitCancel, CtxExpires, subVars, chVars
  <2>2. CallType' /\ HandlersInv'
    BY <1>0, <2>1 DEF CallType, HandlersInv
  <2>3. \A x \in Waiters : RoomInv(x)'
    BY <1>0, <1>2, <2>1 DEF RoomInv, CallType, Alive
  <2> QED BY <1>1, <2>2, <2>3, CallStepInv
<1>5. CASE SpawnWatcher(w)
  <2>1. /\ UNCHANGED <<handlers, unsubs, answer, ch, done, ctx, panic>>
        /\ wpc' = [wpc EXCEPT ![w] = "wait"] /\ wpc[w] = "spawn"
        /\ goro' = [goro EXCEPT ![w] = "select"]
    BY <1>5 DEF SpawnWatcher, subVars, chVars
  <2>2. CallType' /\ HandlersInv'
    BY <1>0, <2>1 DEF CallType, HandlersInv
  <2>3. \A x \in Waiters : RoomInv(x)'
    BY <1>0, <1>2, <2>1 DEF RoomInv, CallType, Alive
  <2> QED BY <1>1, <2>2, <2>3, CallStepInv
<1>6. CASE Receive(w)
  <2>1. /\ UNCHANGED <<handlers, unsubs, done, ctx, goro, panic>>
        /\ wpc' = [wpc EXCEPT ![w] = "got"] /\ wpc[w] = "wait" /\ ch[w] # <<>>
        /\ answer' = [answer EXCEPT ![w] = Head(ch[w])]
        /\ ch' = [ch EXCEPT ![w] = Tail(ch[w])]
    BY <1>6 DEF Receive, subVars
  <2>2. ch[w] \in Seq({"nil", "err"}) /\ Len(ch[w]) <= 1
    BY <1>0 DEF CallType
  <2>3. /\ Head(ch[w]) \in {"nil", "err"} /\ Tail(ch[w]) \in Seq({"nil", "err"})
        /\ Len(Tail(ch[w])) = Len(ch[w]) - 1 /\ Len(ch[w]) \in Nat \ {0}
    BY <2>1, <2>2, HeadTailProperties, EmptySeq
  <2>4. Tail(ch[w]) = <<>> /\ Len(Tail(ch[w])) <= 1
    BY <2>2, <2>3, EmptySeq
  <2>5. CallType'
    BY <1>0, <2>1, <2>3, <2>4 DEF CallType
  <2>6. HandlersInv'
    BY <1>0, <2>1 DEF HandlersInv
  <2>7. \A x \in Waiters : RoomInv(x)'
    BY <1>0, <1>2, <2>1, <2>4 DEF RoomInv, CallType, Alive
  <2> QED BY <1>1, <2>5, <2>6, <2>7, CallStepInv
<1> QED BY <1>3, <1>4, <1>5, <1>6 DEF CallerStep

\* So does the goroutine that watches the context.
LEMMA WaitWatcher ==
    ASSUME WaitInv, NEW w \in Waiters, WatcherStep(w)
    PROVE  WaitInv'
<1>0. CallType /\ HandlersInv /\ SourcesInv /\ \A x \in Waiters : RoomInv(x)
  BY DEF WaitInv
<1>1. UNCHANGED <<srcVars, wpc, answer, ctx>> /\ Alive
  BY DEF WatcherStep, WatchSelect, WatchCheck, WatchClose, WatchUnsub, WatchSend, RunUnsub
<1>2. \A x \in Waiters : Closing(x)' <=> Closing(x)
  BY <1>0, <1>1, SourcesFrame
<1>3. CASE WatchSelect(w) \/ WatchCheck(w)
  <2>1. /\ UNCHANGED <<handlers, unsubs, ch, done, panic>>
        /\ \E g \in {"check", "exit", "close"} : goro' = [goro EXCEPT ![w] = g]
        /\ goro[w] \in {"select", "check"}
    BY <1>3 DEF WatchSelect, WatchCheck, subVars, chVars
  <2>2. CallType' /\ HandlersInv'
    BY <1>0, <1>1, <2>1 DEF CallType, HandlersInv
  <2>3. \A x \in Waiters : RoomInv(x)'
    BY <1>0, <1>1, <1>2, <2>1 DEF RoomInv, CallType, Alive
  <2> QED BY <1>1, <2>2, <2>3, CallStepInv
<1>4. CASE WatchClose(w)
  <2>1. /\ UNCHANGED <<handlers, unsubs, ch>> /\ goro[w] = "close"
        /\ goro' = [goro EXCEPT ![w] = "unsub"] /\ done' = [done EXCEPT ![w] = TRUE]
        /\ panic' = IF done[w] THEN "close of closed channel" ELSE panic
    BY <1>4 DEF WatchClose, CloseDone, subVars
  <2>2. CallType' /\ HandlersInv'
    BY <1>0, <1>1, <2>1 DEF CallType, HandlersInv
  <2>3. ASSUME NEW x \in Waiters PROVE RoomInv(x)'
    <3>1. CASE x = w
      <4>1. done'[w] /\ goro'[w] = "unsub" /\ wpc'[w] \notin {"new", "assign", "spawn"}
        BY <1>0, <1>1, <2>1 DEF CallType, RoomInv
      <4>2. Alive' /\ ch'[w] # <<>> => Closing(w)
        BY <1>0, <1>1, <2>1 DEF RoomInv, Alive, CallType
      <4> QED BY <1>2, <3>1, <4>1, <4>2 DEF RoomInv
    <3>2. CASE x # w
      <4>1. goro'[x] = goro[x] /\ done'[x] = done[x] /\ ch' = ch /\ wpc' = wpc /\ Alive
        BY <1>0, <1>1, <2>1, <3>2 DEF CallType
      <4> QED BY <1>0, <1>2, <4>1 DEF RoomInv
    <3> QED BY <3>1, <3>2
  <2> QED BY <1>1, <2>2, <2>3, CallStepInv
<1>5. CASE WatchUnsub(w)
  <2>1. /\ UNCHANGED <<unsubs, ch, done, panic>> /\ goro[w] = "unsub"
        /\ goro' = [goro EXCEPT ![w] = "send"]
        /\ HandlersInv' /\ handlers' \in [Keys -> Seq(Waiters)]
    BY <1>0, <1>5, UnsubscribeInv DEF WatchUnsub, chVars
  <2>2. CallType'
    BY <1>0, <1>1, <2>1 DEF CallType
  <2>3. \A x \in Waiters : RoomInv(x)'
    BY <1>0, <1>1, <1>2, <2>1 DEF RoomInv, CallType, Alive
  <2> QED BY <1>1, <2>1, <2>2, <2>3, CallStepInv
<1>6. CASE WatchSend(w)
  <2>1. /\ UNCHANGED <<handlers, unsubs, done, panic>> /\ goro[w] = "send"
        /\ goro' = [goro EXCEPT ![w] = "exit"] /\ Len(ch[w]) < 1
        /\ ch' = [ch EXCEPT ![w] = Append(ch[w], "err")]
    BY <1>6 DEF WatchSend, subVars, ChCap
  <2>2. ch[w] \in Seq({"nil", "err"})
    BY <1>0 DEF CallType
  <2>3. Append(ch[w], "err") \in Seq({"nil", "err"}) /\ Len(Append(ch[w], "err")) <= 1
    BY <2>1, <2>2
  <2>4. CallType' /\ HandlersInv'
    BY <1>0, <1>1, <2>1, <2>3 DEF CallType, HandlersInv
  <2>5. \A x \in Waiters : RoomInv(x)'
    BY <1>0, <1>1, <1>2, <2>1 DEF RoomInv, CallType, Alive
  <2> QED BY <1>1, <2>4, <2>5, CallStepInv
<1>7. CASE RunUnsub(w)
  <2>1. /\ UNCHANGED <<ch, done, goro, panic>> /\ unsubs' = [unsubs EXCEPT ![w] = FALSE]
        /\ HandlersInv' /\ handlers' \in [Keys -> Seq(Waiters)]
    BY <1>0, <1>7, UnsubscribeInv DEF RunUnsub, chVars
  <2>2. CallType'
    BY <1>0, <1>1, <2>1 DEF CallType
  <2>3. \A x \in Waiters : RoomInv(x)'
    BY <1>0, <1>1, <1>2, <2>1 DEF RoomInv, Alive
  <2> QED BY <1>1, <2>1, <2>2, <2>3, CallStepInv
<1> QED BY <1>3, <1>4, <1>5, <1>6, <1>7 DEF WatcherStep

-----------------------------------------------------------------------------
(* The sources.                                                            *)

\* What a step of a source shows of the invariant when it closes nothing.
LEMMA SourceStepInv ==
    ASSUME WaitInv, NEW s \in Sources, Others(s), spc[s] # "close", SourcesInv',
           UNCHANGED <<handlers, wpc, answer, ch, done, ctx, goro>>,
           unsubs' \in [Waiters -> BOOLEAN],
           panic' \in {"none", "close of closed channel", "go of nil func value"}, Alive
    PROVE  WaitInv'
<1>0. CallType /\ HandlersInv /\ \A x \in Waiters : RoomInv(x)
  BY DEF WaitInv
<1>1. CallType' /\ HandlersInv'
  BY <1>0 DEF CallType, HandlersInv
<1>2. ASSUME NEW x \in Waiters PROVE RoomInv(x)'
  <2>1. Closing(x) => Closing(x)'
    BY ClosingKept
  <2> QED BY <1>0, <2>1 DEF RoomInv
<1> QED BY <1>1, <1>2 DEF WaitInv

\* So does the arrival of a message.
LEMMA WaitSensor ==
    ASSUME WaitInv, NEW s \in Sources, NEW m \in Payloads, HandleSensor(s, m)
    PROVE  WaitInv'
<1>0. CallType /\ SourcesInv /\ SourceInv(s)
  BY DEF WaitInv, SourcesInv
<1>1. /\ spc[s] = "idle" /\ pending[s] = {} /\ Alive
      /\ pending' = [pending EXCEPT ![s] = ParseSensorPayload(m)]
      /\ msg' = [msg EXCEPT ![s] = IF ParseSensorPayload(m) = {} THEN None ELSE m]
      /\ UNCHANGED <<handlers, unsubs, todo, event, spc, wpc, answer, ch, done, ctx, goro, panic>>
  BY DEF HandleSensor, subVars, chVars
<1>2. /\ pending'[s] = ParseSensorPayload(m) /\ Others(s) /\ ShapeInv'
      /\ msg'[s] = IF ParseSensorPayload(m) = {} THEN None ELSE m
  BY <1>0, <1>1 DEF SourcesInv, ShapeInv, Others
<1>3. SourceInv(s)'
  <2>1. CASE ParseSensorPayload(m) = {}
    BY <1>0, <1>1, <1>2, <2>1 DEF SourceInv
  <2>2. CASE ParseSensorPayload(m) # {}
    BY <1>0, <1>1, <1>2, <2>2 DEF SourceInv
  <2> QED BY <2>1, <2>2
<1>4. SourcesInv'
  BY <1>0, <1>2, <1>3, SourcesStep
<1>5. unsubs' \in [Waiters -> BOOLEAN] /\ panic' \in {"none", "close of closed channel", "go of nil func value"}
  BY <1>0, <1>1 DEF CallType
<1> QED BY <1>1, <1>2, <1>4, <1>5, SourceStepInv

\* So do the snapshot and the return of Dispatch.
LEMMA WaitDispatch ==
    ASSUME WaitInv, NEW s \in Sources, Dispatch(s)
    PROVE  WaitInv'
<1>0. CallType /\ HandlersInv /\ SourcesInv /\ SourceInv(s)
  BY DEF WaitInv, SourcesInv
<1>1. spc[s] = "idle" /\ Alive /\ UNCHANGED <<handlers, unsubs, wpc, answer, ch, done, ctx, goro, panic>>
  BY DEF Dispatch, subVars, chVars
<1>2. PICK e \in pending[s] :
          /\ pending' = [pending EXCEPT ![s] = pending[s] \ {e}]
          /\ todo' = [todo EXCEPT ![s] = Snapshot(e)]
          /\ IF DOMAIN Snapshot(e) # {}
             THEN /\ event' = [event EXCEPT ![s] = e]
                  /\ spc' = [spc EXCEPT ![s] = "call"]
                  /\ UNCHANGED msg
             ELSE /\ msg' = [msg EXCEPT ![s] = IF pending[s] = {e} THEN None ELSE msg[s]]
                  /\ UNCHANGED <<event, spc>>
  BY DEF Dispatch
<1>3. msg[s] \in Payloads /\ e \in ParseSensorPayload(msg[s])
  BY <1>0 DEF SourceInv
<1>4. e \in Events
  BY <1>3, ParsedEvents
<1> DEFINE snap == Snapshot(e)
<1>5. /\ \A i \in DOMAIN snap : i \in Nat /\ snap[i] \in Waiters /\ Concerns(e, snap[i])
      /\ \A i, j \in DOMAIN snap : snap[i] = snap[j] => i = j
  BY <1>0, <1>4, SnapshotOnce
<1>6. /\ pending'[s] = pending[s] \ {e} /\ todo'[s] = snap /\ Others(s) /\ ShapeInv'
      /\ DOMAIN snap # {} => event'[s] = e /\ spc'[s] = "call" /\ msg'[s] = msg[s]
      /\ DOMAIN snap = {} => /\ event'[s] = event[s] /\ spc'[s] = spc[s]
                             /\ msg'[s] = IF pending[s] = {e} THEN None ELSE msg[s]
  BY <1>0, <1>2 DEF SourcesInv, ShapeInv, Others
<1> HIDE DEF snap
<1>7. SourceInv(s)'
  <2>1. CASE DOMAIN snap # {}
    <3>1. \A i \in DOMAIN snap : Concerns(event'[s], snap[i])
      BY <1>5, <1>6, <2>1
    <3> QED BY <1>0, <1>3, <1>5, <1>6, <2>1, <3>1 DEF SourceInv, SpcStates, Concerns
  <2>2. CASE DOMAIN snap = {} /\ pending[s] = {e}
    BY <1>0, <1>1, <1>6, <2>2 DEF SourceInv, SpcStates
  <2>3. CASE DOMAIN snap = {} /\ pending[s] # {e}
    BY <1>0, <1>1, <1>3, <1>6, <2>3 DEF SourceInv, SpcStates
  <2> QED BY <2>1, <2>2, <2>3
<1>8. SourcesInv'
  BY <1>0, <1>6, <1>7, SourcesStep
<1>9. unsubs' \in [Waiters -> BOOLEAN] /\ panic' \in {"none", "close of closed channel", "go of nil func value"}
  BY <1>0, <1>1 DEF CallType
<1> QED BY <1>1, <1>6, <1>8, <1>9, SourceStepInv

\* A source moves on inside the handler it is in.
LEMMA StageSource ==
    ASSUME SourcesInv, NEW s \in Sources, spc[s] # "idle", NEW p \in {"offer", "close", "unsub"},
           p \in {"offer", "close"} => event[s].power = Expect[Callee(s)],
           spc' = [spc EXCEPT ![s] = p], UNCHANGED <<todo, event, pending, msg>>
    PROVE  SourcesInv' /\ Others(s) /\ spc'[s] = p /\ Callee(s)' = Callee(s)
<1>1. spc'[s] = p /\ Others(s) /\ ShapeInv' /\ Callee(s)' = Callee(s)
  BY DEF SourcesInv, ShapeInv, Others, Callee
<1>2. SourceInv(s)'
  BY <1>1 DEF SourcesInv, SourceInv, SpcStates, Concerns
<1> QED BY <1>1, <1>2, SourcesStep

\* So does the handler.
LEMMA WaitHandler ==
    ASSUME WaitInv, NEW s \in Sources,
           HandlerCheck(s) \/ HandlerOffer(s) \/ HandlerClose(s) \/ HandlerUnsub(s)
    PROVE  WaitInv'
<1> DEFINE w == Callee(s)
<1>0. CallType /\ HandlersInv /\ SourcesInv /\ SourceInv(s) /\ \A x \in Waiters : RoomInv(x)
  BY DEF WaitInv, SourcesInv
<1>1. Alive /\ spc[s] \in {"call", "offer", "close", "unsub"}
  BY DEF HandlerCheck, HandlerOffer, HandlerClose, HandlerUnsub
<1>2. w \in Waiters
  BY <1>0, <1>1, CalleeType
<1>3. unsubs \in [Waiters -> BOOLEAN] /\ panic \in {"none", "close of closed channel", "go of nil func value"}
  BY <1>0 DEF CallType
<1>4. CASE HandlerCheck(s)
  <2>1. /\ UNCHANGED <<handlers, unsubs, wpc, answer, ch, done, ctx, goro, panic>> /\ spc[s] = "call"
        /\ \/ Return(s)
           \/ /\ spc' = [spc EXCEPT ![s] = "offer"] /\ event[s].power = Expect[w]
              /\ UNCHANGED <<todo, event, pending, msg>>
    BY <1>4 DEF HandlerCheck, subVars, chVars
  <2>2. SourcesInv' /\ Others(s)
    <3>1. CASE Return(s)
      BY <1>0, <2>1, <3>1, ReturnSource
    <3>2. CASE /\ spc' = [spc EXCEPT ![s] = "offer"] /\ event[s].power = Expect[w]
               /\ UNCHANGED <<todo, event, pending, msg>>
      BY <1>0, <2>1, <3>2, StageSource
    <3> QED BY <2>1, <3>1, <3>2
  <2> QED BY <1>1, <1>3, <2>1, <2>2, SourceStepInv
<1>5. CASE HandlerOffer(s) /\ ~(Len(ch[w]) < ChCap)
  <2>1. /\ UNCHANGED <<handlers, unsubs, wpc, answer, ch, done, ctx, goro, panic>> /\ spc[s] = "offer"
        /\ Return(s)
    BY <1>5 DEF HandlerOffer, subVars
  <2>2. SourcesInv' /\ Others(s)
    BY <1>0, <2>1, ReturnSource
  <2> QED BY <1>1, <1>3, <2>1, <2>2, SourceStepInv
<1>6. CASE HandlerOffer(s) /\ Len(ch[w]) < ChCap
  <2>1. /\ UNCHANGED <<handlers, unsubs, wpc, answer, done, ctx, goro, panic>> /\ spc[s] = "offer"
        /\ ch' = [ch EXCEPT ![w] = Append(ch[w], "nil")] /\ Len(ch[w]) < 1
        /\ spc' = [spc EXCEPT ![s] = "close"] /\ UNCHANGED <<todo, event, pending, msg>>
    BY <1>6 DEF HandlerOffer, subVars, ChCap
  <2>2. event[s].power = Expect[Callee(s)]
    BY <1>0, <2>1 DEF SourceInv
  <2>3. SourcesInv' /\ Others(s) /\ spc'[s] = "close" /\ Callee(s)' = Callee(s)
    BY <1>0, <2>1, <2>2, StageSource
  <2> HIDE DEF w
  <2>4. ch[w] \in Seq({"nil", "err"})
    BY <1>0, <1>2 DEF CallType
  <2>5. Append(ch[w], "nil") \in Seq({"nil", "err"}) /\ Len(Append(ch[w], "nil")) <= 1
    BY <2>1, <2>4
  <2>6. CallType' /\ HandlersInv'
    BY <1>0, <2>1, <2>5 DEF CallType, HandlersInv
  <2>7. ASSUME NEW x \in Waiters PROVE RoomInv(x)'
    <3>1. Closing(x) => Closing(x)'
      BY <2>1, <2>3, ClosingKept
    <3>2. CASE x = w
      <4>1. Closing(x)'
        BY <2>3, <3>2 DEF Closing, w
      <4> QED BY <1>0, <2>1, <3>2, <4>1 DEF RoomInv, Alive
    <3>3. CASE x # w
      <4>1. ch'[x] = ch[x]
        BY <2>1, <3>3, <1>0 DEF CallType
      <4> QED BY <1>0, <2>1, <3>1, <4>1 DEF RoomInv, Alive
    <3> QED BY <3>2, <3>3
  <2> QED BY <2>3, <2>6, <2>7 DEF WaitInv
<1>7. CASE HandlerClose(s)
  <2>1. /\ UNCHANGED <<handlers, unsubs, wpc, answer, ch, ctx, goro>> /\ spc[s] = "close"
        /\ done' = [done EXCEPT ![w] = TRUE]
        /\ panic' = IF done[w] THEN "close of closed channel" ELSE panic
        /\ spc' = [spc EXCEPT ![s] = "unsub"] /\ UNCHANGED <<todo, event, pending, msg>>
    BY <1>7 DEF HandlerClose, CloseDone, subVars
  <2>2. SourcesInv' /\ Others(s) /\ spc'[s] = "unsub"
    BY <1>0, <2>1, StageSource
  <2>3. \A x : x # w /\ Closing(x) => Closing(x)'
    BY <2>1, <2>2 DEF Closing, Callee, Others
  <2> HIDE DEF w
  <2>4. CallType' /\ HandlersInv'
    BY <1>0, <2>1 DEF CallType, HandlersInv
  <2>5. ASSUME NEW x \in Waiters PROVE RoomInv(x)'
    <3>1. CASE x = w
      <4>1. done'[w]
        BY <1>0, <1>2, <2>1 DEF CallType
      <4>2. Alive' => ~done[w]
        BY <2>1 DEF Alive
      <4> QED BY <1>0, <1>1, <2>1, <3>1, <4>1, <4>2 DEF RoomInv
    <3>2. CASE x # w
      <4>1. done'[x] = done[x]
        BY <1>0, <2>1, <3>2 DEF CallType
      <4> QED BY <1>0, <1>1, <2>1, <2>3, <3>2, <4>1 DEF RoomInv
    <3> QED BY <3>1, <3>2
  <2> QED BY <2>2, <2>4, <2>5 DEF WaitInv
<1>8. CASE HandlerUnsub(s)
  <2>1. /\ UNCHANGED <<handlers, wpc, answer, ch, done, ctx, goro>> /\ spc[s] = "unsub" /\ Return(s)
        /\ \/ panic' = "go of nil func value" /\ unsubs' = unsubs
           \/ panic' = panic /\ unsubs' = [unsubs EXCEPT ![w] = TRUE]
    BY <1>8 DEF HandlerUnsub, chVars
  <2>2. SourcesInv' /\ Others(s)
    BY <1>0, <2>1, ReturnSource
  <2>3. unsubs' \in [Waiters -> BOOLEAN] /\ panic' \in {"none", "close of closed channel", "go of nil func value"}
    <3> HIDE DEF w
    <3> QED BY <1>3, <2>1
  <2> QED BY <1>1, <2>1, <2>2, <2>3, SourceStepInv
<1> QED BY <1>4, <1>5, <1>6, <1>7, <1>8

-----------------------------------------------------------------------------
(* The invariant, and what follows from it.                                *)

\* At the start nobody is subscribed.
LEMMA WaitStart == Init => WaitInv
<1> SUFFICES ASSUME Init PROVE WaitInv
  OBVIOUS
<1>1. CallType
  BY DEF Init, CallType
<1>2. HandlersInv
  BY DEF Init, HandlersInv
<1>3. SourcesInv
  BY DEF Init, SourcesInv, ShapeInv, SourceInv, SpcStates
<1>4. \A w \in Waiters : RoomInv(w)
  BY DEF Init, RoomInv
<1> QED BY <1>1, <1>2, <1>3, <1>4 DEF WaitInv

\* The invariant is inductive.
LEMMA WaitStep == WaitInv /\ [Next]_vars => WaitInv'
<1> SUFFICES ASSUME WaitInv, [Next]_vars PROVE WaitInv'
  OBVIOUS
<1>1. CASE Next
  <2>1. ASSUME NEW w \in Waiters, CallerStep(w) PROVE WaitInv'
    BY <2>1, WaitCaller
  <2>2. ASSUME NEW w \in Waiters, WatcherStep(w) PROVE WaitInv'
    BY <2>2, WaitWatcher
  <2>3. ASSUME NEW s \in Sources, SourceStep(s) PROVE WaitInv'
    BY <2>3, WaitDispatch, WaitHandler DEF SourceStep
  <2>4. ASSUME NEW s \in Sources, NEW m \in Payloads, HandleSensor(s, m) PROVE WaitInv'
    BY <2>4, WaitSensor
  <2> QED BY <1>1, <2>1, <2>2, <2>3, <2>4 DEF Next
<1>2. CASE UNCHANGED vars
  <2>1. UNCHANGED <<handlers, unsubs, srcVars, wpc, answer, ch, done, ctx, goro, panic>>
    BY <1>2 DEF vars, subVars, chVars
  <2>2. CallType' /\ HandlersInv'
    BY <2>1 DEF WaitInv, CallType, HandlersInv
  <2>3. \A x \in Waiters : Closing(x)' <=> Closing(x)
    BY <2>1, SourcesFrame DEF WaitInv
  <2>4. \A x \in Waiters : RoomInv(x)'
    BY <2>1, <2>3 DEF WaitInv, RoomInv, Alive
  <2> QED BY <2>1, <2>2, <2>4, CallStepInv
<1> QED BY <1>1, <1>2

\* It holds in every reachable state.
LEMMA WaitInvariant == Spec => []WaitInv
BY WaitStart, WaitStep, PTL DEF Spec

\* Every variable of waitForPower and the dispatcher keeps its type, and the
\* channel of a call never holds more than the one answer it has room for.
THEOREM WaitTypes == Spec => []TypeOK
<1>1. WaitInv => TypeOK
  <2> SUFFICES ASSUME WaitInv PROVE TypeOK
    OBVIOUS
  <2>1. CallType /\ SourcesInv
    BY DEF WaitInv
  <2>2. ASSUME NEW s \in Sources, NEW e \in pending[s] \cup ({event[s]} \ {None})
        PROVE  e.power \in {"on", "off", "absent"} /\ msg[s] \in Payloads
    <3>1. msg[s] \in Payloads /\ e \in ParseSensorPayload(msg[s])
      BY <2>1 DEF SourcesInv, SourceInv
    <3>2. e \in Events
      BY <3>1, ParsedEvents
    <3> QED BY <3>1, <3>2 DEF Events
  <2>3. spc \in [Sources -> SpcStates]
    BY <2>1 DEF SourcesInv, ShapeInv, SourceInv
  <2>4. \A s \in Sources : (spc[s] = "idle") = (DOMAIN todo[s] = {})
    BY <2>1 DEF SourcesInv, SourceInv
  <2>5. \A s \in Sources : \A i \in DOMAIN todo[s] : i \in Nat /\ todo[s][i] \in Waiters
    BY <2>1 DEF SourcesInv, SourceInv
  <2> QED BY <2>1, <2>2, <2>3, <2>4, <2>5 DEF TypeOK, CallType, SpcStates
<1> QED BY <1>1, WaitInvariant, PTL

\* Dispatch hands one event to a subscription once at most, also when the name and
\* the short address of the event lead to the same key.
THEOREM EachHandlerOnce == Spec => []DeliveredOnce
<1>1. WaitInv => DeliveredOnce
  BY DEF WaitInv, SourcesInv, SourceInv, DeliveredOnce
<1> QED BY <1>1, WaitInvariant, PTL

\* The goroutine watching the context is never left alone with a full channel:
\* when its send finds no room, the handler that took it is about to close done
\* a second time.
THEOREM WatcherFindsRoom == Spec => []SendFindsRoom
<1>1. WaitInv => SendFindsRoom
  BY DEF WaitInv, RoomInv, SendFindsRoom, Closing, Alive
<1> QED BY <1>1, WaitInvariant, PTL

\* The handler confirms a call only for a report, in the message at hand, that
\* names the call's device and gives the power it waits for.
THEOREM ReportsConfirm == Spec => []ConfirmedByReport
<1>1. WaitInv => ConfirmedByReport
  <2> SUFFICES ASSUME WaitInv, NEW s \in Sources, spc[s] = "close"
               PROVE  \E x \in msg[s].ZbReceived : x.object /\ Reports(x, Callee(s))
    BY DEF ConfirmedByReport
  <2> DEFINE w == Callee(s)
  <2>1. SourceInv(s)
    BY DEF WaitInv, SourcesInv
  <2>2. w \in Waiters /\ Concerns(event[s], w)
    BY <2>1, CalleeType
  <2>3. /\ msg[s] \in Payloads /\ event[s] \in ParseSensorPayload(msg[s])
        /\ event[s].power = Expect[w]
    BY <2>1 DEF SourceInv
  <2> HIDE DEF w
  <2>4. PICK x \in msg[s].ZbReceived : msg[s].json /\ x.object /\ event[s] = SensorEvent(x)
    BY <2>3, ParsedEvents
  <2>5. x.Power \in {Absent, Null, Other, Num("on"), Num("off")}
    BY <2>3, <2>4, PayloadsAssumption
  <2>6. /\ event[s].name = StringField(x.Name) /\ event[s].addr = StringField(x.Device)
        /\ event[s].power = IntField(x.Power)
    BY <2>4 DEF SensorEvent
  <2>7. Expect[w] \in {"on", "off"}
    BY <2>2, WaitersAssumption
  <2>8. x.Power = Num(Expect[w]) \/ (x.Power = Null /\ Expect[w] = "off")
    BY <2>3, <2>5, <2>6, <2>7, ReportedPower
  <2>9. \E id \in {StringField(x.Name), StringField(x.Device)} : SameId(id, Target[w])
    BY <2>2, <2>6 DEF Concerns
  <2>10. Reports(x, w)
    BY <2>8, <2>9 DEF Reports
  <2> QED BY <2>4, <2>10 DEF w
<1> QED BY <1>1, WaitInvariant, PTL
=============================================================================
