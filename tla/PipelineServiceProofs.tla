------------------------ MODULE PipelineServiceProofs ------------------------
(***************************************************************************)
(* What the callers of a pipeline are told: the history, the cancellations  *)
(* and the service as a whole (ActionService), for every set of requests,   *)
(* every capacity and every set of configurations.                          *)
(***************************************************************************)
EXTENDS PipelineProofs

-----------------------------------------------------------------------------
(* The channel and the history as sets.                                    *)

\* An empty history lists nothing.
LEMMA EntriesEmpty == Entries(<<>>) = {}
BY EmptySeq DEF Entries

\* The entries of a sequence are of its type.
LEMMA EntriesType ==
    ASSUME NEW S, NEW q \in Seq(S)
    PROVE  Entries(q) \subseteq S
BY ElementOfSeq DEF Entries

\* An append adds one entry.
LEMMA EntriesAppend ==
    ASSUME NEW S, NEW q \in Seq(S), NEW r \in S
    PROVE  Entries(Append(q, r)) = Entries(q) \cup {r}
<1> DEFINE n == Len(q)
<1>1. n \in Nat /\ Len(Append(q, r)) = n + 1
  BY LenProperties, AppendProperties
<1>2. /\ Append(q, r)[n + 1] = r
      /\ \A i \in 1 .. n : Append(q, r)[i] = q[i]
  BY AppendProperties
<1>3. 1 .. n + 1 = 1 .. n \cup {n + 1}
  BY <1>1
<1> HIDE DEF n
<1>4. \A x \in Entries(Append(q, r)) : x \in Entries(q) \cup {r}
  BY <1>1, <1>2, <1>3 DEF Entries, n
<1>5. \A x \in Entries(q) \cup {r} : x \in Entries(Append(q, r))
  BY <1>1, <1>2, <1>3 DEF Entries, n
<1> QED BY <1>4, <1>5

\* Taking the oldest entry of a channel that holds each entry once.
LEMMA EntriesTail ==
    ASSUME queue \in Seq(Requests), queue # <<>>, QueueInv
    PROVE  /\ Head(queue) \in Entries(queue) /\ Head(queue) \in Requests
           /\ Entries(Tail(queue)) = Entries(queue) \ {Head(queue)}
<1> DEFINE t == Tail(queue)
           n == Len(queue)
<1>1. /\ Head(queue) = queue[1] /\ Head(queue) \in Requests
      /\ n \in Nat /\ n > 0 /\ Len(t) = n - 1
      /\ \A i \in 1 .. Len(t) : t[i] = queue[i + 1]
  BY ChannelTail
<1>2. \A i, j \in 1 .. n : queue[i] = queue[j] => i = j
  BY DEF QueueInv
<1> HIDE DEF t, n
<1>3. Head(queue) \in Entries(queue)
  BY <1>1 DEF Entries, n
<1>4. ASSUME NEW x \in Entries(t)
      PROVE  x \in Entries(queue) \ {Head(queue)}
  <2>1. PICK i \in 1 .. Len(t) : x = t[i]
    BY DEF Entries
  <2>2. i + 1 \in 1 .. n /\ 1 \in 1 .. n /\ i + 1 # 1 /\ x = queue[i + 1]
    BY <1>1, <2>1
  <2> QED BY <1>1, <1>2, <2>2 DEF Entries, n
<1>5. ASSUME NEW x \in Entries(queue), x # Head(queue)
      PROVE  x \in Entries(t)
  <2>1. PICK i \in 1 .. n : x = queue[i]
    BY DEF Entries, n
  <2>2. i - 1 \in 1 .. Len(t) /\ i = (i - 1) + 1
    BY <1>1, <1>5, <2>1
  <2>3. t[i - 1] = x
    BY <1>1, <2>1, <2>2
  <2> QED BY <2>2, <2>3 DEF Entries
<1> QED BY <1>1, <1>3, <1>4, <1>5 DEF t

\* A new entry of the history comes first, and the rest was there before.
LEMMA EntriesAddToHistory ==
    ASSUME history \in Seq(Ids), NEW a \in Ids
    PROVE  Entries(AddToHistory(a)) \subseteq Entries(history) \cup {a}
<1> DEFINE h == <<a>> \o history
           n == Len(history)
<1>1. /\ n \in Nat /\ <<a>> \in Seq(Ids) /\ Len(<<a>>) = 1 /\ <<a>>[1] = a
  BY LenProperties
<1>2. /\ h \in Seq(Ids) /\ Len(h) = n + 1
      /\ \A i \in 1 .. n + 1 : h[i] = IF i <= 1 THEN <<a>>[i] ELSE history[i - 1]
  BY <1>1, ConcatProperties
<1> HIDE DEF h, n
<1>3. \A i \in 1 .. n + 1 : h[i] \in Entries(history) \cup {a}
  <2> TAKE i \in 1 .. n + 1
  <2>1. CASE i = 1
    BY <1>1, <1>2, <2>1
  <2>2. CASE i # 1
    <3>1. i - 1 \in 1 .. n /\ h[i] = history[i - 1]
      BY <1>1, <1>2, <2>2
    <3> QED BY <3>1 DEF Entries, n
  <2> QED BY <2>1, <2>2
<1>4. CASE Len(h) > HistoryCap
  <2>1. /\ Len(SubSeq(h, 1, HistoryCap)) = HistoryCap
        /\ \A i \in 1 .. HistoryCap : SubSeq(h, 1, HistoryCap)[i] = h[i]
    <3>1. \A i \in 1 .. HistoryCap : h[i] \in Ids
      BY <1>2, <1>4, <1>1, ElementOfSeq, CapsAssumption
    <3> QED BY <1>1, <1>2, <1>4, <3>1, SubSeqProperties, CapsAssumption
  <2>2. AddToHistory(a) = SubSeq(h, 1, HistoryCap)
    BY <1>4 DEF AddToHistory, h
  <2>3. \A i \in 1 .. HistoryCap : i \in 1 .. n + 1
    BY <1>1, <1>2, <1>4, CapsAssumption
  <2>4. \A i \in 1 .. HistoryCap : SubSeq(h, 1, HistoryCap)[i] \in Entries(history) \cup {a}
    BY <1>3, <2>1, <2>3
  <2> QED BY <2>1, <2>2, <2>4 DEF Entries
<1>5. CASE ~(Len(h) > HistoryCap)
  BY <1>2, <1>3, <1>5 DEF AddToHistory, Entries, h
<1> QED BY <1>4, <1>5

-----------------------------------------------------------------------------
(* The history tells the truth: HistoryHonest.                             *)

\* The goroutine is at p, or writes the status on its way there.
At(p) == pc = p \/ (pc = "write" /\ pend.next = p)

\* Action a has come to its end, and says the truth about it.
Honest(a) == /\ IsTerminal(a)
             /\ act[a].state = "fulfilled" => NeededAcks(a) \subseteq acked[a]

\* What the device has confirmed of the action that is executed, point by point.
ProgressInv ==
    /\ pc \in {"idle", "begin", "record"} => phase = "main"
    /\ pc \in Busy =>
        /\ phase = "close" => act[job].type = "open_timed" /\ "on" \in acked[job]
        /\ At("fulfilled") => /\ phase = "main"
                              /\ (IF act[job].type = "close" THEN "off" ELSE "on")
                                    \in acked[job]
        /\ pc = "closing" \/ At("hold")
              => act[job].type = "open_timed" /\ "on" \in acked[job]
        /\ At("closed") => phase = "close" /\ "off" \in acked[job]
        /\ pc = "mark" => act[job].state = "failed"
        /\ At("clear") \/ At("done") \/ pc = "record" => Honest(job)

\* A listed action is over: it is neither in the channel nor being executed.
ListedInv ==
    \A a \in Entries(history) :
        /\ Honest(a)
        /\ pc \in Busy => a # job
        /\ \/ a = ShutdownClose /\ pc = "stopped"
           \/ a \in Requests /\ caller[a] = "accepted" /\ a \notin Entries(queue)

HistInv == ProgressInv /\ ListedInv

\* At the start nothing is listed.
LEMMA HistInit == Init => HistInv
<1> SUFFICES ASSUME Init PROVE HistInv
  OBVIOUS
<1>1. pc = "idle" /\ history = <<>> /\ phase = "main"
  BY DEF Init
<1> QED BY <1>1, EntriesEmpty DEF HistInv, ProgressInv, ListedInv, Busy

\* Honesty is about one action and its confirmations.
LEMMA HonestFrame ==
    ASSUME NEW a, act'[a] = act[a], acked'[a] = acked[a], Honest(a)
    PROVE  Honest(a)'
BY DEF Honest, IsTerminal, NeededAcks

\* The listed actions stay as they are while another one changes.
LEMMA ListedFrame ==
    ASSUME TypeInv, ListedInv, history' = history,
           \A a \in Entries(history) : act'[a] = act[a] /\ acked'[a] = acked[a]
    PROVE  \A a \in Entries(history') : Honest(a)'
<1> SUFFICES ASSUME NEW a \in Entries(history) PROVE Honest(a)'
  OBVIOUS
<1>1. Honest(a)
  BY DEF ListedInv
<1> QED BY <1>1, HonestFrame

\* A call makes a new action, which nothing lists.
LEMMA HistCaller == TypeInv /\ SafeInv /\ HistInv /\ CallerNext => HistInv'
<1> SUFFICES ASSUME TypeInv, SafeInv, HistInv, CallerNext PROVE HistInv'
  OBVIOUS
<1> PICK r \in Requests :
       \/ \E d \in Durations : Open(r, d)
       \/ Close(r) \/ SendToQueue(r) \/ FindFull(r) \/ DropOldest(r)
  BY DEF CallerNext
<1>0. /\ caller \in [Requests -> CallerStates] /\ queue \in Seq(Requests)
      /\ act \in [Ids -> Actions] /\ Requests \subseteq Ids
      /\ r # ShutdownClose
  BY IdsAssumption DEF TypeInv, TypeOK, CallerType, StructType, Ids
<1>1. /\ caller[r] # "accepted"
      /\ \A x \in Requests : x # r => caller'[x] = caller[x]
      /\ UNCHANGED <<pc, job, phase, pend, acked, history>>
      /\ \A a \in Ids : a # r => act'[a] = act[a]
  BY <1>0 DEF Open, Close, SendToQueue, FindFull, DropOldest, tryVars
<1>2. pc \in Busy => job \in Ids /\ job # r
  BY <1>0, <1>1 DEF SafeInv, JobInv, TypeInv, ControlOK
<1>3. \A a \in Entries(history) : a \in Ids /\ a # r
  <2>1. Entries(history) \subseteq Ids
    BY EntriesType DEF TypeInv, TypeOK, StructType
  <2> QED BY <1>0, <1>1, <2>1 DEF HistInv, ListedInv
<1>4. Entries(queue') \subseteq Entries(queue) \cup {r}
  <2>1. CASE SendToQueue(r)
    <3>1. queue' = Append(queue, r)
      BY <2>1 DEF SendToQueue
    <3> QED BY <1>0, <3>1, EntriesAppend
  <2>2. CASE DropOldest(r) /\ queue # <<>>
    <3>1. queue' = Tail(queue)
      BY <2>2 DEF DropOldest
    <3> QED BY <1>0, <2>2, <3>1, EntriesTail DEF SafeInv
  <2> QED BY <2>1, <2>2 DEF Open, Close, FindFull, DropOldest
<1>5. ProgressInv'
  <2>1. pc \in Busy => act'[job] = act[job] /\ (Honest(job) => Honest(job)')
    BY <1>1, <1>2, HonestFrame
  <2> QED BY <1>1, <1>2, <2>1 DEF HistInv, ProgressInv, At, Honest, IsTerminal, NeededAcks
<1>6. \A a \in Entries(history') : Honest(a)'
  BY <1>1, <1>3, ListedFrame DEF HistInv
<1>7. ListedInv'
  BY <1>1, <1>3, <1>4, <1>6 DEF HistInv, ListedInv
<1> QED BY <1>5, <1>7 DEF HistInv

\* Taking an action starts its record afresh; recording it copies what is true.
LEMMA HistStart == TypeInv /\ SafeInv /\ HistInv /\ (Dequeue \/ StopRun \/ Record) => HistInv'
<1> SUFFICES ASSUME TypeInv, SafeInv, HistInv, Dequeue \/ StopRun \/ Record
             PROVE  HistInv'
  OBVIOUS
<1>0. /\ queue \in Seq(Requests) /\ act \in [Ids -> Actions] /\ Requests \subseteq Ids
      /\ ShutdownClose \in Ids /\ ShutdownClose \notin Requests /\ cfg \in Configs
      /\ history \in Seq(Ids)
  BY IdsAssumption DEF TypeInv, TypeOK, CallerType, StructType, Ids
<1>1. /\ UNCHANGED <<caller, acked, phase>> /\ Entries(history) \subseteq Ids
      /\ pc \notin Busy \/ pc = "record"
  BY <1>0, EntriesType DEF Dequeue, StopRun, Record, callVars, Busy
\* An action whose state is set by the rejection in Prepare is honest.
<1>2. ASSUME NEW id \in Ids, Prepare(id), phase = "main"
      PROVE  ProgressInv'
  <2>1. pc' \in {"begin", "record"} /\ job' = id
    BY <1>0, <1>2, PrepareType
  <2>2. pc' = "record" => act'[id].state = "cancelled"
    <3>1. Upgraded(act[id]) \in [type : ActionTypes, dur : Nat, state : ActionStates]
      <4>1. act[id] \in Actions /\ cfg.maxOpen \in Nat
        BY <1>0, ConfigsAssumption
      <4> QED BY <4>1 DEF Upgraded, Actions, ActionTypes
    <3> QED BY <1>0, <1>2, <3>1 DEF Prepare
  <2> QED BY <1>1, <1>2, <2>1, <2>2 DEF ProgressInv, At, Honest, IsTerminal
<1>3. CASE Dequeue
  <2>1. queue # <<>> /\ queue' = Tail(queue) /\ Prepare(Head(queue)) /\ history' = history
        /\ pc = "idle"
    BY <1>3 DEF Dequeue
  <2>2. /\ Head(queue) \in Entries(queue) /\ Head(queue) \in Requests
        /\ Entries(queue') \subseteq Entries(queue)
    BY <1>0, <2>1, EntriesTail DEF SafeInv
  <2>3. /\ \A a \in Ids : a # Head(queue) => act'[a] = act[a]
        /\ job' = Head(queue)
    BY <1>0, <2>1, <2>2, PrepareType
  <2>4. \A a \in Entries(history) :
           /\ a # Head(queue) /\ a \in Requests /\ caller[a] = "accepted"
           /\ a \notin Entries(queue)
    BY <2>1, <2>2 DEF HistInv, ListedInv
  <2>5. \A a \in Entries(history') : Honest(a)'
    BY <1>1, <2>1, <2>3, <2>4, ListedFrame DEF HistInv
  <2>6. ListedInv'
    BY <1>1, <2>1, <2>2, <2>3, <2>4, <2>5 DEF ListedInv
  <2>7. phase = "main"
    BY <2>1 DEF HistInv, ProgressInv
  <2> QED BY <1>0, <1>2, <2>1, <2>2, <2>6, <2>7 DEF HistInv
<1>4. CASE StopRun
  <2>1. /\ queue' = queue /\ history' = history /\ pc = "idle" /\ phase = "main"
        /\ \/ Prepare(ShutdownClose)
           \/ pc' = "stopped" /\ act' = act
    BY <1>4 DEF StopRun, callVars, HistInv, ProgressInv
  <2>2. \A a \in Entries(history) :
           /\ a # ShutdownClose /\ a \in Requests /\ caller[a] = "accepted"
           /\ a \notin Entries(queue)
    BY <1>0, <2>1 DEF HistInv, ListedInv
  <2>3. CASE Prepare(ShutdownClose)
    <3>1. /\ \A a \in Ids : a # ShutdownClose => act'[a] = act[a]
          /\ job' = ShutdownClose
      BY <1>0, <2>3, PrepareType
    <3>2. \A a \in Entries(history') : Honest(a)'
      BY <1>1, <2>1, <2>2, <3>1, ListedFrame DEF HistInv
    <3>3. ListedInv'
      BY <1>1, <2>1, <2>2, <3>1, <3>2 DEF ListedInv
    <3> QED BY <1>0, <1>2, <2>1, <2>3, <3>3 DEF HistInv
  <2>4. CASE pc' = "stopped" /\ act' = act
    <3>1. \A a \in Entries(history') : Honest(a)'
      BY <1>1, <2>1, <2>4, ListedFrame DEF HistInv
    <3> QED BY <1>1, <2>1, <2>2, <2>4, <3>1 DEF HistInv, ListedInv, ProgressInv, Busy
  <2> QED BY <2>1, <2>3, <2>4
<1>5. CASE Record
  <2>1. /\ queue' = queue /\ act' = act /\ pc = "record" /\ history' = AddToHistory(job)
        /\ pc' = IF job = ShutdownClose THEN "stopped" ELSE "idle"
    BY <1>5 DEF Record, callVars
  <2>2. /\ job \in Ids /\ Honest(job) /\ phase = "main"
        /\ \/ job = ShutdownClose
           \/ job \in Requests /\ caller[job] = "accepted" /\ job \notin Entries(queue)
    BY <2>1 DEF HistInv, ProgressInv, SafeInv, JobInv, TypeInv, ControlOK, Busy, RunPCs, Entries
  <2>3. Entries(history') \subseteq Entries(history) \cup {job}
    BY <1>0, <2>1, <2>2, EntriesAddToHistory
  <2>4. \A a \in Entries(history') : Honest(a)
    BY <2>2, <2>3 DEF HistInv, ListedInv
  <2>5. \A a \in Entries(history') : Honest(a)'
    BY <1>1, <2>1, <2>4, HonestFrame
  <2>6. ListedInv'
    BY <1>1, <2>1, <2>2, <2>3, <2>5 DEF HistInv, ListedInv, Busy
  <2> QED BY <1>1, <2>1, <2>2, <2>6 DEF HistInv, ProgressInv, Busy
<1> QED BY <1>3, <1>4, <1>5

\* The steps inside execute touch no action but the one being executed.
LEMMA InnerOthers ==
    ASSUME TypeInv, Inner
    PROVE  /\ history' = history /\ UNCHANGED dropped
           /\ \A a \in Ids : a # job => act'[a] = act[a] /\ acked'[a] = acked[a]
<1>1. act \in [Ids -> Actions] /\ acked \in [Ids -> SUBSET Powers] /\ job \in Ids
  BY InnerFrame DEF TypeInv, TypeOK, StructType, EnvType
<1>2. history' = history /\ UNCHANGED dropped
  BY DEF Inner, Begin, Attempt, SendZbSend, Confirmed, Unconfirmed, GiveUp, Write,
         Fulfilled, Closing, HoldExpires, HoldCancelled, EndHold, Closed,
         MarkCloseUnconfirmed, ClearActionID, Done, callVars
<1>3. act' = act \/ \E s \in ActionStates : act' = SetState(job, s)
  BY DEF Inner, Begin, Attempt, SendZbSend, Confirmed, Unconfirmed, GiveUp, FailTo, Write,
         Fulfilled, Closing, HoldExpires, HoldCancelled, EndHold, Closed, SetMainState,
         MarkCloseUnconfirmed, ClearActionID, Done, ActionStates
<1>4. \A a \in Ids : a # job => act'[a] = act[a]
  BY <1>1, <1>3, SetStateType
<1>5. acked' = acked \/ acked' = [acked EXCEPT ![job] = @ \cup {Command}]
  BY DEF Inner, Begin, Attempt, SendZbSend, Confirmed, Unconfirmed, GiveUp, Write,
         Fulfilled, Closing, HoldExpires, HoldCancelled, EndHold, Closed,
         MarkCloseUnconfirmed, ClearActionID, Done
<1>6. \A a \in Ids : a # job => acked'[a] = acked[a]
  BY <1>1, <1>5
<1> QED BY <1>2, <1>4, <1>6

\* Every step of execute keeps outcome and confirmations in agreement.
LEMMA ProgressInner == TypeInv /\ ProgressInv /\ Inner => ProgressInv'
<1> SUFFICES ASSUME TypeInv, ProgressInv, Inner PROVE ProgressInv'
  OBVIOUS
<1>0. /\ job' = job /\ job \in Ids /\ pc \in Busy /\ pc' \in Busy
      /\ act'[job].type = act[job].type /\ act[job].type \in ActionTypes
      /\ act \in [Ids -> Actions] /\ acked \in [Ids -> SUBSET Powers]
      /\ phase \in {"main", "close"}
      /\ pc = "write" => pend.next \in {"fulfilled", "closed", "hold", "clear", "done"}
  BY InnerFrame DEF TypeInv, TypeOK, StructType, EnvType, RunType, ControlOK, Actions
<1>1. \A s \in ActionStates : act' = SetState(job, s) => act'[job].state = s
  BY <1>0, SetStateType
<1>2. Honest(job) /\ act' = act /\ acked' = acked => Honest(job)'
  BY <1>0, HonestFrame
<1>3. CASE Begin \/ Attempt \/ HoldExpires \/ HoldCancelled
  <2>1. /\ pc' \in {"attempt", "send"} /\ acked' = acked
        /\ phase' = phase \/ (phase' = "close" /\ pc = "hold")
    BY <1>3 DEF Begin, Attempt, HoldExpires, HoldCancelled, EndHold
  <2> QED BY <1>0, <2>1 DEF ProgressInv, At
<1>4. ASSUME NEW sent \in BOOLEAN, NEW ok \in BOOLEAN, SendZbSend(sent, ok)
      PROVE  ProgressInv'
  <2>1. pc' \in {"attempt", "send", "wait"} /\ acked' = acked /\ phase' = phase
    BY <1>4 DEF SendZbSend
  <2> QED BY <1>0, <2>1 DEF ProgressInv, At
<1>5. CASE Confirmed
  <2>1. /\ acked'[job] = acked[job] \cup {Command} /\ pc' = "write" /\ phase' = phase
        /\ pend'.next = IF phase = "main" THEN "fulfilled" ELSE "closed"
    BY <1>0, <1>5 DEF Confirmed
  <2>2. /\ phase = "close" => Command = "off"
        /\ phase = "main" => Command = IF act[job].type = "close" THEN "off" ELSE "on"
    BY <1>0 DEF Command
  <2> QED BY <1>0, <2>1, <2>2 DEF ProgressInv, At
<1>6. CASE Unconfirmed \/ GiveUp
  <2>1. /\ acked' = acked /\ phase' = phase
        /\ \/ pc' = "attempt"
           \/ \E s \in {"cancelled", "failed"} : FailTo(s)
    BY <1>6 DEF Unconfirmed, GiveUp
  <2>2. CASE pc' = "attempt"
    BY <1>0, <2>1, <2>2 DEF ProgressInv, At
  <2>3. ASSUME NEW s \in {"cancelled", "failed"}, FailTo(s)
        PROVE  ProgressInv'
    <3>1. /\ act'[job].state = s /\ (pc' = "mark" => s = "failed")
          /\ pc' \in {"mark", "done"}
      BY <1>1, <2>3 DEF FailTo, ActionStates
    <3>2. Honest(job)'
      BY <1>0, <3>1 DEF Honest, IsTerminal
    <3> QED BY <1>0, <2>1, <3>1, <3>2 DEF ProgressInv, At
  <2> QED BY <2>1, <2>2, <2>3
<1>7. ASSUME NEW done \in BOOLEAN, Write(done)
      PROVE  ProgressInv'
  <2>1. /\ pc = "write" /\ pc' = pend.next /\ act' = act /\ acked' = acked /\ phase' = phase
    BY <1>7 DEF Write
  <2>2. pc' \in {"fulfilled", "closed", "hold", "clear", "done"}
    BY <1>0, <2>1
  <2> QED BY <1>0, <1>2, <2>1, <2>2 DEF ProgressInv, At
<1>8. CASE Fulfilled
  <2>1. /\ pc = "fulfilled" /\ acked' = acked /\ phase' = phase
        /\ pc' = IF act[job].type = "open_timed" THEN "closing" ELSE "clear"
        /\ act'[job].state = "fulfilled"
    BY <1>1, <1>8 DEF Fulfilled, ActionStates
  <2>2. act[job].type # "open_timed" => Honest(job)'
    BY <1>0, <2>1 DEF ProgressInv, At, Honest, IsTerminal, NeededAcks, ActionTypes
  <2> QED BY <1>0, <2>1, <2>2 DEF ProgressInv, At, ActionTypes
<1>9. CASE Closing
  <2>1. pc = "closing" /\ pc' = "write" /\ pend'.next = "hold" /\ UNCHANGED <<acked, phase>>
    BY <1>9 DEF Closing, UpdateActionID
  <2> QED BY <1>0, <2>1 DEF ProgressInv, At
<1>10. CASE Closed
  <2>1. /\ pc = "closed" /\ pc' = "clear" /\ UNCHANGED <<acked, phase>>
        /\ act'[job].state = "fulfilled"
    BY <1>1, <1>10 DEF Closed, ActionStates
  <2>2. Honest(job)'
    BY <1>0, <2>1 DEF ProgressInv, At, Honest, IsTerminal, NeededAcks, ActionTypes
  <2> QED BY <1>0, <2>1, <2>2 DEF ProgressInv, At
<1>11. CASE MarkCloseUnconfirmed
  <2>1. /\ pc = "mark" /\ UNCHANGED <<act, acked, phase>>
        /\ \/ pc' \in {"done", "clear"}
           \/ pc' = "write" /\ pend'.next \in {"done", "clear"}
    BY <1>11 DEF MarkCloseUnconfirmed
  <2>2. Honest(job)'
    BY <1>0, <2>1 DEF ProgressInv, Honest, IsTerminal
  <2> QED BY <1>0, <2>1, <2>2 DEF ProgressInv, At
<1>12. CASE ClearActionID
  <2>1. /\ pc = "clear" /\ pc' = "write" /\ pend'.next = "done"
        /\ UNCHANGED <<act, acked, phase>>
    BY <1>12 DEF ClearActionID, UpdateActionID
  <2> QED BY <1>0, <1>2, <2>1 DEF ProgressInv, At
<1>13. CASE Done
  <2>1. pc = "done" /\ pc' = "record" /\ UNCHANGED <<act, acked>> /\ phase' = "main"
    BY <1>13 DEF Done
  <2> QED BY <1>0, <1>2, <2>1 DEF ProgressInv, At
<1> QED BY <1>3, <1>4, <1>5, <1>6, <1>7, <1>8, <1>9, <1>10, <1>11, <1>12, <1>13 DEF Inner

\* It does not touch what is listed.
LEMMA HistInner == TypeInv /\ HistInv /\ Inner => HistInv'
<1> SUFFICES ASSUME TypeInv, HistInv, Inner PROVE HistInv'
  OBVIOUS
<1>1. /\ UNCHANGED <<caller, queue, job, history>>
      /\ pc \in Busy /\ pc' \in Busy /\ Entries(history) \subseteq Ids
      /\ \A a \in Ids : a # job => act'[a] = act[a] /\ acked'[a] = acked[a]
  BY InnerFrame, InnerOthers, EntriesType DEF TypeInv, TypeOK, StructType
<1>2. \A a \in Entries(history) : a # job
  BY <1>1 DEF HistInv, ListedInv
<1>3. \A a \in Entries(history') : Honest(a)'
  BY <1>1, <1>2, ListedFrame DEF HistInv
<1>4. ListedInv'
  BY <1>1, <1>2, <1>3 DEF HistInv, ListedInv, Busy
<1> QED BY <1>4, ProgressInner DEF HistInv

\* Ping, device and timers touch neither outcome nor history.
LEMMA HistOthers == HistInv /\ (PingNext \/ EnvNext \/ UNCHANGED vars) => HistInv'
<1> SUFFICES ASSUME HistInv, PingNext \/ EnvNext \/ UNCHANGED vars PROVE HistInv'
  OBVIOUS
<1>1. UNCHANGED <<caller, queue, act, history, pc, job, phase, pend, acked>>
  BY DEF PingNext, PingTick, PingRegister, PingSend, PingWait, PingApply, PingRead,
         PingWrite, PingStop, EnvNext, Stop, CloseTimeout, UpdateConfig, WaitTimeout,
         DeliverReport, DeviceObey, Lose, Telemetry, vars, callVars
<1>2. \A a : Honest(a) => Honest(a)'
  BY <1>1, HonestFrame
<1> QED BY <1>1, <1>2 DEF HistInv, ProgressInv, ListedInv, At

\* The invariant is inductive.
LEMMA HistStep == TypeInv /\ SafeInv /\ HistInv /\ [Next]_vars => HistInv'
BY HistCaller, HistStart, HistInner, HistOthers DEF Next, RunNext, Inner

\* What the history lists is finished, and what it lists as fulfilled has had
\* every command confirmed by the device, the closing OFF of a timed open
\* included, whatever was cancelled, lost or timed out on the way (addToHistory
\* and the closing phase of execute).
THEOREM HistoryTellsTheTruth == Spec => []HistoryHonest
<1>1. Init => TypeInv /\ SafeInv /\ HistInv
  BY TypeInit, SafeInit, HistInit
<1>2. TypeInv /\ SafeInv /\ HistInv /\ [Next]_vars => (TypeInv /\ SafeInv /\ HistInv)'
  BY TypeStep, SafeStep, HistStep
<1>3. HistInv => HistoryHonest
  BY DEF HistInv, ListedInv, Honest, HistoryHonest
<1> QED BY <1>1, <1>2, <1>3, PTL DEF Spec

-----------------------------------------------------------------------------
(* CancelledForANewerClose.                                                *)

Newer(r) == r \in Requests /\ r # job /\ act[r].type = "close" /\ Unexecuted(r)
NewerClose == \E r : Newer(r)

\* The slot p.current holds the job from Begin to Done; a cancellation has a
\* close behind it that is still to be executed; the shutdown close only runs
\* once the context has ended.
SlotInv ==
    /\ current # None => pc \in Busy \ {"begin", "record"} /\ current = job
    /\ actDone => current # None /\ NewerClose
    /\ \A r \in dropped : caller[r] = "accepted"
    /\ pc \in Busy /\ job = ShutdownClose => ctxDone

\* An action that has begun and is cancelled is at its end, and for a reason.
ReasonInv ==
    pc \in Busy \ {"begin", "record"} /\ act[job].state = "cancelled"
        => pc = "done" /\ (ctxDone \/ NewerClose)

CancelInv == SlotInv /\ ReasonInv

\* At the start nothing is cancelled.
LEMMA CancelInit == Init => CancelInv
<1> SUFFICES ASSUME Init PROVE CancelInv
  OBVIOUS
<1>1. pc = "idle" /\ current = None /\ actDone = FALSE /\ dropped = {}
  BY DEF Init
<1> QED BY <1>1 DEF CancelInv, SlotInv, ReasonInv, Busy

\* A close that waits goes on waiting while callers come and go.
LEMMA NewerCaller ==
    ASSUME TypeInv, SafeInv, SlotInv, CallerNext, NEW x, Newer(x)
    PROVE  Newer(x)'
<1> PICK r \in Requests :
       \/ \E d \in Durations : Open(r, d)
       \/ Close(r) \/ SendToQueue(r) \/ FindFull(r) \/ DropOldest(r)
  BY DEF CallerNext
<1>0. /\ caller \in [Requests -> CallerStates] /\ queue \in Seq(Requests)
      /\ act \in [Ids -> Actions] /\ Requests \subseteq Ids /\ x \in Requests
      /\ x # job /\ act[x].type = "close" /\ Unexecuted(x) /\ job' = job
  BY DEF TypeInv, TypeOK, CallerType, StructType, Ids, Newer,
         Open, Close, SendToQueue, FindFull, DropOldest
<1>1. caller[x] # "new"
  <2>1. x \in Entries(queue) => caller[x] = "accepted"
    BY DEF SafeInv, QueueInv, Entries
  <2> QED BY <1>0, <2>1 DEF Unexecuted, SlotInv
<1>2. CASE (\E d \in Durations : Open(r, d)) \/ Close(r)
  <2>1. x # r /\ UNCHANGED <<queue, dropped>>
    BY <1>1, <1>2 DEF Open, Close
  <2>2. caller'[x] = caller[x] /\ act'[x] = act[x]
    BY <1>0, <1>2, <2>1 DEF Open, Close
  <2> QED BY <1>0, <2>1, <2>2 DEF Newer, Unexecuted
<1>3. CASE SendToQueue(r)
  <2>1. queue' = Append(queue, r) /\ UNCHANGED <<act, dropped>>
        /\ caller' = [caller EXCEPT ![r] = "accepted"]
    BY <1>3 DEF SendToQueue
  <2>2. Entries(queue') = Entries(queue) \cup {r}
    BY <1>0, <2>1, EntriesAppend
  <2> QED BY <1>0, <2>1, <2>2 DEF Newer, Unexecuted
<1>4. CASE FindFull(r)
  BY <1>0, <1>4 DEF FindFull, Newer, Unexecuted
<1>5. CASE DropOldest(r)
  <2>1. act' = act /\ caller' = [caller EXCEPT ![r] = "send"] /\ caller[r] = "full"
    BY <1>5 DEF DropOldest
  <2>2. Entries(queue) \cup dropped \subseteq Entries(queue') \cup dropped'
    <3>1. CASE queue = <<>>
      BY <1>5, <3>1 DEF DropOldest
    <3>2. CASE queue # <<>>
      <4>1. queue' = Tail(queue) /\ dropped' = dropped \cup {Head(queue)}
        BY <1>5, <3>2 DEF DropOldest
      <4> QED BY <1>0, <3>2, <4>1, EntriesTail DEF SafeInv
    <3> QED BY <3>1, <3>2
  <2> QED BY <1>0, <2>1, <2>2 DEF Newer, Unexecuted
<1> QED BY <1>2, <1>3, <1>4, <1>5

\* Only a close cancels, and it is newer than what it cancels.
LEMMA CancelCaller == TypeInv /\ SafeInv /\ CancelInv /\ CallerNext => CancelInv'
<1> SUFFICES ASSUME TypeInv, SafeInv, CancelInv, CallerNext PROVE CancelInv'
  OBVIOUS
<1> USE DEF CancelInv
<1>1. NewerClose => NewerClose'
  BY NewerCaller DEF NewerClose
<1> PICK r \in Requests :
       \/ \E d \in Durations : Open(r, d)
       \/ Close(r) \/ SendToQueue(r) \/ FindFull(r) \/ DropOldest(r)
  BY DEF CallerNext
<1>0. /\ caller \in [Requests -> CallerStates] /\ queue \in Seq(Requests)
      /\ act \in [Ids -> Actions] /\ Requests \subseteq Ids
      /\ r # ShutdownClose
  BY IdsAssumption DEF TypeInv, TypeOK, CallerType, StructType, Ids
<1>2. /\ caller[r] # "accepted"
      /\ \A x \in Requests : x # r => caller'[x] = caller[x]
      /\ UNCHANGED <<pc, job, current, ctxDone>>
      /\ \A a \in Ids : a # r => act'[a] = act[a]
  BY <1>0 DEF Open, Close, SendToQueue, FindFull, DropOldest, ctxVars
<1>3. pc \in Busy => job \in Ids /\ job # r
  BY <1>0, <1>2 DEF SafeInv, JobInv, TypeInv, ControlOK
<1>4. \A x \in dropped' : caller'[x] = "accepted"
  <2>1. CASE DropOldest(r) /\ queue # <<>>
    <3>1. dropped' = dropped \cup {Head(queue)} /\ caller' = [caller EXCEPT ![r] = "send"]
      BY <2>1 DEF DropOldest
    <3>2. Head(queue) \in Entries(queue) /\ Head(queue) \in Requests
      BY <1>0, <2>1, EntriesTail DEF SafeInv
    <3>3. caller[Head(queue)] = "accepted"
      BY <3>2 DEF SafeInv, QueueInv, Entries
    <3> QED BY <1>0, <1>2, <3>1, <3>2, <3>3 DEF SlotInv, TypeInv, TypeOK, CallerType
  <2>2. CASE dropped' = dropped
    BY <1>0, <1>2, <2>2 DEF SlotInv, TypeInv, TypeOK, CallerType
  <2> QED BY <2>1, <2>2 DEF Open, Close, SendToQueue, FindFull, DropOldest
<1>5. actDone' => current # None /\ NewerClose'
  <2>1. CASE Close(r) /\ current # None
    <3>1. Newer(r)'
      <4>1. caller'[r] = "enqueue" /\ act'[r].type = "close"
        BY <1>0, <2>1 DEF Close, NewAction
      <4>2. job' # r
        BY <1>2, <1>3, <2>1 DEF SlotInv
      <4> QED BY <4>1, <4>2 DEF Newer, Unexecuted
    <3> QED BY <2>1, <3>1 DEF NewerClose
  <2>2. CASE actDone' = actDone
    BY <1>1, <2>2 DEF SlotInv
  <2>3. Close(r) /\ current = None => actDone' = actDone
    BY DEF Close, CancelCurrent, TypeInv, TypeOK, RunType
  <2> QED BY <2>1, <2>2, <2>3 DEF Open, SendToQueue, FindFull, DropOldest, ctxVars
<1>6. SlotInv'
  BY <1>2, <1>4, <1>5 DEF SlotInv
<1>7. ReasonInv'
  BY <1>1, <1>2, <1>3 DEF ReasonInv
<1> QED BY <1>6, <1>7

\* A new context is not cancelled.
LEMMA CancelStart == TypeInv /\ SafeInv /\ CancelInv /\ (Dequeue \/ StopRun \/ Record)
                        => CancelInv'
<1> SUFFICES ASSUME TypeInv, SafeInv, CancelInv, Dequeue \/ StopRun \/ Record
             PROVE  CancelInv'
  OBVIOUS
<1>0. /\ queue \in Seq(Requests) /\ act \in [Ids -> Actions] /\ Requests \subseteq Ids
      /\ ShutdownClose \in Ids /\ ShutdownClose \notin Requests /\ cfg \in Configs
      /\ actDone \in BOOLEAN
  BY IdsAssumption DEF TypeInv, TypeOK, CallerType, StructType, RunType, Ids
<1>1. UNCHANGED <<caller, dropped, current, ctxDone, actDone>>
  BY DEF Dequeue, StopRun, Record, callVars, ctxVars
<1>2. current = None /\ ~actDone
  BY DEF Dequeue, StopRun, Record, CancelInv, SlotInv, Busy
<1>3. /\ pc' \in {"begin", "record", "idle", "stopped"}
      /\ pc' \in {"begin", "record"} /\ job' = ShutdownClose => ctxDone
  <2>1. CASE Dequeue
    <3>1. Head(queue) \in Requests
      BY <1>0, <2>1, EntriesTail DEF Dequeue, SafeInv
    <3> QED BY <1>0, <2>1, <3>1, PrepareType DEF Dequeue
  <2>2. CASE StopRun
    BY <1>0, <2>2, PrepareType DEF StopRun
  <2>3. CASE Record
    BY <2>3 DEF Record
  <2> QED BY <2>1, <2>2, <2>3
<1> QED BY <1>1, <1>2, <1>3 DEF CancelInv, SlotInv, ReasonInv, Busy

\* An action becomes cancelled only when its context is.
LEMMA CancelInner == TypeInv /\ CancelInv /\ Inner => CancelInv'
<1> SUFFICES ASSUME TypeInv, CancelInv, Inner PROVE CancelInv'
  OBVIOUS
<1>0. /\ UNCHANGED <<caller, queue, dropped, job>> /\ job \in Ids
      /\ pc \in Busy /\ pc' \in Busy /\ act \in [Ids -> Actions]
      /\ \A a \in Ids : act'[a].type = act[a].type
  BY InnerFrame, InnerOthers DEF TypeInv, TypeOK, StructType
<1>1. NewerClose => NewerClose'
  <2>1. \A r : Newer(r) => Newer(r)'
    BY <1>0 DEF Newer, Unexecuted, Ids
  <2> QED BY <2>1 DEF NewerClose
<1>2. ctxDone' = ctxDone
  BY DEF Inner, Begin, Attempt, SendZbSend, Confirmed, Unconfirmed, GiveUp, Write,
         Fulfilled, Closing, HoldExpires, HoldCancelled, EndHold, Closed,
         MarkCloseUnconfirmed, ClearActionID, Done, ctxVars
<1>3. \A s \in ActionStates : act' = SetState(job, s) => act'[job].state = s
  BY <1>0, SetStateType
<1>4. CASE Begin
  <2>1. /\ pc = "begin" /\ current' = job /\ pc' = "attempt" /\ actDone' = actDone
        /\ act'[job].state = "sending"
    BY <1>3, <1>4 DEF Begin, ctxVars, ActionStates
  <2> QED BY <1>0, <1>1, <1>2, <2>1, IdsAssumption
             DEF CancelInv, SlotInv, ReasonInv, Busy, RunPCs
<1>5. CASE Done
  <2>1. pc' = "record" /\ current' = None /\ actDone' = FALSE
    BY <1>5 DEF Done
  <2> QED BY <1>0, <1>2, <2>1 DEF CancelInv, SlotInv, ReasonInv
<1>6. CASE ~Begin /\ ~Done
  <2>1. /\ UNCHANGED <<current, actDone>>
        /\ pc \notin {"begin", "record"} /\ pc' \notin {"begin", "record"}
    <3>1. pc = "write" => pend.next \in {"fulfilled", "closed", "hold", "clear", "done"}
      BY DEF TypeInv, ControlOK
    <3> QED BY <1>6, <3>1
         DEF Inner, Attempt, SendZbSend, Confirmed, Unconfirmed, GiveUp, Write,
             Fulfilled, Closing, HoldExpires, HoldCancelled, EndHold, Closed, FailTo,
             MarkCloseUnconfirmed, ClearActionID, UpdateActionID, ctxVars
  <2>2. SlotInv'
    BY <1>0, <1>1, <1>2, <2>1 DEF CancelInv, SlotInv
  <2>3. CASE Unconfirmed
    <3>1. CASE CtxErr /\ phase = "main"
      <4>1. ctxDone \/ NewerClose
        <5>1. actDone \/ ctxDone \/ job = ShutdownClose
          BY <3>1, Zenon DEF CtxErr
        <5> QED BY <1>0, <5>1 DEF CancelInv, SlotInv
      <4>2. pc' = "done"
        BY <2>3, <3>1 DEF Unconfirmed, FailTo
      <4> QED BY <1>1, <1>2, <2>2, <4>1, <4>2 DEF CancelInv, ReasonInv
    <3>2. CASE CtxErr /\ phase # "main"
      <4>1. act'[job].state = "failed"
        BY <1>3, <2>3, <3>2 DEF Unconfirmed, FailTo, ActionStates
      <4> QED BY <1>0, <2>2, <4>1 DEF CancelInv, ReasonInv
    <3>3. CASE ~CtxErr
      <4>1. act' = act /\ pc = "wait"
        BY <2>3, <3>3 DEF Unconfirmed
      <4> QED BY <1>0, <2>1, <2>2, <4>1 DEF CancelInv, ReasonInv
    <3> QED BY <3>1, <3>2, <3>3
  <2>4. CASE ~Unconfirmed
    <3>1. /\ pc # "done"
          /\ \/ act' = act
             \/ \E s \in ActionStates \ {"cancelled"} : act' = SetState(job, s)
      BY <1>6, <2>4
         DEF Inner, Attempt, SendZbSend, Confirmed, GiveUp, Write, SetMainState,
             Fulfilled, Closing, HoldExpires, HoldCancelled, EndHold, Closed, FailTo,
             MarkCloseUnconfirmed, ClearActionID, ActionStates
    <3> QED BY <1>0, <1>3, <2>1, <2>2, <3>1 DEF CancelInv, ReasonInv
  <2> QED BY <2>3, <2>4
<1> QED BY <1>4, <1>5, <1>6

\* Ping, device and timers cancel nothing.
LEMMA CancelOthers == CancelInv /\ (PingNext \/ EnvNext \/ UNCHANGED vars) => CancelInv'
<1> SUFFICES ASSUME CancelInv, PingNext \/ EnvNext \/ UNCHANGED vars PROVE CancelInv'
  OBVIOUS
<1>1. /\ UNCHANGED <<caller, queue, dropped, act, current, pc, job, actDone>>
      /\ ctxDone => ctxDone'
  BY DEF PingNext, PingTick, PingRegister, PingSend, PingWait, PingApply, PingRead,
         PingWrite, PingStop, EnvNext, Stop, CloseTimeout, UpdateConfig, WaitTimeout,
         DeliverReport, DeviceObey, Lose, Telemetry, vars, callVars, ctxVars
<1>2. NewerClose => NewerClose'
  BY <1>1 DEF NewerClose, Newer, Unexecuted
<1> QED BY <1>1, <1>2 DEF CancelInv, SlotInv, ReasonInv

\* The invariant is inductive.
LEMMA CancelStep == TypeInv /\ SafeInv /\ CancelInv /\ [Next]_vars => CancelInv'
BY CancelCaller, CancelStart, CancelInner, CancelOthers DEF Next, RunNext, Inner

\* An action that ends as cancelled was cancelled by the end of the pipeline's
\* context or by a close that is still to be executed: a cancel aimed at one
\* action never reaches the next one (Enqueue, and the deferred function of
\* execute that clears p.cancelFn).
THEOREM CancelledByANewerClose == Spec => []CancelledForANewerClose
<1>1. Init => TypeInv /\ SafeInv /\ CancelInv
  BY TypeInit, SafeInit, CancelInit
<1>2. TypeInv /\ SafeInv /\ CancelInv /\ [Next]_vars => (TypeInv /\ SafeInv /\ CancelInv)'
  BY TypeStep, SafeStep, CancelStep
<1>3. CancelInv => CancelledForANewerClose
  BY DEF CancelInv, ReasonInv, NewerClose, Newer, CancelledForANewerClose, Busy, RunPCs
<1> QED BY <1>1, <1>2, <1>3, PTL DEF Spec

-----------------------------------------------------------------------------
(* The refinement of ActionService.                                        *)

\* An action is in one place only: the channel, the job or the discarded ones.
PlaceInv ==
    /\ pc \notin Busy => job = None
    /\ dropped \cap Entries(queue) = {}
    /\ pc \in Busy => job \notin dropped

\* At the start nothing is in any place.
LEMMA PlaceInit == Init => PlaceInv
<1> SUFFICES ASSUME Init PROVE PlaceInv
  OBVIOUS
<1>1. pc = "idle" /\ job = None /\ dropped = {}
  BY DEF Init
<1> QED BY <1>1 DEF PlaceInv, Busy

\* The invariant is inductive.
LEMMA PlaceStep == TypeInv /\ SafeInv /\ CancelInv /\ PlaceInv /\ [Next]_vars => PlaceInv'
<1> SUFFICES ASSUME TypeInv, SafeInv, CancelInv, PlaceInv, [Next]_vars PROVE PlaceInv'
  OBVIOUS
<1>0. /\ caller \in [Requests -> CallerStates] /\ queue \in Seq(Requests)
      /\ act \in [Ids -> Actions] /\ Requests \subseteq Ids /\ dropped \subseteq Requests
      /\ ShutdownClose \in Ids /\ ShutdownClose \notin Requests /\ cfg \in Configs
      /\ \A r \in dropped : caller[r] = "accepted"
  BY IdsAssumption DEF TypeInv, TypeOK, CallerType, StructType, Ids, CancelInv, SlotInv
<1>1. CASE CallerNext
  <2> PICK r \in Requests :
         \/ \E d \in Durations : Open(r, d)
         \/ Close(r) \/ SendToQueue(r) \/ FindFull(r) \/ DropOldest(r)
    BY <1>1 DEF CallerNext
  <2>1. UNCHANGED <<pc, job>>
    BY DEF Open, Close, SendToQueue, FindFull, DropOldest
  <2>2. CASE SendToQueue(r)
    <3>1. queue' = Append(queue, r) /\ dropped' = dropped /\ r \notin dropped
      BY <1>0, <2>2 DEF SendToQueue
    <3>2. Entries(queue') = Entries(queue) \cup {r}
      BY <1>0, <3>1, EntriesAppend
    <3> QED BY <2>1, <3>1, <3>2 DEF PlaceInv
  <2>3. CASE DropOldest(r) /\ queue # <<>>
    <3>1. queue' = Tail(queue) /\ dropped' = dropped \cup {Head(queue)}
      BY <2>3 DEF DropOldest
    <3>2. /\ Head(queue) \in Entries(queue)
          /\ Entries(queue') = Entries(queue) \ {Head(queue)}
      BY <1>0, <2>3, <3>1, EntriesTail DEF SafeInv
    <3>3. pc \in Busy => job # Head(queue)
      BY <1>0, <3>2, EntriesType, IdsAssumption DEF SafeInv, JobInv, Entries
    <3> QED BY <2>1, <3>1, <3>2, <3>3 DEF PlaceInv
  <2>4. CASE UNCHANGED <<queue, dropped>>
    BY <2>1, <2>4 DEF PlaceInv
  <2> QED BY <2>2, <2>3, <2>4 DEF Open, Close, FindFull, DropOldest
<1>2. CASE Dequeue
  <2>1. queue # <<>> /\ queue' = Tail(queue) /\ Prepare(Head(queue)) /\ dropped' = dropped
    BY <1>2 DEF Dequeue
  <2>2. /\ Head(queue) \in Entries(queue) /\ Head(queue) \in Requests
        /\ Entries(queue') = Entries(queue) \ {Head(queue)}
    BY <1>0, <2>1, EntriesTail DEF SafeInv
  <2>3. job' = Head(queue) /\ pc' \in {"begin", "record"}
    BY <1>0, <2>1, <2>2, PrepareType
  <2> QED BY <2>1, <2>2, <2>3 DEF PlaceInv, Busy, RunPCs
<1>3. CASE StopRun
  <2>1. UNCHANGED <<queue, dropped>> /\ pc = "idle"
    BY <1>3 DEF StopRun, callVars
  <2>2. \/ job' = ShutdownClose /\ pc' \in {"begin", "record"}
        \/ job' = job /\ pc' = "stopped"
    BY <1>0, <1>3, PrepareType DEF StopRun
  <2> QED BY <1>0, <2>1, <2>2 DEF PlaceInv, Busy, RunPCs
<1>4. CASE Record
  BY <1>4 DEF Record, PlaceInv, Busy, callVars
<1>5. CASE Inner
  <2>1. UNCHANGED <<queue, dropped, job>> /\ pc \in Busy /\ pc' \in Busy
    BY <1>5, InnerFrame, InnerOthers
  <2> QED BY <2>1 DEF PlaceInv
<1>6. CASE PingNext \/ EnvNext \/ UNCHANGED vars
  <2>1. UNCHANGED <<queue, dropped, pc, job>>
    BY <1>6 DEF PingNext, PingTick, PingRegister, PingSend, PingWait, PingApply, PingRead,
         PingWrite, PingStop, EnvNext, Stop, CloseTimeout, UpdateConfig, WaitTimeout,
         DeliverReport, DeviceObey, Lose, Telemetry, vars, callVars
  <2> QED BY <2>1 DEF PlaceInv
<1> QED BY <1>1, <1>2, <1>3, <1>4, <1>5, <1>6 DEF Next, RunNext, Inner

\* Where an action stands, from the places it can be in.
LEMMA StatusOf ==
    ASSUME NEW r
    PROVE  /\ caller[r] \in {"new", "rejected"} => Status(r) = caller[r]
           /\ caller[r] \in {"enqueue", "full", "send"} => Status(r) = "offered"
           /\ caller[r] = "accepted" =>
                /\ r \in Entries(queue) => Status(r) = "waiting"
                /\ r \notin Entries(queue) /\ r \in dropped => Status(r) = "dropped"
                /\ r \notin Entries(queue) /\ r \notin dropped =>
                      Status(r) = IF job = r THEN "running" ELSE "finished"
BY DEF Status

\* It depends on nothing else.
LEMMA StatusFrame ==
    ASSUME NEW r, caller'[r] = caller[r],
           r \in Entries(queue') <=> r \in Entries(queue),
           r \in dropped' <=> r \in dropped,
           job' = r <=> job = r
    PROVE  Status(r)' = Status(r)
BY DEF Status

\* The initial states map to the initial state of the service.
LEMMA ServiceStart == Init => Service!ServiceInit
<1> SUFFICES ASSUME Init PROVE Service!ServiceInit
  OBVIOUS
<1>1. caller = [r \in Requests |-> "new"] /\ queue = <<>>
  BY DEF Init
<1>2. \A r \in Requests : Status(r) = "new"
  BY <1>1, StatusOf
<1> QED BY <1>1, <1>2 DEF Service!ServiceInit, statusBar, resultBar

\* A step that moves one action, seen through the refinement mapping.
LEMMA StatusBarMoves ==
    ASSUME NEW r \in Requests, NEW s, Status(r)' = s,
           \A x \in Requests : x # r => Status(x)' = Status(x)
    PROVE  statusBar' = [statusBar EXCEPT ![r] = s]
BY DEF statusBar

\* Outcomes are kept when nothing finishes and finished actions are left alone.
LEMMA ResultBarKeeps ==
    ASSUME \A x \in Requests : /\ Status(x)' = "finished" <=> Status(x) = "finished"
                               /\ Status(x) = "finished" => act'[x] = act[x]
    PROVE  resultBar' = resultBar
BY DEF resultBar

\* A step that leaves the channel and the status and outcome of every request alone
\* is a stutter of the service.
LEMMA BarsKeep ==
    ASSUME \A x \in Requests : /\ Status(x)' = Status(x)
                               /\ Status(x) = "finished" => act'[x] = act[x],
           queue' = queue
    PROVE  UNCHANGED <<statusBar, queue, resultBar>>
<1>1. statusBar' = statusBar
  BY DEF statusBar
<1> QED BY <1>1, ResultBarKeeps

ServiceInv == TypeInv /\ SafeInv /\ HistInv /\ CancelInv /\ PlaceInv

ServiceSteps == Service!ServiceNext \/ UNCHANGED Service!svars

\* What every case below needs of the state it starts from.
LEMMA ServiceFacts ==
    ASSUME ServiceInv
    PROVE  /\ caller \in [Requests -> CallerStates] /\ queue \in Seq(Requests)
           /\ act \in [Ids -> Actions] /\ Requests \subseteq Ids
           /\ ShutdownClose \in Ids \ Requests /\ None \notin Ids
           /\ dropped \subseteq Requests
           /\ \A r \in dropped : caller[r] = "accepted"
           /\ \A r \in Entries(queue) : r \in Requests /\ caller[r] = "accepted"
           /\ job \in Requests => /\ caller[job] = "accepted"
                                  /\ job \notin Entries(queue) /\ job \notin dropped
           /\ pc \notin Busy => job = None
<1>1. /\ caller \in [Requests -> CallerStates] /\ queue \in Seq(Requests)
      /\ act \in [Ids -> Actions] /\ Requests \subseteq Ids
      /\ ShutdownClose \in Ids \ Requests /\ None \notin Ids
      /\ dropped \subseteq Requests
  BY IdsAssumption DEF ServiceInv, TypeInv, TypeOK, CallerType, StructType, Ids
<1>2. \A r \in dropped : caller[r] = "accepted"
  BY DEF ServiceInv, CancelInv, SlotInv
<1>3. pc \notin Busy => job = None
  BY DEF ServiceInv, PlaceInv
<1>4. ASSUME job \in Requests
      PROVE  caller[job] = "accepted" /\ job \notin Entries(queue) /\ job \notin dropped
  <2>1. pc \in Busy /\ job # ShutdownClose
    BY <1>1, <1>3, <1>4
  <2> QED BY <2>1 DEF ServiceInv, SafeInv, JobInv, PlaceInv, Entries
<1>5. \A r \in Entries(queue) : r \in Requests /\ caller[r] = "accepted"
  BY <1>1 DEF ServiceInv, SafeInv, QueueInv, Entries
<1> QED BY <1>1, <1>2, <1>3, <1>4, <1>5

\* A caller's step offers, accepts or discards, or is a stutter.
LEMMA ServiceCaller == ServiceInv /\ CallerNext => ServiceSteps
<1> SUFFICES ASSUME ServiceInv, CallerNext PROVE ServiceSteps
  OBVIOUS
<1> PICK r \in Requests :
       \/ \E d \in Durations : Open(r, d)
       \/ Close(r) \/ SendToQueue(r) \/ FindFull(r) \/ DropOldest(r)
  BY DEF CallerNext
<1>0. /\ job' = job /\ \A x \in Requests : x # r => caller'[x] = caller[x]
      /\ \A x \in Requests : caller[x] = "accepted" => act'[x] = act[x]
      /\ caller[r] # "accepted"
  BY ServiceFacts DEF Open, Close, SendToQueue, FindFull, DropOldest
<1>1. ASSUME NEW x \in Requests, Status(x) = "finished" PROVE act'[x] = act[x]
  BY <1>0, <1>1, ServiceFacts DEF Status, CallerStates
<1>2. r \notin Entries(queue) /\ r \notin dropped /\ job # r
  BY <1>0, ServiceFacts
<1>3. CASE (\E d \in Durations : Open(r, d)) \/ Close(r)
  <2>1. /\ UNCHANGED <<queue, dropped>> /\ caller[r] = "new"
        /\ caller'[r] \in {"rejected", "enqueue"}
    BY <1>3, ServiceFacts DEF Open, Close
  <2>2. \A x \in Requests : x # r => Status(x)' = Status(x)
    BY <1>0, <2>1, StatusFrame
  <2>3. Status(r) = "new" /\ Status(r)' \in {"rejected", "offered"}
    BY <2>1 DEF Status
  <2>4. statusBar' = [statusBar EXCEPT ![r] = Status(r)'] /\ statusBar[r] = "new"
    <3>1. statusBar[r] = "new"
      BY <2>3 DEF statusBar
    <3> QED BY <2>2, <3>1, StatusBarMoves
  <2>5. resultBar' = resultBar
    <3>1. \A x \in Requests : Status(x)' = "finished" <=> Status(x) = "finished"
      BY <2>2, <2>3
    <3> QED BY <1>1, <3>1, ResultBarKeeps
  <2>6. Service!Offer(r)
    BY <2>1, <2>3, <2>4, <2>5 DEF Service!Offer
  <2> QED BY <2>6 DEF ServiceSteps, Service!ServiceNext
<1>4. CASE SendToQueue(r)
  <2>1. /\ queue' = Append(queue, r) /\ dropped' = dropped /\ Len(queue) < QueueCap
        /\ caller[r] \in {"enqueue", "send"} /\ caller'[r] = "accepted"
    BY <1>4, ServiceFacts DEF SendToQueue
  <2>2. Entries(queue') = Entries(queue) \cup {r}
    BY <2>1, EntriesAppend, ServiceFacts
  <2>3. \A x \in Requests : x # r => Status(x)' = Status(x)
    BY <1>0, <2>1, <2>2, StatusFrame
  <2>4. Status(r) = "offered" /\ Status(r)' = "waiting"
    BY <2>1, <2>2 DEF Status
  <2>5. statusBar' = [statusBar EXCEPT ![r] = "waiting"] /\ statusBar[r] = "offered"
    <3>1. statusBar[r] = "offered"
      BY <2>4 DEF statusBar
    <3> QED BY <2>3, <2>4, <3>1, StatusBarMoves
  <2>6. resultBar' = resultBar
    <3>1. \A x \in Requests : Status(x)' = "finished" <=> Status(x) = "finished"
      BY <2>3, <2>4
    <3> QED BY <1>1, <3>1, ResultBarKeeps
  <2>7. Service!Accept(r)
    BY <2>1, <2>5, <2>6 DEF Service!Accept
  <2> QED BY <2>7 DEF ServiceSteps, Service!ServiceNext
<1>5. CASE FindFull(r) \/ (DropOldest(r) /\ queue = <<>>)
  <2>1. /\ UNCHANGED <<queue, dropped>> /\ caller[r] \in {"enqueue", "full"}
        /\ caller'[r] \in {"full", "send"}
    BY <1>5, ServiceFacts DEF FindFull, DropOldest
  <2>2. Status(r)' = Status(r)
    BY <2>1 DEF Status
  <2>3. \A x \in Requests : Status(x)' = Status(x)
    BY <1>0, <2>1, <2>2, StatusFrame
  <2>4. UNCHANGED <<statusBar, queue, resultBar>>
    BY <1>1, <2>1, <2>3, BarsKeep
  <2> QED BY <2>4 DEF ServiceSteps, Service!svars
<1>6. CASE DropOldest(r) /\ queue # <<>>
  <2> PICK h \in Requests : h = Head(queue)
    BY <1>6, EntriesTail, ServiceFacts DEF ServiceInv, SafeInv
  <2>1. /\ queue' = Tail(queue) /\ dropped' = dropped \cup {h}
        /\ caller[r] = "full" /\ caller'[r] = "send"
    BY <1>6, ServiceFacts DEF DropOldest
  <2>2. h \in Entries(queue) /\ h \in Requests /\ Entries(queue') = Entries(queue) \ {h}
    BY <1>6, <2>1, EntriesTail, ServiceFacts DEF ServiceInv, SafeInv
  <2>3. h # r /\ caller[h] = "accepted" /\ caller'[h] = "accepted"
    BY <1>0, <1>2, <2>2, ServiceFacts
  <2>4. \A x \in Requests : x # h => Status(x)' = Status(x)
    <3>1. Status(r)' = Status(r)
      BY <2>1 DEF Status
    <3>2. ASSUME NEW x \in Requests, x # h, x # r PROVE Status(x)' = Status(x)
      BY <1>0, <2>1, <2>2, <3>2, StatusFrame
    <3> QED BY <3>1, <3>2
  <2>5. Status(h) = "waiting" /\ Status(h)' = "dropped" /\ Status(r) = "offered"
    BY <2>1, <2>2, <2>3 DEF Status
  <2>6. statusBar' = [statusBar EXCEPT ![h] = "dropped"] /\ statusBar[r] = "offered"
    <3>1. statusBar[r] = "offered"
      BY <2>5 DEF statusBar
    <3> QED BY <2>2, <2>4, <2>5, <3>1, StatusBarMoves
  <2>7. resultBar' = resultBar
    <3>1. \A x \in Requests : Status(x)' = "finished" <=> Status(x) = "finished"
      BY <2>4, <2>5
    <3> QED BY <1>1, <3>1, ResultBarKeeps
  <2>8. Service!Discard
    BY <1>6, <2>1, <2>6, <2>7 DEF Service!Discard
  <2> QED BY <2>8 DEF ServiceSteps, Service!ServiceNext
<1> QED BY <1>3, <1>4, <1>5, <1>6

\* Dequeue starts the action at the head of the channel.
LEMMA ServiceStarts == ServiceInv /\ Dequeue => ServiceSteps
<1> SUFFICES ASSUME ServiceInv, Dequeue PROVE ServiceSteps
  OBVIOUS
<1> PICK h \in Requests : h = Head(queue)
  BY EntriesTail, ServiceFacts DEF Dequeue, ServiceInv, SafeInv
<1>1. /\ pc = "idle" /\ queue # <<>> /\ queue' = Tail(queue)
      /\ Prepare(h) /\ UNCHANGED <<caller, dropped>>
  BY DEF Dequeue
<1>2. h \in Entries(queue) /\ h \in Requests /\ Entries(queue') = Entries(queue) \ {h}
  BY <1>1, EntriesTail, ServiceFacts DEF ServiceInv, SafeInv
<1>3. caller[h] = "accepted" /\ h \notin dropped /\ job = None
  BY <1>1, <1>2, ServiceFacts DEF ServiceInv, PlaceInv, Busy
<1>4. job' = h /\ \A a \in Ids : a # h => act'[a] = act[a]
  <2>1. act \in [Ids -> Actions] /\ cfg \in Configs /\ h \in Ids
    BY <1>2, ServiceFacts DEF ServiceInv, TypeInv, TypeOK, StructType
  <2> QED BY <1>1, <2>1, PrepareType
<1>5. \A x \in Requests : x # h => Status(x)' = Status(x)
  BY <1>1, <1>2, <1>3, <1>4, ServiceFacts, StatusFrame
<1>6. Status(h) = "waiting" /\ Status(h)' = "running"
  BY <1>1, <1>2, <1>3, <1>4 DEF Status
<1>7. statusBar' = [statusBar EXCEPT ![h] = "running"]
  BY <1>2, <1>5, <1>6, StatusBarMoves
<1>8. \A x \in Requests : statusBar[x] # "running"
  BY <1>3, ServiceFacts DEF statusBar, Status
<1>9. resultBar' = resultBar
  <2>1. \A x \in Requests : /\ Status(x)' = "finished" <=> Status(x) = "finished"
                            /\ Status(x) = "finished" => act'[x] = act[x]
    BY <1>4, <1>5, <1>6, ServiceFacts
  <2> QED BY <2>1, ResultBarKeeps
<1>10. Service!Start
  BY <1>1, <1>7, <1>8, <1>9 DEF Service!Start
<1> QED BY <1>10 DEF ServiceSteps, Service!ServiceNext

\* Record finishes the action being executed.
LEMMA ServiceFinishes == ServiceInv /\ Record => ServiceSteps
<1> SUFFICES ASSUME ServiceInv, Record PROVE ServiceSteps
  OBVIOUS
<1>1. pc = "record" /\ job' = None /\ UNCHANGED <<caller, queue, dropped, act>>
  BY DEF Record, callVars
<1>2. act[job].state \in {"fulfilled", "failed", "cancelled"}
  BY <1>1 DEF ServiceInv, HistInv, ProgressInv, Honest, IsTerminal, Busy, RunPCs
<1>3. \A x \in Requests : x # job => Status(x)' = Status(x)
  BY <1>1, ServiceFacts, StatusFrame
<1>4. CASE job \in Requests
  <2>1. Status(job) = "running"
    BY <1>4, ServiceFacts DEF Status
  <2>2. ASSUME NEW j \in Requests, j = job PROVE Status(j)' = "finished"
    BY <1>1, <2>2, ServiceFacts DEF Status
  <2> PICK j \in Requests : j = job
    BY <1>4
  <2>3. /\ Status(j) = "running" /\ Status(j)' = "finished"
        /\ \A x \in Requests : x # j => Status(x)' = Status(x)
    BY <1>3, <2>1, <2>2
  <2>4. statusBar' = [statusBar EXCEPT ![j] = "finished"]
    BY <2>3, StatusBarMoves
  <2>5. resultBar' = [resultBar EXCEPT ![j] = act[j].state]
    BY <1>1, <2>3 DEF resultBar
  <2>6. statusBar[j] = "running"
    BY <2>3 DEF statusBar
  <2>7. Service!Finish(j)
    BY <1>1, <1>2, <2>4, <2>5, <2>6 DEF Service!Finish, Service!Outcomes
  <2> QED BY <2>7 DEF ServiceSteps, Service!ServiceNext
<1>5. CASE job \notin Requests
  <2>1. UNCHANGED <<statusBar, queue, resultBar>>
    BY <1>1, <1>3, <1>5, BarsKeep
  <2> QED BY <2>1 DEF ServiceSteps, Service!svars
<1> QED BY <1>4, <1>5

\* No other step is visible to a user of the service.
LEMMA ServiceStutters ==
    ServiceInv /\ (StopRun \/ Inner \/ PingNext \/ EnvNext \/ UNCHANGED vars)
        => ServiceSteps
<1> SUFFICES ASSUME ServiceInv,
                    StopRun \/ Inner \/ PingNext \/ EnvNext \/ UNCHANGED vars
             PROVE  ServiceSteps
  OBVIOUS
<1>1. /\ UNCHANGED <<caller, queue, dropped>>
      /\ \A x \in Requests : job' = x <=> job = x
      /\ \A x \in Requests : x # job => act'[x] = act[x]
  <2>1. CASE StopRun
    <3>1. /\ UNCHANGED <<caller, queue, dropped>> /\ job = None
          /\ Prepare(ShutdownClose) \/ UNCHANGED <<job, act>>
      BY <2>1, ServiceFacts DEF StopRun, callVars, Busy
    <3>2. ASSUME Prepare(ShutdownClose)
          PROVE  job' = ShutdownClose /\ \A a \in Ids : a # ShutdownClose => act'[a] = act[a]
      <4>1. act \in [Ids -> Actions] /\ cfg \in Configs /\ ShutdownClose \in Ids
        BY ServiceFacts DEF ServiceInv, TypeInv, TypeOK, StructType
      <4> QED BY <3>2, <4>1, PrepareType
    <3> QED BY <3>1, <3>2, ServiceFacts
  <2>2. CASE Inner
    BY <2>2, InnerFrame, InnerOthers, ServiceFacts DEF ServiceInv
  <2>3. CASE PingNext \/ EnvNext \/ UNCHANGED vars
    BY <2>3 DEF PingNext, PingTick, PingRegister, PingSend, PingWait, PingApply, PingRead,
         PingWrite, PingStop, EnvNext, Stop, CloseTimeout, UpdateConfig, WaitTimeout,
         DeliverReport, DeviceObey, Lose, Telemetry, vars, callVars
  <2> QED BY <2>1, <2>2, <2>3
<1>2. \A x \in Requests : Status(x)' = Status(x)
  BY <1>1, StatusFrame
<1>3. \A x \in Requests : Status(x) = "finished" => act'[x] = act[x]
  <2> SUFFICES ASSUME NEW x \in Requests, Status(x) = "finished" PROVE act'[x] = act[x]
    OBVIOUS
  <2>1. x # job
    BY ServiceFacts DEF Status
  <2> QED BY <1>1, <2>1
<1>4. UNCHANGED <<statusBar, queue, resultBar>>
  BY <1>1, <1>2, <1>3, BarsKeep
<1> QED BY <1>4 DEF ServiceSteps, Service!svars

\* The pipeline implements the service its callers rely on: one action at a
\* time, in the order of acceptance, each with one outcome that never changes,
\* and none discarded but while another one is being offered (Enqueue, run,
\* execute and the deferred recording).
THEOREM PipelineServesActions == Spec => ImplementsService
<1>1. Init => ServiceInv
  BY TypeInit, SafeInit, HistInit, CancelInit, PlaceInit DEF ServiceInv
<1>2. ServiceInv /\ [Next]_vars => ServiceInv'
  BY TypeStep, SafeStep, HistStep, CancelStep, PlaceStep DEF ServiceInv
<1>3. ServiceInv /\ [Next]_vars => [Service!ServiceNext]_(Service!svars)
  <2>1. ServiceInv /\ [Next]_vars => ServiceSteps
    BY ServiceCaller, ServiceStarts, ServiceFinishes, ServiceStutters
       DEF Next, RunNext, Inner
  <2> QED BY <2>1 DEF ServiceSteps
<1> QED BY <1>1, <1>2, <1>3, ServiceStart, PTL
     DEF Spec, ImplementsService, Service!ServiceSpec
=============================================================================
