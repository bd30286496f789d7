--------------------------- MODULE PipelineProofs ---------------------------
(***************************************************************************)
(* Theorems about Pipeline, for every set of requests, every capacity and   *)
(* every set of configurations.                                            *)
(***************************************************************************)
EXTENDS Pipeline, SequenceTheorems, TLAPS

-----------------------------------------------------------------------------
(* Type correctness.                                                       *)

\* What makes the types inductive: the goroutine is busy exactly with a job,
\* counters are positive where they are decremented, and a pending write
\* returns to a point inside execute.
Busy == RunPCs \ {"idle", "stopped"}

ControlOK ==
    /\ pc \in Busy => job \in Ids
    /\ pc = "send" => sendLeft > 0
    /\ pc = "write" => pend.next \in {"fulfilled", "closed", "hold", "clear", "done"}
    /\ ppc \in {"register", "send"} => pleft > 0

TypeInv == TypeOK /\ ControlOK

\* A command is published at least once per attempt (attemptWithRetry, `n < 1`).
LEMMA RepeatPositive ==
    ASSUME NEW c \in Configs
    PROVE  Repeat(c) \in Nat /\ Repeat(c) > 0
BY ConfigsAssumption DEF Repeat

\* newAction makes an action, whatever the configuration.
LEMMA NewActionType ==
    ASSUME NEW t \in ActionTypes, NEW d \in Nat
    PROVE  NewAction(t, d) \in Actions
BY DEF NewAction, Actions, ActionStates

\* SetState changes the state of one action and nothing else.
LEMMA SetStateType ==
    ASSUME act \in [Ids -> Actions], NEW id \in Ids, NEW s \in ActionStates
    PROVE  /\ SetState(id, s) \in [Ids -> Actions]
           /\ SetState(id, s)[id].state = s
           /\ \A a \in Ids : SetState(id, s)[a].type = act[a].type
           /\ \A a \in Ids : a # id => SetState(id, s)[a] = act[a]
<1>1. act[id] \in Actions
  OBVIOUS
<1>2. [act[id] EXCEPT !.state = s] \in Actions
  BY <1>1 DEF Actions
<1> QED BY <1>1, <1>2 DEF SetState, Actions

\* Prepare hands the goroutine one action; it changes no other.
LEMMA PrepareType ==
    ASSUME act \in [Ids -> Actions], cfg \in Configs, NEW id \in Ids, Prepare(id)
    PROVE  /\ act' \in [Ids -> Actions]
           /\ \A a \in Ids : a # id => act'[a] = act[a]
           /\ act'[id].type = "close" <=> act[id].type = "close"
           /\ cfg.maxOpen > 0 => act'[id].type # "open"
           /\ pc' \in {"begin", "record"}
           /\ act[id].type = "close" => pc' = "begin"
           /\ job' = id
           /\ budget' \in Nat \ {0}
<1>1. act[id] \in Actions /\ cfg.maxOpen \in Nat /\ cfg.retryCount \in Nat \ {0}
  BY ConfigsAssumption
<1>2. Upgraded(act[id]) \in Actions
  BY <1>1 DEF Upgraded, Actions, ActionTypes
<1>3. [Upgraded(act[id]) EXCEPT !.state = "cancelled"] \in Actions
  BY <1>2 DEF Actions, ActionStates
<1>4. act[id].type = "close" => Upgraded(act[id]) = act[id]
  BY DEF Upgraded
<1>5. act' \in [Ids -> Actions] /\ \A a \in Ids : a # id => act'[a] = act[a]
  BY <1>1, <1>2, <1>3 DEF Prepare
<1>6. act'[id].type = Upgraded(act[id]).type
  BY <1>1, <1>2 DEF Prepare, Actions
<1>7. /\ Upgraded(act[id]).type = "close" <=> act[id].type = "close"
      /\ cfg.maxOpen > 0 => Upgraded(act[id]).type # "open"
  BY <1>1 DEF Upgraded, Actions
<1> QED BY <1>1, <1>4, <1>5, <1>6, <1>7 DEF Prepare

\* The history keeps its type and its bound.
LEMMA AddToHistoryType ==
    ASSUME history \in Seq(Ids), NEW a \in Ids
    PROVE  AddToHistory(a) \in Seq(Ids) /\ Len(AddToHistory(a)) <= HistoryCap
<1> DEFINE h == <<a>> \o history
<1>1. h \in Seq(Ids) /\ Len(h) \in Nat
  BY ConcatProperties, LenProperties, CapsAssumption
<1>2. CASE Len(h) > HistoryCap
  <2>1. \A i \in 1 .. HistoryCap : h[i] \in Ids
    BY <1>1, <1>2, ElementOfSeq, CapsAssumption
  <2>2. SubSeq(h, 1, HistoryCap) \in Seq(Ids) /\ Len(SubSeq(h, 1, HistoryCap)) = HistoryCap
    BY <1>1, <1>2, <2>1, SubSeqProperties, CapsAssumption
  <2> QED BY <1>2, <2>2, CapsAssumption DEF AddToHistory
<1>3. CASE Len(h) <= HistoryCap
  BY <1>1, <1>3, CapsAssumption DEF AddToHistory
<1> QED BY <1>1, <1>2, <1>3, CapsAssumption

\* The initial states of a registered pipeline have the types.
LEMMA TypeInit == Init => TypeInv
<1> SUFFICES ASSUME Init PROVE TypeInv
  OBVIOUS
<1>1. act \in [Ids -> Actions]
  BY NewActionType DEF Init, ActionTypes
<1>0. \A S : <<>> \in Seq(S) /\ Len(<<>>) = 0
  BY EmptySeq
<1>2. CallerType
  <2>1. /\ caller = [r \in Requests |-> "new"]
        /\ queue = <<>> /\ dropped = {}
    BY DEF Init
  <2> QED BY <1>0, <2>1, CapsAssumption DEF CallerType, CallerStates
<1>3. StructType
  <2>1. /\ current = None /\ history = <<>> /\ recorded \in InitialStates
        /\ cfg \in Configs /\ cr = [state |-> recorded, id |-> None]
    BY DEF Init
  <2> QED BY <1>0, <1>1, <2>1, CapsAssumption, InitialAssumption DEF StructType
<1>4. RunType
  BY DEF Init, RunType, Writes, RecordedStates, RunPCs
<1>5. PingType
  BY DEF Init, PingType, PingPCs
<1>7. EnvType
  <2>1. /\ valve \in InitialValve /\ cmds = <<>> /\ reports = <<>>
        /\ acked = [a \in Ids |-> {}] /\ last = [power |-> "none", by |-> None]
    BY DEF Init
  <2> QED BY <1>0, <2>1, CapsAssumption, InitialAssumption DEF EnvType, Powers
<1>6. ControlOK
  BY DEF Init, ControlOK, Busy, RunPCs
<1> QED BY <1>2, <1>3, <1>4, <1>5, <1>6, <1>7 DEF TypeInv, TypeOK

\* A part of the type invariant survives a step that leaves its variables alone.
LEMMA Frames ==
    /\ CallerType /\ UNCHANGED callVars => CallerType'
    /\ StructType /\ UNCHANGED <<act, current, history, recorded, cfg, cr>> => StructType'
    /\ RunType /\ UNCHANGED <<ctxVars, pc, job, phase, tryVars, pend>> => RunType'
    /\ PingType /\ UNCHANGED <<pingVars, waiter>> => PingType'
    /\ EnvType /\ UNCHANGED <<envVars, acked, last>> => EnvType'
    /\ ControlOK /\ UNCHANGED <<pc, job, sendLeft, pend, ppc, pleft>> => ControlOK'
<1>1. CallerType /\ UNCHANGED callVars => CallerType'
  BY DEF CallerType, callVars
<1>2. StructType /\ UNCHANGED <<act, current, history, recorded, cfg, cr>> => StructType'
  BY DEF StructType
<1>3. RunType /\ UNCHANGED <<ctxVars, pc, job, phase, tryVars, pend>> => RunType'
  BY DEF RunType, ctxVars, tryVars
<1>4. PingType /\ UNCHANGED <<pingVars, waiter>> => PingType'
  BY DEF PingType, pingVars
<1>5. EnvType /\ UNCHANGED <<envVars, acked, last>> => EnvType'
  BY DEF EnvType, envVars
<1>6. ControlOK /\ UNCHANGED <<pc, job, sendLeft, pend, ppc, pleft>> => ControlOK'
  BY DEF ControlOK
<1> QED BY <1>1, <1>2, <1>3, <1>4, <1>5, <1>6

\* The callers of Open, Close and Enqueue keep them.
LEMMA TypeCaller == TypeInv /\ CallerNext => TypeInv'
<1> SUFFICES ASSUME TypeInv, CallerNext PROVE TypeInv'
  OBVIOUS
<1> USE DEF TypeInv, TypeOK
<1> PICK r \in Requests :
       \/ \E d \in Durations : Open(r, d)
       \/ Close(r) \/ SendToQueue(r) \/ FindFull(r) \/ DropOldest(r)
  BY DEF CallerNext
<1>0. PingType' /\ EnvType' /\ ControlOK'
  BY Frames DEF Open, Close, SendToQueue, FindFull, DropOldest, ctxVars, tryVars,
                pingVars, envVars
<1>1. ASSUME NEW d \in Durations, Open(r, d)
      PROVE  TypeInv'
  <2>1. NewAction(IF d > 0 THEN "open_timed" ELSE "open", d) \in Actions
    BY NewActionType, DurationsAssumption DEF ActionTypes
  <2>2. act' \in [Ids -> Actions]
    BY <1>1, <2>1 DEF Open, Ids, StructType
  <2>3. StructType'
    BY <1>1, <2>2 DEF Open, StructType
  <2>4. CallerType'
    BY <1>1 DEF Open, CallerType, CallerStates
  <2>5. RunType'
    BY <1>1, Frames DEF Open
  <2> QED BY <1>0, <2>3, <2>4, <2>5
<1>2. CASE Close(r)
  <2>1. NewAction("close", 0) \in Actions
    BY NewActionType DEF ActionTypes
  <2>2. act' \in [Ids -> Actions]
    BY <1>2, <2>1 DEF Close, Ids, StructType
  <2>3. StructType'
    BY <1>2, <2>2 DEF Close, StructType
  <2>4. CallerType'
    BY <1>2 DEF Close, CallerType, CallerStates
  <2>5. actDone' \in BOOLEAN
    BY <1>2 DEF Close, CancelCurrent
  <2>6. RunType'
    BY <1>2, <2>5 DEF Close, RunType, tryVars
  <2> QED BY <1>0, <2>3, <2>4, <2>6
<1>3. CASE SendToQueue(r) \/ FindFull(r) \/ DropOldest(r)
  <2>1. StructType' /\ RunType'
    BY <1>3, Frames DEF SendToQueue, FindFull, DropOldest
  <2>2. caller' \in [Requests -> CallerStates]
    BY <1>3 DEF SendToQueue, FindFull, DropOldest, CallerType, CallerStates
  <2>3. /\ queue' \in Seq(Requests) /\ Len(queue') <= QueueCap
        /\ dropped' \subseteq Requests
    <3>1. Len(queue) \in Nat /\ QueueCap \in Nat /\ queue \in Seq(Requests)
          /\ Len(queue) <= QueueCap /\ dropped \subseteq Requests
      BY CapsAssumption, LenProperties DEF CallerType
    <3>2. CASE SendToQueue(r)
      BY <3>1, <3>2, AppendProperties DEF SendToQueue
    <3>3. CASE FindFull(r)
      BY <3>1, <3>3 DEF FindFull
    <3>4. CASE DropOldest(r) /\ queue = <<>>
      BY <3>1, <3>4 DEF DropOldest
    <3>5. CASE DropOldest(r) /\ queue # <<>>
      <4>1. /\ Head(queue) \in Requests /\ Tail(queue) \in Seq(Requests)
            /\ Len(Tail(queue)) = Len(queue) - 1
        BY <3>1, <3>5, HeadTailProperties
      <4> QED BY <3>1, <3>5, <4>1 DEF DropOldest
    <3> QED BY <1>3, <3>2, <3>3, <3>4, <3>5
  <2> QED BY <1>0, <2>1, <2>2, <2>3 DEF CallerType
<1> QED BY <1>1, <1>2, <1>3

\* So does the run goroutine.
LEMMA TypeRun == TypeInv /\ RunNext => TypeInv'
<1> SUFFICES ASSUME TypeInv, RunNext PROVE TypeInv'
  OBVIOUS
<1> USE DEF TypeInv, TypeOK, CallerType, StructType, RunType, PingType, EnvType,
            ControlOK, RunPCs, Busy, callVars, ctxVars, tryVars, pingVars, envVars
<1>0. /\ "idle" # pc /\ "stopped" # pc => job \in Ids
      /\ \A s \in ActionStates : job \in Ids => SetState(job, s) \in [Ids -> Actions]
  BY SetStateType
<1>1. CASE Dequeue
  <2>1. /\ Head(queue) \in Requests /\ Tail(queue) \in Seq(Requests)
        /\ Len(Tail(queue)) = Len(queue) - 1 /\ Len(queue) \in Nat
    BY <1>1, HeadTailProperties, LenProperties DEF Dequeue
  <2>2. Prepare(Head(queue)) /\ Head(queue) \in Ids
    BY <1>1, <2>1 DEF Dequeue, Ids
  <2>3. /\ act' \in [Ids -> Actions] /\ pc' \in {"begin", "record"}
        /\ job' \in Ids /\ budget' \in Nat
    BY <2>2, PrepareType
  <2>4. CallerType'
    BY <1>1, <2>1, CapsAssumption DEF Dequeue
  <2>5. StructType' /\ PingType' /\ EnvType'
    BY <1>1, <2>3, Frames DEF Dequeue
  <2>6. RunType' /\ ControlOK'
    BY <1>1, <2>3 DEF Dequeue
  <2> QED BY <2>4, <2>5, <2>6
<1>2. CASE StopRun
  <2>1. ShutdownClose \in Ids
    BY DEF Ids
  <2>2. /\ act' \in [Ids -> Actions] /\ pc' \in {"begin", "record", "stopped"}
        /\ job' \in Ids \cup {None} /\ budget' \in Nat
        /\ pc' # "stopped" => job' \in Ids
    BY <1>2, <2>1, PrepareType DEF StopRun
  <2> QED BY <1>2, <2>2 DEF StopRun
<1>3. CASE Begin
  <2>1. act' \in [Ids -> Actions]
    BY <1>0, <1>3 DEF Begin, ActionStates
  <2> QED BY <1>3, <2>1 DEF Begin
<1>4. CASE Attempt
  <2>1. act' \in [Ids -> Actions]
    BY <1>0, <1>4 DEF Attempt, SetMainState, ActionStates
  <2>2. sendLeft' \in Nat /\ sendLeft' > 0
    BY <1>4, RepeatPositive DEF Attempt
  <2>3. waiter' \in [{"run", "ping"} -> {"off", "none", "ok", "err"}]
    BY <1>4 DEF Attempt
  <2>4. CallerType' /\ StructType' /\ EnvType'
    BY <1>4, <2>1 DEF Attempt
  <2>5. RunType' /\ ControlOK'
    <3>1. attempt \in Nat /\ attempt' = attempt + 1
      BY <1>4 DEF Attempt
    <3>2. published' \in BOOLEAN /\ pc' = "send" /\ job \in Ids
      BY <1>4 DEF Attempt
    <3> QED BY <1>4, <2>2, <3>1, <3>2 DEF Attempt
  <2>6. PingType'
    BY <1>4, <2>3 DEF Attempt
  <2> QED BY <2>4, <2>5, <2>6
<1>5. ASSUME NEW sent \in BOOLEAN, NEW ok \in BOOLEAN, SendZbSend(sent, ok)
      PROVE  TypeInv'
  <2>1. cmds' \in Seq(Powers) /\ Len(cmds') <= NetCap
    <3>1. Command \in Powers
      BY DEF Command, Powers
    <3>2. cmds \in Seq(Powers) /\ Len(cmds) \in Nat /\ Len(cmds) <= NetCap /\ NetCap \in Nat
      BY LenProperties, CapsAssumption
    <3>3. Publish(Command, sent)
      BY <1>5 DEF SendZbSend
    <3>4. CASE sent
      <4>1. Len(cmds) < NetCap /\ cmds' = Append(cmds, Command)
        BY <3>3, <3>4 DEF Publish
      <4> QED BY ONLY <3>1, <3>2, <4>1, AppendProperties
    <3>5. CASE ~sent
      BY <3>2, <3>3, <3>5 DEF Publish
    <3> QED BY <3>4, <3>5
  <2>2. last' \in [power : Powers \cup {"none"}, by : Ids \cup {None}]
    BY <1>5 DEF SendZbSend, Command, Powers
  <2>3. sendLeft' \in Nat /\ (pc' = "send" => sendLeft' > 0)
    BY <1>5 DEF SendZbSend
  <2>4. /\ pc' \in {"send", "wait", "attempt"} /\ job' \in Ids
        /\ waiter' \in [{"run", "ping"} -> {"off", "none", "ok", "err"}]
        /\ published' \in BOOLEAN
    BY <1>5 DEF SendZbSend
  <2> QED BY <1>5, <2>1, <2>2, <2>3, <2>4 DEF SendZbSend, Publish
<1>6. CASE Confirmed
  <2>1. pend' \in Writes /\ pend'.next \in {"fulfilled", "closed"}
    BY <1>6 DEF Confirmed, Writes, RecordedStates
  <2>2. acked' \in [Ids -> SUBSET Powers]
    BY <1>6 DEF Confirmed, Command, Powers
  <2>3. waiter' \in [{"run", "ping"} -> {"off", "none", "ok", "err"}]
    BY <1>6 DEF Confirmed
  <2>4. CallerType' /\ StructType'
    BY <1>6 DEF Confirmed, RecordedStates
  <2>5. RunType' /\ ControlOK'
    BY <1>6, <2>1 DEF Confirmed
  <2>6. PingType' /\ EnvType'
    BY <1>6, <2>2, <2>3 DEF Confirmed
  <2> QED BY <2>4, <2>5, <2>6
<1>7. CASE Unconfirmed
  <2>1. /\ act' \in [Ids -> Actions] /\ pc' \in {"mark", "done", "attempt"}
    BY <1>0, <1>7 DEF Unconfirmed, FailTo, ActionStates
  <2> QED BY <1>7, <2>1 DEF Unconfirmed
<1>8. CASE GiveUp
  <2>1. act' \in [Ids -> Actions] /\ pc' \in {"mark", "done"}
    BY <1>0, <1>8 DEF GiveUp, FailTo, ActionStates
  <2> QED BY <1>8, <2>1 DEF GiveUp
<1>9. ASSUME NEW done \in BOOLEAN, Write(done)
      PROVE  TypeInv'
  <2>1. cr' \in [state : RecordedStates, id : Ids \cup {None}]
    BY <1>9 DEF Write, Writes
  <2> QED BY <1>9, <2>1 DEF Write
<1>10. CASE Fulfilled
  <2>1. act' \in [Ids -> Actions]
    BY <1>0, <1>10 DEF Fulfilled, ActionStates
  <2> QED BY <1>10, <2>1 DEF Fulfilled
<1>11. CASE Closing
  <2>1. act' \in [Ids -> Actions]
    BY <1>0, <1>11 DEF Closing, ActionStates
  <2>2. pend' \in Writes /\ pend'.next = "hold"
    BY <1>11 DEF Closing, UpdateActionID, Writes
  <2> QED BY <1>11, <2>1, <2>2 DEF Closing, UpdateActionID
<1>12. CASE HoldExpires \/ HoldCancelled
  BY <1>12 DEF HoldExpires, HoldCancelled, EndHold
<1>13. CASE Closed
  <2>1. act' \in [Ids -> Actions]
    BY <1>0, <1>13 DEF Closed, ActionStates
  <2> QED BY <1>13, <2>1 DEF Closed
<1>14. CASE MarkCloseUnconfirmed
  <2>1. /\ pend' \in Writes /\ pc' \in {"write", "done", "clear"}
        /\ pc' = "write" => pend'.next \in {"done", "clear"}
    <3>1. CASE recorded = "closed"
      <4> DEFINE next == IF phase = "main" THEN "done" ELSE "clear"
      <4>1. pend' = [state |-> "unknown", id |-> None, next |-> next] /\ pc' = "write"
        BY <1>14, <3>1 DEF MarkCloseUnconfirmed
      <4>2. "unknown" \in RecordedStates /\ next \in RunPCs /\ next \in {"done", "clear"}
        BY DEF RecordedStates
      <4> HIDE DEF next
      <4> QED BY <4>1, <4>2 DEF Writes
    <3>2. CASE recorded # "closed"
      BY <1>14, <3>2 DEF MarkCloseUnconfirmed
    <3> QED BY <3>1, <3>2
  <2>2. recorded' \in RecordedStates
    BY <1>14 DEF MarkCloseUnconfirmed, RecordedStates
  <2>3. CallerType' /\ StructType' /\ PingType' /\ EnvType'
    BY <1>14, <2>2, Frames DEF MarkCloseUnconfirmed
  <2>4. RunType' /\ ControlOK'
    BY <1>14, <2>1 DEF MarkCloseUnconfirmed
  <2> QED BY <2>3, <2>4
<1>15. CASE ClearActionID
  <2>1. pend' \in Writes /\ pend'.next = "done"
    BY <1>15 DEF ClearActionID, UpdateActionID, Writes
  <2> QED BY <1>15, <2>1 DEF ClearActionID, UpdateActionID
<1>16. CASE Done
  <2>1. pend' \in Writes
    BY <1>16 DEF Done, Writes, RecordedStates
  <2> QED BY <1>16, <2>1 DEF Done
<1>17. CASE Record
  <2>1. history' \in Seq(Ids) /\ Len(history') <= HistoryCap
    BY <1>17, AddToHistoryType DEF Record
  <2> QED BY <1>17, <2>1 DEF Record
<1> QED BY <1>1, <1>2, <1>3, <1>4, <1>5, <1>6, <1>7, <1>8, <1>9, <1>10, <1>11,
           <1>12, <1>13, <1>14, <1>15, <1>16, <1>17 DEF RunNext

\* So does the keep-closed goroutine.
LEMMA TypePing == TypeInv /\ PingNext => TypeInv'
<1> SUFFICES ASSUME TypeInv, PingNext PROVE TypeInv'
  OBVIOUS
<1> USE DEF TypeInv, TypeOK
<1>1. CallerType' /\ RunType'
  BY Frames DEF PingNext, PingTick, PingRegister, PingSend, PingWait, PingApply, PingRead,
                PingWrite, PingStop
<1>2. StructType'
  <2>1. CASE PingApply
    BY <2>1 DEF PingApply, StructType, RecordedStates
  <2>2. ASSUME NEW done \in BOOLEAN, PingWrite(done)
        PROVE  StructType'
    <3>1. cr' \in [state : RecordedStates, id : Ids \cup {None}]
      BY <2>2 DEF PingWrite, StructType, PingType, RecordedStates
    <3> QED BY <2>2, <3>1 DEF PingWrite, StructType
  <2> QED BY <2>1, <2>2, Frames DEF PingNext, PingTick, PingRegister, PingSend, PingWait,
                                    PingRead, PingStop
<1>3. EnvType'
  <2>1. ASSUME NEW sent \in BOOLEAN, PingSend(sent)
        PROVE  EnvType'
    <3>1. cmds' \in Seq(Powers) /\ Len(cmds') <= NetCap
      BY <2>1, AppendProperties, LenProperties, CapsAssumption
         DEF PingSend, Publish, EnvType, Powers
    <3> QED BY <2>1, <3>1 DEF PingSend, Publish, EnvType
  <2> QED BY <2>1, Frames DEF PingNext, PingTick, PingRegister, PingWait, PingApply,
                              PingRead, PingWrite, PingStop
<1>4. waiter' \in [{"run", "ping"} -> {"off", "none", "ok", "err"}]
  BY DEF PingNext, PingTick, PingRegister, PingSend, PingWait, PingApply, PingRead,
         PingWrite, PingStop, PingType
<1>5. ppc' \in PingPCs /\ pid' \in Ids \cup {None}
  BY DEF PingNext, PingTick, PingRegister, PingSend, PingWait, PingApply, PingRead,
         PingWrite, PingStop, PingType, PingPCs, StructType
<1>6. pleft' \in Nat /\ (ppc' \in {"register", "send"} => pleft' > 0)
  <2>1. cfg \in Configs /\ pleft \in Nat /\ (ppc \in {"register", "send"} => pleft > 0)
    BY DEF StructType, PingType, ControlOK
  <2> QED BY <2>1, RepeatPositive
             DEF PingNext, PingTick, PingRegister, PingSend, PingWait, PingApply,
                 PingRead, PingWrite, PingStop
<1>7. ControlOK'
  <2>1. UNCHANGED <<pc, job, sendLeft, pend>>
    BY DEF PingNext, PingTick, PingRegister, PingSend, PingWait, PingApply, PingRead,
           PingWrite, PingStop, tryVars
  <2> QED BY <1>6, <2>1 DEF ControlOK
<1> QED BY <1>1, <1>2, <1>3, <1>4, <1>5, <1>6, <1>7 DEF PingType

\* So do device, network, timers and reconciler.
LEMMA TypeEnv == TypeInv /\ EnvNext => TypeInv'
<1> SUFFICES ASSUME TypeInv, EnvNext PROVE TypeInv'
  OBVIOUS
<1> USE DEF TypeInv, TypeOK
<1>1. CallerType'
  BY Frames DEF EnvNext, Stop, CloseTimeout, UpdateConfig, WaitTimeout, DeliverReport,
                DeviceObey, Lose, Telemetry
<1>2. StructType'
  <2>1. ASSUME NEW c \in Configs, UpdateConfig(c)
        PROVE  StructType'
    BY <2>1 DEF UpdateConfig, StructType
  <2> QED BY <2>1, Frames DEF EnvNext, Stop, CloseTimeout, WaitTimeout, DeliverReport,
                              DeviceObey, Lose, Telemetry
<1>3. RunType'
  <2>1. CASE Stop \/ CloseTimeout
    <3>1. ctxDone' \in BOOLEAN /\ actDone' \in BOOLEAN /\ closeDone' \in BOOLEAN
      BY <2>1 DEF Stop, CloseTimeout, RunType
    <3> QED BY <2>1, <3>1 DEF Stop, CloseTimeout, RunType, tryVars
  <2> QED BY <2>1, Frames DEF EnvNext, UpdateConfig, WaitTimeout, DeliverReport,
                              DeviceObey, Lose, Telemetry
<1>4. ControlOK'
  BY Frames DEF EnvNext, Stop, CloseTimeout, UpdateConfig, WaitTimeout, DeliverReport,
                DeviceObey, Lose, Telemetry, tryVars, pingVars
<1>5. PingType'
  <2>1. waiter' \in [{"run", "ping"} -> {"off", "none", "ok", "err"}]
    BY DEF EnvNext, Stop, CloseTimeout, UpdateConfig, WaitTimeout, DeliverReport,
           DeviceObey, Lose, Telemetry, PingType
  <2>2. UNCHANGED pingVars
    BY DEF EnvNext, Stop, CloseTimeout, UpdateConfig, WaitTimeout, DeliverReport,
           DeviceObey, Lose, Telemetry
  <2> QED BY <2>1, <2>2 DEF PingType, pingVars
<1>6. EnvType'
  <2>0. /\ cmds \in Seq(Powers) /\ Len(cmds) <= NetCap /\ Len(cmds) \in Nat
        /\ reports \in Seq(Powers) /\ Len(reports) <= NetCap /\ Len(reports) \in Nat
        /\ NetCap \in Nat
    BY CapsAssumption, LenProperties DEF EnvType
  <2>1. /\ cmds # <<>> => /\ Head(cmds) \in Powers /\ Tail(cmds) \in Seq(Powers)
                          /\ Len(Tail(cmds)) = Len(cmds) - 1
        /\ reports # <<>> => /\ Tail(reports) \in Seq(Powers)
                             /\ Len(Tail(reports)) = Len(reports) - 1
    BY <2>0, HeadTailProperties
  <2>2. CASE DeliverReport \/ Lose
    <3>1. /\ cmds' = cmds \/ (cmds # <<>> /\ cmds' = Tail(cmds))
          /\ reports' = reports \/ (reports # <<>> /\ reports' = Tail(reports))
      BY <2>2 DEF DeliverReport, Lose
    <3>2. /\ cmds' \in Seq(Powers) /\ Len(cmds') <= NetCap
          /\ reports' \in Seq(Powers) /\ Len(reports') <= NetCap
      <4>1. cmds' \in Seq(Powers) /\ Len(cmds') <= NetCap
        <5>1. CASE cmds' = cmds
          BY <2>0, <5>1
        <5>2. CASE cmds # <<>> /\ cmds' = Tail(cmds)
          BY <2>0, <2>1, <5>2
        <5> QED BY <3>1, <5>1, <5>2
      <4>2. reports' \in Seq(Powers) /\ Len(reports') <= NetCap
        <5>1. CASE reports' = reports
          BY <2>0, <5>1
        <5>2. CASE reports # <<>> /\ reports' = Tail(reports)
          BY <2>0, <2>1, <5>2
        <5> QED BY <3>1, <5>1, <5>2
      <4> QED BY <4>1, <4>2
    <3> QED BY <2>2, <3>2 DEF DeliverReport, Lose, EnvType
  <2>3. CASE DeviceObey
    <3>1. cmds' \in Seq(Powers) /\ Len(cmds') <= NetCap
      BY <2>0, <2>1, <2>3 DEF DeviceObey
    <3>2. reports' \in Seq(Powers) /\ Len(reports') <= NetCap
      BY <2>0, <2>1, <2>3, AppendProperties DEF DeviceObey, WithReport
    <3> QED BY <2>3, <3>1, <3>2 DEF DeviceObey, EnvType
  <2>4. CASE Telemetry
    <3>1. reports' \in Seq(Powers) /\ Len(reports') <= NetCap
      BY <2>0, <2>4, AppendProperties DEF Telemetry, PowerOf, Powers
    <3> QED BY <2>4, <3>1 DEF Telemetry, EnvType
  <2> QED BY <2>2, <2>3, <2>4, Frames DEF EnvNext, Stop, CloseTimeout, UpdateConfig,
                                          WaitTimeout
<1> QED BY <1>1, <1>2, <1>3, <1>4, <1>5, <1>6

\* So does a step of anything else.
LEMMA TypeStutter == TypeInv /\ UNCHANGED vars => TypeInv'
BY DEF TypeInv, TypeOK, CallerType, StructType, RunType, PingType, EnvType,
       ControlOK, vars, callVars, ctxVars, tryVars, pingVars, envVars

\* The invariant is inductive.
LEMMA TypeStep == TypeInv /\ [Next]_vars => TypeInv'
BY TypeCaller, TypeRun, TypePing, TypeEnv, TypeStutter DEF Next

\* The types hold in every reachable state: whatever callers race in Enqueue the
\* channel stays within its capacity, the history is truncated, counters stay
\* natural numbers.
THEOREM TypeCorrect == Spec => []TypeOK
<1>1. Init => TypeInv
  BY TypeInit
<1>2. TypeInv /\ [Next]_vars => TypeInv'
  BY TypeStep
<1>3. TypeInv => TypeOK
  BY DEF TypeInv
<1> QED BY <1>1, <1>2, <1>3, PTL DEF Spec

-----------------------------------------------------------------------------
(* The valve is closed again: RestsClosed, LimitedRestsClosed, StopCloses.  *)

\* The channel holds accepted calls, each once.
QueueInv ==
    /\ \A i \in 1 .. Len(queue) : caller[queue[i]] = "accepted"
    /\ \A i, j \in 1 .. Len(queue) : queue[i] = queue[j] => i = j

\* An action that is executed has left the channel for good, and has attempts.
JobInv ==
    pc \in Busy =>
        /\ budget > 0
        /\ \/ job = ShutdownClose
           \/ /\ job \in Requests /\ caller[job] = "accepted"
              /\ \A i \in 1 .. Len(queue) : queue[i] # job

\* The close of run stays a close.
ShutInv == act[ShutdownClose].type = "close"

\* An ON is confirmed only for an action that wants one and has started; the
\* first phase ends with that confirmation.
AckInv ==
    /\ \A r \in Requests : caller[r] # "accepted" => "on" \notin acked[r]
    /\ \A i \in 1 .. Len(queue) : "on" \notin acked[queue[i]]
    /\ \A a \in Ids : act[a].type = "close" => "on" \notin acked[a]
    /\ (pc \in {"begin", "attempt", "send", "wait"} /\ phase = "main")
          => "on" \notin acked[job]

\* The points of execute between the confirmation of a timed open and the first
\* OFF of its closing phase.
MustClose ==
    \/ /\ phase = "main"
       /\ \/ pc \in {"fulfilled", "closing", "hold"}
          \/ pc = "write" /\ pend.next \in {"fulfilled", "hold"}
    \/ /\ phase = "close"
       /\ pc = "send" \/ (pc = "attempt" /\ attempt = 0)

\* A confirmed ON of a limited open is the last command only at those points.
LastInv ==
    last.power = "on" =>
        /\ last.by \in Requests /\ caller[last.by] = "accepted"
        /\ (act[last.by].type # "open" /\ "on" \in acked[last.by])
              => (last.by = job /\ MustClose)

SafeInv == QueueInv /\ JobInv /\ ShutInv /\ AckInv /\ LastInv

\* At the start nothing is confirmed and no action is being executed.
LEMMA SafeInit == Init => SafeInv
<1> SUFFICES ASSUME Init PROVE SafeInv
  OBVIOUS
<1>1. ShutdownClose \in Ids /\ \A a \in Ids : act[a].type = "close"
  BY DEF Init, NewAction, Ids
<1>2. queue = <<>> /\ Len(<<>>) = 0
  BY EmptySeq DEF Init
<1>3. pc = "idle" /\ last.power = "none" /\ \A a \in Ids : acked[a] = {}
  BY DEF Init
<1>4. QueueInv /\ JobInv /\ ShutInv
  BY <1>1, <1>2, <1>3 DEF QueueInv, JobInv, ShutInv, Busy
<1>5. AckInv /\ LastInv
  BY <1>1, <1>2, <1>3 DEF AckInv, LastInv, Ids
<1> QED BY <1>4, <1>5 DEF SafeInv

\* What is left of the channel once its oldest entry is taken.
LEMMA ChannelTail ==
    ASSUME queue \in Seq(Requests), queue # <<>>
    PROVE  /\ Head(queue) = queue[1] /\ Head(queue) \in Requests
           /\ Tail(queue) \in Seq(Requests)
           /\ Len(queue) \in Nat /\ Len(queue) > 0
           /\ Len(Tail(queue)) \in Nat /\ Len(Tail(queue)) = Len(queue) - 1
           /\ \A i \in 1 .. Len(Tail(queue)) : Tail(queue)[i] = queue[i + 1]
<1>1. Len(queue) \in Nat /\ Len(queue) > 0
  BY EmptySeq
<1>2. /\ Head(queue) \in Requests /\ Tail(queue) \in Seq(Requests)
      /\ Len(Tail(queue)) = Len(queue) - 1
      /\ \A i \in 1 .. Len(Tail(queue)) : Tail(queue)[i] = queue[i + 1]
  BY HeadTailProperties
<1>3. Head(queue) = queue[1]
  OBVIOUS
<1> QED BY <1>1, <1>2, <1>3

\* Callers touch the channel and the cancellation only.
LEMMA SafeCaller == TypeInv /\ SafeInv /\ CallerNext => SafeInv'
<1> SUFFICES ASSUME TypeInv, SafeInv, CallerNext PROVE SafeInv'
  OBVIOUS
<1> USE DEF SafeInv
<1> PICK r \in Requests :
       \/ \E d \in Durations : Open(r, d)
       \/ Close(r) \/ SendToQueue(r) \/ FindFull(r) \/ DropOldest(r)
  BY DEF CallerNext
<1>0. /\ caller \in [Requests -> CallerStates] /\ queue \in Seq(Requests)
      /\ act \in [Ids -> Actions] /\ Requests \subseteq Ids /\ ShutdownClose \in Ids
      /\ r # ShutdownClose /\ Len(queue) \in Nat
  BY IdsAssumption, LenProperties DEF TypeInv, TypeOK, CallerType, StructType, Ids
<1>1. /\ caller[r] # "accepted"
      /\ \A x \in Requests : x # r => caller'[x] = caller[x]
      /\ UNCHANGED <<pc, job, budget, phase, pend, attempt, acked, last>>
  BY <1>0 DEF Open, Close, SendToQueue, FindFull, DropOldest, tryVars
<1>2. /\ \A i \in 1 .. Len(queue) : queue[i] \in Requests /\ queue[i] # r
      /\ pc \in Busy => job # r
      /\ last.power = "on" => last.by # r
  BY <1>0, <1>1, ElementOfSeq DEF QueueInv, JobInv, LastInv
<1>3. MustClose' = MustClose
  BY <1>1 DEF MustClose
<1>4. CASE (\E d \in Durations : Open(r, d)) \/ Close(r)
  <2>1. /\ queue' = queue /\ caller'[r] # "accepted"
        /\ \A a \in Ids : a # r => act'[a] = act[a]
    BY <1>0, <1>4 DEF Open, Close
  <2>2. QueueInv' /\ JobInv'
    BY <1>0, <1>1, <1>2, <2>1 DEF QueueInv, JobInv
  <2>3. ShutInv'
    BY <1>0, <2>1 DEF ShutInv
  <2>4. AckInv'
    BY <1>0, <1>1, <1>2, <2>1 DEF AckInv
  <2>5. LastInv'
    BY <1>0, <1>1, <1>2, <1>3, <2>1 DEF LastInv
  <2> QED BY <2>2, <2>3, <2>4, <2>5
<1>5. CASE SendToQueue(r)
  <2>1. /\ act' = act /\ caller'[r] = "accepted" /\ queue' = Append(queue, r)
    BY <1>0, <1>5 DEF SendToQueue
  <2>2. /\ Len(queue') = Len(queue) + 1 /\ queue'[Len(queue) + 1] = r
        /\ \A i \in 1 .. Len(queue) : queue'[i] = queue[i]
    BY <1>0, <2>1, AppendProperties
  <2>3. QueueInv'
    BY <1>0, <1>1, <1>2, <2>1, <2>2 DEF QueueInv
  <2>4. JobInv'
    BY <1>0, <1>1, <1>2, <2>1, <2>2 DEF JobInv
  <2>5. "on" \notin acked[r]
    BY <1>1 DEF AckInv
  <2>6. AckInv'
    BY <1>0, <1>1, <1>2, <2>1, <2>2, <2>5 DEF AckInv
  <2>7. ShutInv' /\ LastInv'
    BY <1>0, <1>1, <1>2, <1>3, <2>1 DEF ShutInv, LastInv
  <2> QED BY <2>3, <2>4, <2>6, <2>7
<1>6. CASE FindFull(r)
  <2>1. act' = act /\ queue' = queue /\ caller'[r] # "accepted"
    BY <1>0, <1>6 DEF FindFull
  <2>2. QueueInv' /\ JobInv' /\ ShutInv'
    BY <1>0, <1>1, <1>2, <2>1 DEF QueueInv, JobInv, ShutInv
  <2>3. AckInv' /\ LastInv'
    BY <1>0, <1>1, <1>2, <1>3, <2>1 DEF AckInv, LastInv
  <2> QED BY <2>2, <2>3
<1>7. CASE DropOldest(r)
  <2>1. act' = act /\ caller'[r] # "accepted"
    BY <1>0, <1>7 DEF DropOldest
  <2>2. /\ Len(queue') \in Nat
        /\ \/ queue' = queue
           \/ /\ Len(queue') = Len(queue) - 1
              /\ \A i \in 1 .. Len(queue') : queue'[i] = queue[i + 1]
    <3>1. CASE queue = <<>>
      BY <1>0, <1>7, <3>1 DEF DropOldest
    <3>2. CASE queue # <<>>
      <4>1. queue' = Tail(queue)
        BY <1>7, <3>2 DEF DropOldest
      <4> QED BY <1>0, <3>2, <4>1, ChannelTail
    <3> QED BY <3>1, <3>2
  <2>3. QueueInv' /\ JobInv'
    <3>1. CASE queue' = queue
      BY <1>0, <1>1, <1>2, <3>1 DEF QueueInv, JobInv
    <3>2. CASE /\ Len(queue') = Len(queue) - 1
               /\ \A i \in 1 .. Len(queue') : queue'[i] = queue[i + 1]
      <4>1. QueueInv'
        <5>1. ASSUME NEW i \in 1 .. Len(queue')
              PROVE  i + 1 \in 1 .. Len(queue) /\ queue'[i] = queue[i + 1]
          BY <1>0, <2>2, <3>2
        <5>2. \A i \in 1 .. Len(queue') : caller'[queue'[i]] = "accepted"
          BY <1>1, <1>2, <5>1 DEF QueueInv
        <5>3. ASSUME NEW i \in 1 .. Len(queue'), NEW j \in 1 .. Len(queue'),
                     queue'[i] = queue'[j]
              PROVE  i = j
          <6>1. i + 1 = j + 1
            BY <5>1, <5>3 DEF QueueInv
          <6> QED BY <6>1, <2>2
        <5> QED BY <5>2, <5>3 DEF QueueInv
      <4>2. JobInv'
        BY <1>0, <1>1, <1>2, <2>2, <3>2 DEF JobInv
      <4> QED BY <4>1, <4>2
    <3> QED BY <2>2, <3>1, <3>2
  <2>4. AckInv'
    BY <1>0, <1>1, <1>2, <2>1, <2>2 DEF AckInv
  <2>5. ShutInv' /\ LastInv'
    BY <1>0, <1>1, <1>2, <1>3, <2>1 DEF ShutInv, LastInv
  <2> QED BY <2>3, <2>4, <2>5
<1> QED BY <1>4, <1>5, <1>6, <1>7

\* Handing an action over from the channel or to the shutdown close.
LEMMA SafeStart == TypeInv /\ SafeInv /\ (Dequeue \/ StopRun \/ Record) => SafeInv'
<1> SUFFICES ASSUME TypeInv, SafeInv, Dequeue \/ StopRun \/ Record PROVE SafeInv'
  OBVIOUS
<1> USE DEF SafeInv
<1>0. /\ caller \in [Requests -> CallerStates] /\ queue \in Seq(Requests)
      /\ act \in [Ids -> Actions] /\ Requests \subseteq Ids /\ ShutdownClose \in Ids
      /\ ShutdownClose \notin Requests /\ Len(queue) \in Nat /\ cfg \in Configs
  BY IdsAssumption, LenProperties DEF TypeInv, TypeOK, CallerType, StructType, Ids
<1>1. UNCHANGED <<caller, acked, last>>
  BY DEF Dequeue, StopRun, Record, callVars
<1>2. /\ \A i \in 1 .. Len(queue) : queue[i] \in Requests
      /\ ~MustClose
  BY <1>0, ElementOfSeq DEF Dequeue, StopRun, Record, MustClose
<1>3. CASE Dequeue
  <2>1. /\ Head(queue) = queue[1] /\ Len(queue) > 0
        /\ Len(queue') = Len(queue) - 1
        /\ \A i \in 1 .. Len(queue') : queue'[i] = queue[i + 1]
    <3>1. queue # <<>> /\ queue' = Tail(queue)
      BY <1>3 DEF Dequeue
    <3> QED BY <1>0, <3>1, ChannelTail
  <2>2. /\ Head(queue) \in Requests /\ Prepare(Head(queue))
        /\ Head(queue) \in Ids /\ Head(queue) # ShutdownClose
    BY <1>0, <1>2, <1>3, <2>1 DEF Dequeue
  <2>3. /\ \A a \in Ids : a # Head(queue) => act'[a] = act[a]
        /\ act[Head(queue)].type # "close" => act'[Head(queue)].type # "close"
        /\ job' = Head(queue) /\ budget' > 0
    BY <1>0, <2>2, PrepareType
  <2>4. "on" \notin acked[Head(queue)] /\ caller[Head(queue)] = "accepted"
    BY <1>0, <2>1 DEF AckInv, QueueInv
  <2>5. QueueInv'
    BY <1>0, <1>1, <2>1 DEF QueueInv
  <2>6. \A i \in 1 .. Len(queue') : queue'[i] # Head(queue)
    BY <1>0, <2>1 DEF QueueInv
  <2>7. JobInv' /\ ShutInv'
    BY <1>0, <1>1, <2>2, <2>3, <2>4, <2>6 DEF JobInv, ShutInv
  <2>8. AckInv'
    BY <1>0, <1>1, <2>1, <2>3, <2>4 DEF AckInv
  <2>9. LastInv'
    BY <1>0, <1>1, <1>2, <2>3, <2>4 DEF LastInv
  <2> QED BY <2>5, <2>7, <2>8, <2>9
<1>4. CASE StopRun
  <2>1. queue' = queue
    BY <1>4 DEF StopRun, callVars
  <2>2. "on" \notin acked[ShutdownClose]
    BY <1>0 DEF AckInv, ShutInv
  <2>3. CASE pc' = "stopped" /\ UNCHANGED <<act, job, budget>>
    <3>1. QueueInv' /\ JobInv' /\ ShutInv'
      BY <1>1, <2>1, <2>3 DEF QueueInv, JobInv, ShutInv, Busy
    <3>2. AckInv' /\ LastInv'
      BY <1>1, <1>2, <2>1, <2>3 DEF AckInv, LastInv
    <3> QED BY <3>1, <3>2
  <2>4. CASE Prepare(ShutdownClose)
    <3>1. /\ \A a \in Ids : a # ShutdownClose => act'[a] = act[a]
          /\ act'[ShutdownClose].type = "close"
          /\ job' = ShutdownClose /\ budget' > 0
      BY <1>0, <2>4, PrepareType DEF ShutInv
    <3>2. QueueInv' /\ JobInv' /\ ShutInv'
      BY <1>1, <2>1, <3>1 DEF QueueInv, JobInv, ShutInv
    <3>3. AckInv'
      BY <1>0, <1>1, <2>1, <2>2, <3>1 DEF AckInv
    <3>4. LastInv'
      BY <1>0, <1>1, <1>2, <3>1 DEF LastInv
    <3> QED BY <3>2, <3>3, <3>4
  <2> QED BY <1>4, <2>3, <2>4 DEF StopRun
<1>5. CASE Record
  <2>1. queue' = queue /\ act' = act /\ pc' \in {"idle", "stopped"}
    BY <1>5 DEF Record, callVars
  <2>2. QueueInv' /\ JobInv' /\ ShutInv'
    BY <1>1, <2>1 DEF QueueInv, JobInv, ShutInv, Busy
  <2>3. AckInv' /\ LastInv'
    BY <1>1, <1>2, <2>1 DEF AckInv, LastInv
  <2> QED BY <2>2, <2>3
<1> QED BY <1>3, <1>4, <1>5

\* The steps inside execute.
Inner == \/ Begin \/ Attempt
         \/ \E sent, ok \in BOOLEAN : SendZbSend(sent, ok)
         \/ Confirmed \/ Unconfirmed \/ GiveUp
         \/ \E done \in BOOLEAN : Write(done)
         \/ Fulfilled \/ Closing \/ HoldExpires \/ HoldCancelled \/ Closed
         \/ MarkCloseUnconfirmed \/ ClearActionID \/ Done

\* They keep the action, its attempts, the channel and every action's type.
LEMMA InnerFrame ==
    ASSUME TypeInv, Inner
    PROVE  /\ UNCHANGED <<caller, queue, job, budget>>
           /\ \A a \in Ids : act'[a].type = act[a].type
           /\ pc \in Busy /\ pc' \in Busy /\ job \in Ids
<1>1. UNCHANGED <<caller, queue, job, budget>>
  BY DEF Inner, Begin, Attempt, SendZbSend, Confirmed, Unconfirmed, GiveUp, Write,
         Fulfilled, Closing, HoldExpires, HoldCancelled, EndHold, Closed,
         MarkCloseUnconfirmed, ClearActionID, Done, callVars, tryVars
<1>2. pc \in Busy
  BY DEF Inner, Begin, Attempt, SendZbSend, Confirmed, Unconfirmed, GiveUp, Write,
         Fulfilled, Closing, HoldExpires, HoldCancelled, EndHold, Closed,
         MarkCloseUnconfirmed, ClearActionID, Done, Busy, RunPCs
<1>3. job \in Ids
  BY <1>2 DEF TypeInv, ControlOK
<1>4. pc' \in Busy
  <2>1. pc = "write" => pend.next \in Busy
    BY DEF TypeInv, ControlOK, Busy, RunPCs
  <2> QED BY <2>1
    DEF Inner, Begin, Attempt, SendZbSend, Confirmed, Unconfirmed, GiveUp, FailTo, Write,
        Fulfilled, Closing, HoldExpires, HoldCancelled, EndHold, Closed, UpdateActionID,
        MarkCloseUnconfirmed, ClearActionID, Done, Busy, RunPCs
<1>5. \A a \in Ids : act'[a].type = act[a].type
  <2>1. act' = act \/ \E s \in ActionStates : act' = SetState(job, s)
    BY DEF Inner, Begin, Attempt, SendZbSend, Confirmed, Unconfirmed, GiveUp, FailTo, Write,
           Fulfilled, Closing, HoldExpires, HoldCancelled, EndHold, Closed, SetMainState,
           MarkCloseUnconfirmed, ClearActionID, Done, ActionStates
  <2> QED BY <1>3, <2>1, SetStateType DEF TypeInv, TypeOK, StructType
<1> QED BY <1>1, <1>2, <1>3, <1>4, <1>5

\* The steps of execute lead from a confirmed ON to a close.
LEMMA SafeInner == TypeInv /\ SafeInv /\ Inner => SafeInv'
<1> SUFFICES ASSUME TypeInv, SafeInv, Inner PROVE SafeInv'
  OBVIOUS
<1> USE DEF SafeInv
<1>0. /\ UNCHANGED <<caller, queue, job, budget>>
      /\ \A a \in Ids : act'[a].type = act[a].type
      /\ pc \in Busy /\ pc' \in Busy /\ job \in Ids
  BY InnerFrame
<1>1. /\ acked \in [Ids -> SUBSET Powers] /\ Requests \subseteq Ids
      /\ ShutdownClose \in Ids /\ phase \in {"main", "close"} /\ attempt \in Nat
      /\ queue \in Seq(Requests)
  BY DEF TypeInv, TypeOK, CallerType, EnvType, RunType, Ids
<1>2. \A i \in 1 .. Len(queue) : queue[i] \in Requests
  BY <1>1, ElementOfSeq
<1>3. QueueInv' /\ JobInv' /\ ShutInv'
  BY <1>0, <1>1 DEF QueueInv, JobInv, ShutInv
<1>4. CASE Confirmed
  <2>1. /\ acked'[job] = acked[job] \cup {Command} /\ last' = last
        /\ \A a \in Ids : a # job => acked'[a] = acked[a]
        /\ pc' = "write" /\ pc = "wait" /\ phase' = phase /\ attempt' = attempt
        /\ pend'.next = IF phase = "main" THEN "fulfilled" ELSE "closed"
    BY <1>0, <1>1, <1>4 DEF Confirmed, tryVars
  <2>2. Command = "on" => phase = "main" /\ act[job].type # "close"
    BY <1>1 DEF Command
  <2>3. Command = "off" \/ Command = "on"
    BY DEF Command
  <2>4. job # ShutdownClose => /\ job \in Requests /\ caller[job] = "accepted"
                              /\ \A i \in 1 .. Len(queue) : queue[i] # job
    BY <1>0 DEF JobInv
  <2>5. AckInv'
    BY <1>0, <1>1, <1>2, <2>1, <2>2, <2>3, <2>4, IdsAssumption DEF AckInv, ShutInv
  <2>6. ~MustClose
    BY <2>1 DEF MustClose
  <2>7. LastInv'
    BY <1>0, <1>1, <2>1, <2>2, <2>3, <2>6 DEF LastInv, MustClose
  <2> QED BY <1>3, <2>5, <2>7
<1>5. ASSUME NEW sent \in BOOLEAN, NEW ok \in BOOLEAN, SendZbSend(sent, ok)
      PROVE  SafeInv'
  <2>1. /\ acked' = acked /\ phase' = phase /\ pc = "send"
        /\ last'.power = Command /\ (Command = "on" => last'.by = job)
    BY <1>5 DEF SendZbSend
  <2>2. Command = "on" => phase = "main" /\ act[job].type # "close"
    BY <1>1 DEF Command
  <2>3. AckInv'
    BY <1>0, <1>1, <2>1 DEF AckInv
  <2>4. LastInv'
    BY <1>0, <1>1, <2>1, <2>2 DEF LastInv, AckInv, JobInv, ShutInv
  <2> QED BY <1>3, <2>3, <2>4
<1>6. ASSUME ~Confirmed, ~\E sent, ok \in BOOLEAN : SendZbSend(sent, ok)
      PROVE  SafeInv'
  <2>1. UNCHANGED <<acked, last>>
    BY <1>6 DEF Inner, Begin, Attempt, Unconfirmed, GiveUp, Write, Fulfilled, Closing,
                HoldExpires, HoldCancelled, EndHold, Closed, MarkCloseUnconfirmed,
                ClearActionID, Done
  <2>2. pc' \in {"begin", "attempt", "send", "wait"} /\ phase' = "main"
           => pc \in {"begin", "attempt", "send", "wait"} /\ phase = "main"
    <3>1. pc = "write" => pend.next \in {"fulfilled", "closed", "hold", "clear", "done"}
      BY DEF TypeInv, ControlOK
    <3> QED BY <1>6, <3>1
      DEF Inner, Begin, Attempt, Unconfirmed, GiveUp, FailTo, Write, Fulfilled, Closing,
          HoldExpires, HoldCancelled, EndHold, Closed, MarkCloseUnconfirmed,
          ClearActionID, UpdateActionID, Done
  <2>3. AckInv'
    BY <1>0, <1>1, <2>1, <2>2 DEF AckInv
  <2>4. ASSUME MustClose, act[job].type = "open_timed"
        PROVE  MustClose'
    <3>1. budget > 0 /\ budget \in Nat
      BY <1>0 DEF JobInv, TypeInv, TypeOK, RunType
    <3>2. CASE Attempt \/ GiveUp
      BY <1>1, <2>4, <3>1, <3>2 DEF Attempt, GiveUp, MustClose
    <3>3. CASE \E done \in BOOLEAN : Write(done)
      BY <2>4, <3>3 DEF Write, MustClose
    <3>4. CASE Fulfilled \/ Closing
      BY <2>4, <3>4 DEF Fulfilled, Closing, UpdateActionID, MustClose
    <3>5. CASE HoldExpires \/ HoldCancelled
      BY <3>5 DEF HoldExpires, HoldCancelled, EndHold, MustClose
    <3>6. CASE Begin \/ Unconfirmed \/ Closed \/ MarkCloseUnconfirmed \/ ClearActionID \/ Done
      BY <2>4, <3>6 DEF Begin, Unconfirmed, Closed, MarkCloseUnconfirmed, ClearActionID,
                        Done, MustClose
    <3> QED BY <1>6, <3>2, <3>3, <3>4, <3>5, <3>6 DEF Inner
  <2>5. act[job].type \in {"open", "open_timed", "close"}
    BY <1>0 DEF TypeInv, TypeOK, StructType, Actions, ActionTypes
  <2>6. LastInv'
    BY <1>0, <1>1, <2>1, <2>4, <2>5 DEF LastInv, AckInv
  <2> QED BY <1>3, <2>3, <2>6
<1> QED BY <1>4, <1>5, <1>6

\* The other goroutines and the environment touch nothing of this.
LEMMA SafeOthers == SafeInv /\ (PingNext \/ EnvNext \/ UNCHANGED vars) => SafeInv'
<1> SUFFICES ASSUME SafeInv, PingNext \/ EnvNext \/ UNCHANGED vars PROVE SafeInv'
  OBVIOUS
<1>1. UNCHANGED <<caller, queue, act, pc, job, phase, attempt, budget, pend, acked, last>>
  BY DEF PingNext, PingTick, PingRegister, PingSend, PingWait, PingApply, PingRead,
         PingWrite, PingStop, EnvNext, Stop, CloseTimeout, UpdateConfig, WaitTimeout,
         DeliverReport, DeviceObey, Lose, Telemetry, vars, callVars, tryVars
<1> QED BY <1>1 DEF SafeInv, QueueInv, JobInv, ShutInv, AckInv, LastInv, MustClose

\* The invariant is inductive.
LEMMA SafeStep == TypeInv /\ SafeInv /\ [Next]_vars => SafeInv'
BY SafeCaller, SafeStart, SafeInner, SafeOthers DEF Next, RunNext, Inner

\* The run goroutine never rests after the confirmed ON of a timed open without
\* having commanded an OFF since, whatever is cancelled, lost or reconfigured in
\* between (execute: "close regardless of cancellation").
THEOREM ValveRestsClosed == Spec => []RestsClosed
<1>1. Init => TypeInv /\ SafeInv
  BY TypeInit, SafeInit
<1>2. TypeInv /\ SafeInv /\ [Next]_vars => (TypeInv /\ SafeInv)'
  BY TypeStep, SafeStep
<1>3. SafeInv => RestsClosed
  BY DEF SafeInv, LastInv, MustClose, RestsClosed
<1> QED BY <1>1, <1>2, <1>3, PTL DEF Spec

-----------------------------------------------------------------------------
\* With a limit in every configuration, what is executed, and what was commanded
\* ON last, is not an indefinite open.
LimitInv ==
    (\A c \in Configs : c.maxOpen > 0) =>
        /\ pc \in Busy => act[job].type # "open"
        /\ last.power = "on" => act[last.by].type # "open"

\* No step puts an open without a limit into execution.
LEMMA LimitStep == TypeInv /\ SafeInv /\ LimitInv /\ [Next]_vars => LimitInv'
<1> SUFFICES ASSUME TypeInv, SafeInv, LimitInv, [Next]_vars,
                    \A c \in Configs : c.maxOpen > 0
             PROVE  /\ pc' \in Busy => act'[job'].type # "open"
                    /\ last'.power = "on" => act'[last'.by].type # "open"
  BY DEF LimitInv
<1>0. /\ act \in [Ids -> Actions] /\ Requests \subseteq Ids /\ ShutdownClose \in Ids
      /\ cfg \in Configs /\ queue \in Seq(Requests)
      /\ last.power = "on" => last.by \in Requests /\ caller[last.by] = "accepted"
      /\ pc \in Busy => job \in Ids
  BY DEF TypeInv, TypeOK, CallerType, StructType, Ids, SafeInv, LastInv, ControlOK
<1>1. CASE CallerNext
  <2>1. PICK r \in Requests :
           \/ \E d \in Durations : Open(r, d)
           \/ Close(r) \/ SendToQueue(r) \/ FindFull(r) \/ DropOldest(r)
    BY <1>1 DEF CallerNext
  <2>2. /\ caller[r] # "accepted" /\ UNCHANGED <<pc, job, last>>
        /\ \A a \in Ids : a # r => act'[a] = act[a]
    BY <1>0, <2>1 DEF Open, Close, SendToQueue, FindFull, DropOldest
  <2>3. pc \in Busy => job # r
    BY <2>2, IdsAssumption DEF SafeInv, JobInv
  <2> QED BY <1>0, <2>2, <2>3 DEF LimitInv
<1>2. CASE Dequeue \/ StopRun
  <2>1. last' = last
    BY <1>2 DEF Dequeue, StopRun
  <2>2. ASSUME NEW id \in Ids, Prepare(id)
        PROVE  /\ act'[job'].type # "open"
               /\ last.power = "on" => act'[last.by].type # "open"
    <3>1. /\ act'[id].type # "open" /\ job' = id
          /\ \A a \in Ids : a # id => act'[a] = act[a]
      BY <1>0, <2>2, PrepareType
    <3> QED BY <1>0, <3>1 DEF LimitInv
  <2>3. queue # <<>> => Head(queue) \in Ids
    BY <1>0, HeadTailProperties
  <2>4. CASE Dequeue
    BY <2>1, <2>2, <2>3, <2>4 DEF Dequeue
  <2>5. CASE StopRun
    BY <1>0, <2>1, <2>2, <2>5 DEF StopRun, LimitInv, Busy
  <2> QED BY <1>2, <2>4, <2>5
<1>3. CASE Record
  BY <1>3 DEF Record, LimitInv, Busy
<1>4. CASE Inner
  <2>1. /\ job' = job /\ pc \in Busy /\ pc' \in Busy
        /\ \A a \in Ids : act'[a].type = act[a].type
    BY <1>4, InnerFrame
  <2>2. last' = last \/ (last'.power = "on" => last'.by = job)
    <3>1. ASSUME NEW sent \in BOOLEAN, NEW ok \in BOOLEAN, SendZbSend(sent, ok)
          PROVE  last'.power = "on" => last'.by = job
      BY <3>1 DEF SendZbSend
    <3> QED BY <1>4, <3>1
      DEF Inner, Begin, Attempt, Confirmed, Unconfirmed, GiveUp, Write, Fulfilled, Closing,
          HoldExpires, HoldCancelled, EndHold, Closed, MarkCloseUnconfirmed,
          ClearActionID, Done
  <2> QED BY <1>0, <2>1, <2>2 DEF LimitInv
<1>5. CASE PingNext \/ EnvNext \/ UNCHANGED vars
  <2>1. UNCHANGED <<act, pc, job, last>>
    BY <1>5 DEF PingNext, PingTick, PingRegister, PingSend, PingWait, PingApply, PingRead,
           PingWrite, PingStop, EnvNext, Stop, CloseTimeout, UpdateConfig, WaitTimeout,
           DeliverReport, DeviceObey, Lose, Telemetry, vars
  <2> QED BY <2>1 DEF LimitInv
<1> QED BY <1>1, <1>2, <1>3, <1>4, <1>5 DEF Next, RunNext, Inner

\* Where every configuration limits opens, a confirmed ON is always followed by
\* an OFF before the run goroutine rests (the upgrade in execute).
THEOREM LimitedOpensRestClosed == Spec => []LimitedRestsClosed
<1>1. Init => TypeInv /\ SafeInv /\ LimitInv
  <2>1. ASSUME Init PROVE pc = "idle" /\ last.power = "none"
    <3>1. pc = "idle" /\ last = [power |-> "none", by |-> None]
      BY <2>1 DEF Init
    <3> QED BY <3>1
  <2>2. Init => LimitInv
    <3>1. pc = "idle" => pc \notin Busy
      BY DEF Busy
    <3>2. last.power = "none" => last.power # "on"
      OBVIOUS
    <3> QED BY <2>1, <3>1, <3>2, Zenon DEF LimitInv
  <2> QED BY <2>2, TypeInit, SafeInit
<1>2. TypeInv /\ SafeInv /\ LimitInv /\ [Next]_vars => (TypeInv /\ SafeInv /\ LimitInv)'
  BY TypeStep, SafeStep, LimitStep
<1>3. SafeInv /\ LimitInv => LimitedRestsClosed
  BY DEF SafeInv, LastInv, MustClose, LimitInv, LimitedRestsClosed
<1> QED BY <1>1, <1>2, <1>3, PTL DEF Spec

-----------------------------------------------------------------------------
\* The shutdown close, once past its first command, has commanded an OFF; a
\* pipeline that stops without one found its valve recorded as not open.
StopInv ==
    /\ pc \in {"idle", "begin", "record"} => attempt = 0
    /\ pc = "send" => attempt > 0
    /\ (/\ job = ShutdownClose /\ pc \in Busy \ {"begin", "send"}
        /\ ~(pc = "attempt" /\ attempt = 0)) => last.power = "off"
    /\ pc = "stopped" /\ recorded = "open" => last.power = "off"

\* No step loses track of the shutdown close.
LEMMA StopStep == TypeInv /\ SafeInv /\ StopInv /\ [Next]_vars => StopInv'
<1> SUFFICES ASSUME TypeInv, SafeInv, StopInv, [Next]_vars PROVE StopInv'
  OBVIOUS
<1>0. /\ attempt \in Nat /\ budget \in Nat /\ ShutdownClose \in Ids
      /\ act \in [Ids -> Actions] /\ cfg \in Configs /\ queue \in Seq(Requests)
      /\ act[ShutdownClose].type = "close" /\ (pc \in Busy => budget > 0)
  BY DEF TypeInv, TypeOK, CallerType, StructType, RunType, Ids, SafeInv, ShutInv, JobInv
<1>1. CASE CallerNext \/ EnvNext \/ PingNext \/ UNCHANGED vars
  <2>1. /\ UNCHANGED <<pc, job, attempt, last>>
        /\ recorded' = recorded \/ recorded' = "closed"
    BY <1>1 DEF CallerNext, Open, Close, SendToQueue, FindFull, DropOldest,
           PingNext, PingTick, PingRegister, PingSend, PingWait, PingApply, PingRead,
           PingWrite, PingStop, EnvNext, Stop, CloseTimeout, UpdateConfig, WaitTimeout,
           DeliverReport, DeviceObey, Lose, Telemetry, vars, tryVars
  <2> QED BY <2>1 DEF StopInv
<1>2. CASE Dequeue
  <2>1. Head(queue) \in Requests /\ Head(queue) \in Ids
    BY <1>0, <1>2, HeadTailProperties DEF Dequeue, Ids
  <2>2. job' # ShutdownClose /\ pc' \in {"begin", "record"}
    BY <1>0, <1>2, <2>1, PrepareType, IdsAssumption DEF Dequeue
  <2> QED BY <1>2, <2>2 DEF Dequeue, StopInv
<1>3. CASE StopRun
  <2>1. CASE recorded = "open"
    <3>1. pc' = "begin"
      BY <1>0, <1>3, <2>1, PrepareType DEF StopRun
    <3> QED BY <1>3, <3>1 DEF StopRun, StopInv
  <2>2. CASE recorded # "open"
    BY <1>3, <2>2 DEF StopRun, StopInv, Busy
  <2> QED BY <2>1, <2>2
<1>4. CASE Record
  BY <1>4 DEF Record, StopInv, Busy, RunPCs
<1>5. CASE Inner
  <2>0. job' = job /\ pc \in Busy /\ pc' \in Busy
    BY <1>5, InnerFrame
  <2>1. CASE Attempt
    BY <1>0, <2>0, <2>1 DEF Attempt, StopInv, Busy
  <2>2. ASSUME NEW sent \in BOOLEAN, NEW ok \in BOOLEAN, SendZbSend(sent, ok)
        PROVE  StopInv'
    <3>1. job = ShutdownClose => last'.power = "off"
      BY <1>0, <2>2 DEF SendZbSend, Command
    <3>2. attempt' = attempt /\ pc = "send" /\ pc' \in {"send", "wait", "attempt"}
      BY <2>2 DEF SendZbSend
    <3> QED BY <2>0, <3>1, <3>2 DEF StopInv, Busy
  <2>3. CASE GiveUp
    <3>1. /\ attempt > 0 /\ pc' \in {"mark", "done"} /\ UNCHANGED <<attempt, last>>
          /\ pc = "attempt"
      BY <1>0, <2>0, <2>3 DEF GiveUp, FailTo, tryVars
    <3> QED BY <1>0, <2>0, <3>1 DEF StopInv, Busy
  <2>4. CASE HoldExpires \/ HoldCancelled
    BY <2>0, <2>4 DEF HoldExpires, HoldCancelled, EndHold, StopInv, Busy
  <2>5. CASE Begin
    BY <2>0, <2>5 DEF Begin, StopInv, Busy, tryVars
  <2>6. CASE Unconfirmed
    <3>1. /\ pc = "wait" /\ pc' \in {"attempt", "mark", "done"}
          /\ UNCHANGED <<attempt, last>>
      BY <2>6 DEF Unconfirmed, FailTo, tryVars
    <3> QED BY <2>0, <3>1 DEF StopInv, Busy, RunPCs
  <2>7. CASE \E done \in BOOLEAN : Write(done)
    <3>1. /\ pc = "write" /\ UNCHANGED <<attempt, last>>
          /\ pc' \in {"fulfilled", "closed", "hold", "clear", "done"}
      BY <2>7 DEF Write, tryVars, TypeInv, ControlOK
    <3> QED BY <2>0, <3>1 DEF StopInv, Busy, RunPCs
  <2>8. CASE \/ Confirmed \/ Fulfilled \/ Closing \/ Closed \/ MarkCloseUnconfirmed
             \/ ClearActionID \/ Done
    <3>1. /\ pc \in {"wait", "fulfilled", "closing", "closed", "mark", "clear", "done"}
          /\ pc' \in {"write", "closing", "clear", "done", "record"}
          /\ last' = last /\ (pc' = "record" => attempt' = 0)
      BY <2>8 DEF Confirmed, Fulfilled, Closing, UpdateActionID, Closed,
                  MarkCloseUnconfirmed, ClearActionID, Done
    <3> QED BY <2>0, <3>1 DEF StopInv, Busy, RunPCs
  <2> QED BY <1>5, <2>1, <2>2, <2>3, <2>4, <2>5, <2>6, <2>7, <2>8 DEF Inner
<1> QED BY <1>1, <1>2, <1>3, <1>4, <1>5 DEF Next, RunNext, Inner

\* A pipeline whose run goroutine has returned with the valve recorded as open
\* has commanded a close last (the ctx.Done case of run).
THEOREM ShutdownCommandsClose == Spec => []StopCloses
<1>1. Init => TypeInv /\ SafeInv /\ StopInv
  <2>1. Init => StopInv
    BY DEF Init, StopInv, Busy
  <2> QED BY <2>1, TypeInit, SafeInit
<1>2. TypeInv /\ SafeInv /\ StopInv /\ [Next]_vars => (TypeInv /\ SafeInv /\ StopInv)'
  BY TypeStep, SafeStep, StopStep
<1>3. StopInv => StopCloses
  BY DEF StopInv, StopCloses
<1> QED BY <1>1, <1>2, <1>3, PTL DEF Spec
=============================================================================
