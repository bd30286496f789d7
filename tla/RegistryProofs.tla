--------------------------- MODULE RegistryProofs ---------------------------
(***************************************************************************)
(* Proofs about Registry, for any number of valves, pipelines, actions and  *)
(* lookups: no pipeline that may act is out of reach, and the lookups, which *)
(* read p.current and the history under a lock each, are consistent.        *)
(***************************************************************************)
EXTENDS Registry, FiniteSetTheorems, SequenceTheorems, TLAPS

\* No item twice.
Once(q) == \A i, j \in 1 .. Len(q) : q[i] = q[j] => i = j

PipeRecs == [key : Keys, info : Infos, ctx : {"live", "done"}, run : PipeRuns,
             job : ActIds \cup {None}, queue : Seq(Acts), history : Seq(ActIds)]

\* The run goroutine has an action in hand.
Busy(x) == x.run \in {"taken", "current", "gap"}

\* Pipeline x, a record, is through with action a.
Finished(x, a) ==
    /\ a \notin ToSet(x.queue)
    /\ Busy(x) => x.job # a
    /\ a = ShutdownClose => x.run = "stopped"

\* An action is in one place of its pipeline at a time, once: the channel, the
\* hands of the run goroutine, or the history.
PipeOK(x) ==
    /\ x \in PipeRecs
    /\ Len(x.history) <= HistoryCap /\ x.info.retry > 0
    /\ Busy(x) => x.job \in ActIds /\ x.job \notin ToSet(x.queue)
    /\ Once(x.queue) /\ Once(x.history)
    /\ \A a \in ToSet(x.history) : Finished(x, a)

\* Pipeline x has, or had, action a.
Holds(x, a) == a \in ToSet(x.queue) \/ (Busy(x) /\ x.job = a) \/ a \in ToSet(x.history)

PipesInv ==
    /\ pipe = [p \in Pipes |-> pipe[p]]
    /\ \A p \in Pipes : pipe[p] # Unused =>
          PipeOK(pipe[p]) /\ \A a \in Acts : Holds(pipe[p], a) => call[a].pc = "accepted"

ClusterInv ==
    /\ valve \in [Keys -> Valves \cup {None}]
    /\ device \in [Devices -> DeviceSpecs \cup {None}]
    /\ bridge \in [Bridges -> BridgeSpecs \cup {None}]
    /\ changes \in 0 .. MaxChanges /\ missed \in BOOLEAN
    /\ workqueue \in Seq(Keys) /\ delayed \subseteq Keys
    /\ phase \in {"run", "stopping", "exited"}

\* What the worker holds between its reads.
WorkInv ==
    /\ work = [pc |-> work.pc, key |-> work.key, read |-> work.read]
    /\ work.pc \in {"idle", "device", "bridge", "register", "ready", "cancel"}
    /\ work.pc # "idle" => work.key \in Keys
    /\ work.pc = "device" => work.read \in ValveSpecs
    /\ work.pc = "bridge" => work.read \in [spec : ValveSpecs, target : Devices, dev : DeviceSpecs]
    /\ work.pc = "register" => work.read \in Infos /\ work.read.retry > 0
    /\ work.pc = "cancel" => work.read \in Pipes /\ pipe[work.read] # Unused

\* The two maps agree, an entry leads to a pipeline of its own key.
MapInv ==
    /\ pipelines \in [Keys -> Pipes \cup {None}] /\ cancels = pipelines
    /\ \A k \in Keys : pipelines[k] # None =>
          pipe[pipelines[k]] # Unused /\ pipe[pipelines[k]].key = k

CallRecs == [pc : {"new", "keyed", "held", "accepted", "failed", "lost"},
             key : Keys \cup {None}, pipe : Pipes \cup {None}]

CallInv ==
    /\ call \in [Acts -> CallRecs]
    /\ \A a \in Acts : /\ call[a].pc = "keyed" => call[a].key \in Keys
                       /\ call[a].pc = "held" =>
                             call[a].pipe \in Pipes /\ pipe[call[a].pipe] # Unused

ReaderRecs == [pc : {"new", "keyed", "info", "first", "second", "answered", "notFound"},
               op : {"get", "list", "valve", None}, key : Keys \cup {None},
               pipe : Pipes \cup {None}, act : Acts \cup {None}, got : Seq(ActIds), sure : BOOLEAN]

\* A lookup x on pipeline y: what was read from the history is finished, so it
\* cannot be current later; an action that had begun before the lookup and is still
\* current was so at the first read, and is in hand.
LookupOK(x, y) ==
    /\ y # Unused
    /\ x.sure => Begun(y, x.act)
    /\ x.pc = "second" /\ x.op # "get" =>
          \A a \in ToSet(x.got) : Finished(y, a) /\ (a \in Acts => call[a].pc = "accepted")
    /\ x.pc = "second" /\ x.op = "get" /\ x.sure /\ y.run = "current" /\ y.job = x.act
          => x.act \in ToSet(x.got)

ReaderOK(x) ==
    /\ x \in ReaderRecs
    /\ x.pc = "new" => x = NoRead
    /\ x.pc \in {"keyed", "info"} => x.key \in Keys
    /\ x.pc = "info" => x.op # "get"
    /\ x.op # "get" => Once(x.got)
    /\ x.pc = "answered" /\ x.op = "get" /\ x.sure => x.act \in ToSet(x.got)
    /\ x.pc \in {"first", "second"} => x.pipe \in Pipes /\ LookupOK(x, pipe[x.pipe])

ReadersInv == /\ reader = [r \in Readers |-> reader[r]]
              /\ \A r \in Readers : ReaderOK(reader[r])

RegistryInv == /\ ClusterInv /\ WorkInv /\ MapInv /\ PipesInv /\ CallInv /\ ReadersInv
               /\ NoOrphanPipeline

-----------------------------------------------------------------------------
(* Facts about the operators.                                              *)

\* A finite set of valves can be listed; the informers' first report is such a list.
LEMMA SetToSeqType ==
    ASSUME NEW S, IsFiniteSet(S)
    PROVE  SetToSeq(S) \in Seq(S)
<1>1. Cardinality(S) \in Nat /\ ExistsBijection(1 .. Cardinality(S), S)
  BY FS_CardinalityType
<1>2. \E f \in [1 .. Cardinality(S) -> S] : IsInjective(f)
  BY <1>1 DEF ExistsBijection, Bijection, Injection, IsInjective
<1>3. SetToSeq(S) \in [1 .. Cardinality(S) -> S]
  BY <1>2, Zenon DEF SetToSeq
<1> QED BY <1>1, <1>3

\* The queue only ever holds keys of valves.
LEMMA QueueOfKeys ==
    ASSUME NEW S \in SUBSET Keys PROVE SetToSeq(S) \in Seq(Keys)
<1>1. IsFiniteSet(S)
  BY RegistryAssumption, FS_Subset
<1>2. SetToSeq(S) \in Seq(S)
  BY <1>1, SetToSeqType
<1> HIDE DEF SetToSeq
<1> QED BY <1>2

\* Putting a valve on the work queue keeps the queue a sequence of valves.
LEMMA AddType ==
    ASSUME workqueue \in Seq(Keys), NEW S, Add(S)
    PROVE  workqueue' \in Seq(Keys)
<1>1. (S \cap Keys) \ ToSet(workqueue) \in SUBSET Keys
  OBVIOUS
<1>2. SetToSeq((S \cap Keys) \ ToSet(workqueue)) \in Seq(Keys)
  BY <1>1, QueueOfKeys
<1> QED BY <1>2, ConcatProperties DEF Add

\* What is in a sequence has a position in it.
LEMMA ToSetIndex ==
    ASSUME NEW S, NEW q \in Seq(S), NEW a
    PROVE  a \in ToSet(q) <=> \E i \in 1 .. Len(q) : q[i] = a
BY DEF ToSet

\* An empty sequence holds nothing.
LEMMA ToSetEmpty == ToSet(<<>>) = {} /\ Once(<<>>)
BY DEF ToSet, Once

\* Taking the first item of a queue without repetitions.
LEMMA HeadTailOnce ==
    ASSUME NEW S, NEW q \in Seq(S), q # <<>>, Once(q)
    PROVE  /\ Head(q) \in S /\ Head(q) \in ToSet(q)
           /\ Tail(q) \in Seq(S) /\ ToSet(Tail(q)) \subseteq ToSet(q)
           /\ Once(Tail(q)) /\ Head(q) \notin ToSet(Tail(q))
<1>1. /\ Head(q) \in S /\ Tail(q) \in Seq(S) /\ Len(Tail(q)) = Len(q) - 1
      /\ \A i \in 1 .. Len(Tail(q)) : Tail(q)[i] = q[i + 1]
      /\ Len(q) \in Nat \ {0} /\ Head(q) = q[1]
  BY HeadTailProperties, EmptySeq
<1> DEFINE t == Tail(q)
<1> HIDE DEF t
<1>2. /\ t \in Seq(S) /\ Len(t) = Len(q) - 1 /\ \A i \in 1 .. Len(t) : t[i] = q[i + 1]
  BY <1>1 DEF t
<1>3. ASSUME NEW i \in 1 .. Len(t) PROVE i + 1 \in 1 .. Len(q) /\ i + 1 # 1 /\ t[i] = q[i + 1]
  BY <1>1, <1>2
<1>4. Head(q) \in ToSet(q)
  BY <1>1, ToSetIndex
<1>5. ToSet(t) \subseteq ToSet(q)
  BY <1>2, <1>3, ToSetIndex
<1>6. Once(t)
  <2> SUFFICES ASSUME NEW i \in 1 .. Len(t), NEW j \in 1 .. Len(t), t[i] = t[j] PROVE i = j
    BY DEF Once
  <2>1. i + 1 = j + 1
    BY <1>3 DEF Once
  <2> QED BY <2>1, <1>2
<1>7. Head(q) \notin ToSet(t)
  <2> SUFFICES ASSUME NEW i \in 1 .. Len(t), t[i] = Head(q) PROVE FALSE
    BY <1>2, ToSetIndex
  <2> QED BY <1>1, <1>3 DEF Once
<1> QED BY <1>1, <1>4, <1>5, <1>6, <1>7 DEF t

\* An append of something new keeps every entry single.
LEMMA AppendOnce ==
    ASSUME NEW S, NEW q \in Seq(S), NEW a \in S, a \notin ToSet(q), Once(q)
    PROVE  /\ Append(q, a) \in Seq(S) /\ Once(Append(q, a))
           /\ \A b : b \in ToSet(Append(q, a)) <=> b \in ToSet(q) \/ b = a
<1> DEFINE t == Append(q, a)
<1>1. /\ t \in Seq(S) /\ Len(t) = Len(q) + 1 /\ t[Len(q) + 1] = a
      /\ \A i \in 1 .. Len(q) : t[i] = q[i]
      /\ Len(q) \in Nat
  BY AppendProperties
<1> HIDE DEF t
<1>2. \A i \in 1 .. Len(t) : i \in 1 .. Len(q) \/ i = Len(q) + 1
  BY <1>1
<1>3. \A i \in 1 .. Len(q) : q[i] # a
  BY ToSetIndex
<1>4. Once(t)
  <2> SUFFICES ASSUME NEW i \in 1 .. Len(t), NEW j \in 1 .. Len(t), t[i] = t[j] PROVE i = j
    BY DEF Once
  <2> QED BY <1>1, <1>2, <1>3 DEF Once
<1>5. ASSUME NEW b PROVE b \in ToSet(t) <=> b \in ToSet(q) \/ b = a
  <2>1. b \in ToSet(t) <=> \E i \in 1 .. Len(t) : t[i] = b
    BY <1>1, ToSetIndex
  <2>2. b \in ToSet(q) <=> \E i \in 1 .. Len(q) : q[i] = b
    BY ToSetIndex
  <2>3. \A i \in 1 .. Len(q) : i \in 1 .. Len(t)
    BY <1>1
  <2>4. Len(q) + 1 \in 1 .. Len(t)
    BY <1>1
  <2> QED BY <1>1, <1>2, <2>1, <2>2, <2>3, <2>4
<1> QED BY <1>1, <1>4, <1>5 DEF t

\* An item in front of others, as the history and the list of actions are built.
LEMMA ConsOnce ==
    ASSUME NEW S, NEW q \in Seq(S), NEW a \in S, a \notin ToSet(q), Once(q)
    PROVE  /\ <<a>> \o q \in Seq(S) /\ Once(<<a>> \o q) /\ Len(<<a>> \o q) = Len(q) + 1
           /\ \A b : b \in ToSet(<<a>> \o q) <=> b \in ToSet(q) \/ b = a
<1> DEFINE t == <<a>> \o q
           u == <<a>>
<1>0. u \in Seq(S) /\ Len(u) = 1 /\ u[1] = a /\ Len(q) \in Nat
  OBVIOUS
<1>1. /\ t \in Seq(S) /\ Len(t) = Len(u) + Len(q)
      /\ \A i \in 1 .. Len(u) + Len(q) : t[i] = IF i <= Len(u) THEN u[i] ELSE q[i - Len(u)]
  <2> HIDE DEF u
  <2>1. u \in Seq(S) /\ q \in Seq(S)
    BY <1>0
  <2>2. t = u \o q
    BY DEF u
  <2> HIDE DEF t
  <2> QED BY <2>1, <2>2, ConcatProperties
<1> HIDE DEF t, u
<1>2. Len(t) = Len(q) + 1 /\ t[1] = a /\ \A i \in 1 .. Len(t) : i # 1 => i - 1 \in 1 .. Len(q) /\ t[i] = q[i - 1]
  BY <1>0, <1>1
<1>3. \A i \in 1 .. Len(q) : q[i] # a
  BY ToSetIndex
<1>4. Once(t)
  <2> SUFFICES ASSUME NEW i \in 1 .. Len(t), NEW j \in 1 .. Len(t), t[i] = t[j] PROVE i = j
    BY DEF Once
  <2>1. CASE i = 1 \/ j = 1
    BY <1>2, <1>3, <2>1
  <2>2. CASE i # 1 /\ j # 1
    <3>1. i - 1 = j - 1
      BY <1>2, <2>2 DEF Once
    <3> QED BY <1>0, <1>2, <3>1
  <2> QED BY <2>1, <2>2
<1>5. ASSUME NEW b PROVE b \in ToSet(t) <=> b \in ToSet(q) \/ b = a
  <2>1. b \in ToSet(t) <=> \E i \in 1 .. Len(t) : t[i] = b
    BY <1>1, ToSetIndex
  <2>2. b \in ToSet(q) <=> \E i \in 1 .. Len(q) : q[i] = b
    BY ToSetIndex
  <2>3. 1 \in 1 .. Len(t)
    BY <1>0, <1>2
  <2>4. ASSUME NEW i \in 1 .. Len(q) PROVE i + 1 \in 1 .. Len(t) /\ t[i + 1] = q[i]
    <3>1. i + 1 \in 1 .. Len(t) /\ i + 1 # 1 /\ (i + 1) - 1 = i
      BY <1>0, <1>2
    <3> QED BY <1>2, <3>1
  <2> QED BY <1>2, <2>1, <2>2, <2>3, <2>4
<1> QED BY <1>1, <1>2, <1>4, <1>5 DEF t

\* addToHistory: the newest first, the oldest lost when the history is full.
LEMMA HistoryOnce ==
    ASSUME NEW h \in Seq(ActIds), NEW a \in ActIds, a \notin ToSet(h), Once(h)
    PROVE  /\ AddToHistory(h, a) \in Seq(ActIds) /\ Len(AddToHistory(h, a)) <= HistoryCap
           /\ Once(AddToHistory(h, a))
           /\ ToSet(AddToHistory(h, a)) \subseteq ToSet(h) \cup {a}
<1> DEFINE all == <<a>> \o h
<1>1. all \in Seq(ActIds) /\ Once(all) /\ \A b : b \in ToSet(all) <=> b \in ToSet(h) \/ b = a
  BY ConsOnce
<1>2. HistoryCap \in Nat /\ HistoryCap >= 1
  BY RegistryAssumption
<1>3. AddToHistory(h, a) = IF Len(all) > HistoryCap THEN SubSeq(all, 1, HistoryCap) ELSE all
  BY DEF AddToHistory
<1> HIDE DEF all
<1>4. Len(all) \in Nat
  BY <1>1
<1>5. CASE Len(all) > HistoryCap
  <2> DEFINE t == SubSeq(all, 1, HistoryCap)
  <2>1. \A i \in 1 .. HistoryCap : all[i] \in ActIds /\ i \in 1 .. Len(all)
    BY <1>1, <1>2, <1>4, <1>5
  <2>2. /\ t \in Seq(ActIds) /\ Len(t) = HistoryCap
        /\ \A i \in 1 .. HistoryCap : t[i] = all[i]
    <3>1. 1 \in Int /\ HistoryCap \in Int
      BY <1>2
    <3>2. /\ t \in Seq(ActIds) /\ Len(t) = IF 1 <= HistoryCap THEN HistoryCap - 1 + 1 ELSE 0
          /\ \A i \in 1 .. HistoryCap - 1 + 1 : t[i] = all[1 + i - 1]
      BY <2>1, <3>1, SubSeqProperties
    <3> HIDE DEF t
    <3>3. HistoryCap - 1 + 1 = HistoryCap /\ \A i \in Nat : 1 + i - 1 = i
      BY <1>2
    <3> QED BY <1>2, <3>2, <3>3
  <2> HIDE DEF t
  <2>3. Once(t)
    BY <1>1, <2>1, <2>2 DEF Once
  <2>4. ToSet(t) \subseteq ToSet(h) \cup {a}
    <3> SUFFICES ASSUME NEW i \in 1 .. Len(t) PROVE t[i] \in ToSet(all)
      BY <1>1, <2>2, ToSetIndex
    <3> QED BY <1>1, <2>1, <2>2, ToSetIndex
  <2> QED BY <1>2, <1>3, <1>5, <2>2, <2>3, <2>4 DEF t
<1>6. CASE ~(Len(all) > HistoryCap)
  BY <1>1, <1>2, <1>3, <1>4, <1>6
<1> QED BY <1>5, <1>6

-----------------------------------------------------------------------------
(* One pipeline.                                                           *)

\* What a step of the run goroutine makes of its pipeline.
Moves(x, y) ==
    \/ /\ x.run = "idle" /\ x.queue # <<>>
       /\ \E next \in {"taken", "gap"} :
             y = [x EXCEPT !.run = next, !.job = Head(x.queue), !.queue = Tail(x.queue)]
    \/ x.run = "idle" /\ y = [x EXCEPT !.run = "stopped"]
    \/ x.run = "idle" /\ y = [x EXCEPT !.run = "taken", !.job = ShutdownClose]
    \/ x.run = "taken" /\ y = [x EXCEPT !.run = "current"]
    \/ x.run = "current" /\ y = [x EXCEPT !.run = "gap"]
    \/ /\ x.run = "gap"
       /\ y = [x EXCEPT !.run = IF x.job = ShutdownClose THEN "stopped" ELSE "idle",
                        !.job = None, !.history = AddToHistory(x.history, x.job)]

\* A step of a pipeline moves its actions along and touches nothing else.
LEMMA PipeNextMoves ==
    ASSUME NEW p \in Pipes, PipeNext(p)
    PROVE  pipe[p].run # "stopped" /\ \E y : Moves(pipe[p], y) /\ PipeStep(p, y)
<1>1. CASE Take(p)
  <2>1. PICK next \in {"taken", "gap"} :
          PipeStep(p, [pipe[p] EXCEPT !.run = next, !.job = Head(pipe[p].queue),
                                      !.queue = Tail(@)])
    BY <1>1 DEF Take
  <2>2. pipe[p].run = "idle" /\ pipe[p].queue # <<>>
    BY <1>1 DEF Take
  <2> QED BY <2>1, <2>2, Zenon DEF Moves
<1>2. CASE StopRun(p)
  BY <1>2, Zenon DEF StopRun, Moves
<1>3. CASE Begin(p)
  BY <1>3, Zenon DEF Begin, Moves
<1>4. CASE Done(p)
  BY <1>4, Zenon DEF Done, Moves
<1>5. CASE Record(p)
  BY <1>5, Zenon DEF Record, Moves
<1> QED BY <1>1, <1>2, <1>3, <1>4, <1>5 DEF PipeNext

\* The run goroutine keeps its pipeline in order: what it was through with stays
\* so, it takes up nothing it did not have, and while an action becomes current
\* the history stands still.
LEMMA MovesOK ==
    ASSUME NEW x, NEW y, PipeOK(x), Moves(x, y)
    PROVE  /\ PipeOK(y)
           /\ \A a : Finished(x, a) => Finished(y, a)
           /\ \A a \in Acts : Holds(y, a) => Holds(x, a)
           /\ y.run = "current" => y.history = x.history
           /\ y.key = x.key /\ y.ctx = x.ctx
<1>0. /\ x \in PipeRecs /\ x.queue \in Seq(Acts) /\ x.history \in Seq(ActIds)
      /\ Len(x.history) <= HistoryCap /\ x.info.retry > 0
      /\ Once(x.queue) /\ Once(x.history)
      /\ \A a \in ToSet(x.history) : Finished(x, a)
  BY DEF PipeOK, PipeRecs
<1>1. CASE /\ x.run = "idle" /\ x.queue # <<>>
           /\ \E next \in {"taken", "gap"} :
                 y = [x EXCEPT !.run = next, !.job = Head(x.queue), !.queue = Tail(x.queue)]
  <2>1. PICK next \in {"taken", "gap"} :
          y = [x EXCEPT !.run = next, !.job = Head(x.queue), !.queue = Tail(x.queue)]
    BY <1>1
  <2>2. /\ Head(x.queue) \in Acts /\ Head(x.queue) \in ToSet(x.queue)
        /\ Tail(x.queue) \in Seq(Acts) /\ ToSet(Tail(x.queue)) \subseteq ToSet(x.queue)
        /\ Once(Tail(x.queue)) /\ Head(x.queue) \notin ToSet(Tail(x.queue))
    BY <1>0, <1>1, HeadTailOnce
  <2>3. /\ y.run = next /\ y.job = Head(x.queue) /\ y.queue = Tail(x.queue) /\ y.key = x.key
        /\ y.info = x.info /\ y.ctx = x.ctx /\ y.history = x.history
    BY <1>0, <2>1 DEF PipeRecs
  <2>4. y \in PipeRecs
    BY <1>0, <2>1, <2>2 DEF PipeRecs, ActIds, PipeRuns
  <2>5. \A a : Finished(x, a) => Finished(y, a)
    BY <1>1, <2>2, <2>3 DEF Finished
  <2>6. PipeOK(y)
    BY <1>0, <2>2, <2>3, <2>4, <2>5 DEF PipeOK, Busy, ActIds
  <2>7. \A a \in Acts : Holds(y, a) => Holds(x, a)
    BY <2>2, <2>3 DEF Holds
  <2> QED BY <2>3, <2>5, <2>6, <2>7
<1>2. CASE x.run = "idle" /\ y = [x EXCEPT !.run = "stopped"]
  <2>3. /\ y.run = "stopped" /\ y.job = x.job /\ y.queue = x.queue /\ y.key = x.key
        /\ y.info = x.info /\ y.ctx = x.ctx /\ y.history = x.history /\ y \in PipeRecs
    BY <1>0, <1>2 DEF PipeRecs, PipeRuns
  <2>5. \A a : Finished(x, a) => Finished(y, a)
    BY <1>2, <2>3 DEF Finished, Busy
  <2>6. PipeOK(y)
    BY <1>0, <2>3, <2>5 DEF PipeOK, Busy
  <2>7. \A a \in Acts : Holds(y, a) => Holds(x, a)
    BY <2>3 DEF Holds, Busy
  <2> QED BY <2>3, <2>5, <2>6, <2>7
<1>3. CASE x.run = "idle" /\ y = [x EXCEPT !.run = "taken", !.job = ShutdownClose]
  <2>3. /\ y.run = "taken" /\ y.job = ShutdownClose /\ y.queue = x.queue /\ y.key = x.key
        /\ y.info = x.info /\ y.ctx = x.ctx /\ y.history = x.history
    BY <1>0, <1>3 DEF PipeRecs
  <2>4. y \in PipeRecs
    BY <1>0, <1>3 DEF PipeRecs, PipeRuns, ActIds
  <2>5. \A a : Finished(x, a) => Finished(y, a)
    BY <1>3, <2>3 DEF Finished, Busy
  <2>51. ShutdownClose \notin Acts
    BY RegistryAssumption
  <2>52. ShutdownClose \notin ToSet(x.queue)
    BY <1>0, <2>51, ToSetIndex
  <2>6. PipeOK(y)
    BY <1>0, <2>3, <2>4, <2>5, <2>52 DEF PipeOK, Busy, ActIds
  <2>7. \A a \in Acts : Holds(y, a) => Holds(x, a)
    BY <2>3, <2>51 DEF Holds
  <2> QED BY <2>3, <2>5, <2>6, <2>7
<1>4. CASE \/ x.run = "taken" /\ y = [x EXCEPT !.run = "current"]
           \/ x.run = "current" /\ y = [x EXCEPT !.run = "gap"]
  <2>3. /\ Busy(x) /\ Busy(y) /\ y.job = x.job /\ y.queue = x.queue /\ y.key = x.key
        /\ y.info = x.info /\ y.ctx = x.ctx /\ y.history = x.history /\ y \in PipeRecs
        /\ x.run # "stopped"
    BY <1>0, <1>4 DEF PipeRecs, PipeRuns, Busy
  <2>5. \A a : Finished(x, a) => Finished(y, a)
    BY <2>3 DEF Finished
  <2>6. PipeOK(y)
    BY <1>0, <2>3, <2>5 DEF PipeOK
  <2>7. \A a \in Acts : Holds(y, a) => Holds(x, a)
    BY <2>3 DEF Holds
  <2> QED BY <2>3, <2>5, <2>6, <2>7
<1>5. CASE /\ x.run = "gap"
           /\ y = [x EXCEPT !.run = IF x.job = ShutdownClose THEN "stopped" ELSE "idle",
                            !.job = None, !.history = AddToHistory(x.history, x.job)]
  <2> DEFINE h == AddToHistory(x.history, x.job)
  <2>1. Busy(x) /\ x.job \in ActIds /\ x.job \notin ToSet(x.queue) /\ x.job \notin ToSet(x.history)
    BY <1>0, <1>5 DEF PipeOK, Busy, Finished
  <2>2. /\ h \in Seq(ActIds) /\ Len(h) <= HistoryCap /\ Once(h)
        /\ ToSet(h) \subseteq ToSet(x.history) \cup {x.job}
    BY <1>0, <2>1, HistoryOnce
  <2> HIDE DEF h
  <2>3. /\ y.run = IF x.job = ShutdownClose THEN "stopped" ELSE "idle"
        /\ y.job = None /\ y.queue = x.queue /\ y.key = x.key
        /\ y.info = x.info /\ y.ctx = x.ctx /\ y.history = h
    BY <1>0, <1>5 DEF PipeRecs, h
  <2>4. y \in PipeRecs
    <3>1. y = [x EXCEPT !.run = IF x.job = ShutdownClose THEN "stopped" ELSE "idle",
                        !.job = None, !.history = h]
      BY <1>5 DEF h
    <3> QED BY <1>0, <2>2, <3>1 DEF PipeRecs, PipeRuns
  <2>5. ~Busy(y)
    BY <2>3 DEF Busy
  <2>6. \A a : Finished(x, a) => Finished(y, a)
    BY <1>5, <2>3, <2>5 DEF Finished
  <2>7. Finished(y, x.job)
    BY <2>1, <2>3, <2>5 DEF Finished
  <2>8. \A a \in ToSet(y.history) : Finished(y, a)
    BY <1>0, <2>2, <2>3, <2>6, <2>7
  <2>9. PipeOK(y)
    BY <1>0, <2>2, <2>3, <2>4, <2>5, <2>8 DEF PipeOK
  <2>10. \A a \in Acts : Holds(y, a) => Holds(x, a)
    BY <2>1, <2>2, <2>3, <2>5 DEF Holds
  <2> QED BY <2>3, <2>6, <2>9, <2>10
<1> QED BY <1>1, <1>2, <1>3, <1>4, <1>5 DEF Moves

\* A pipeline in use does not look like one that is not.
LEMMA UsedHasKey ==
    ASSUME NEW x, x \in PipeRecs
    PROVE  x # Unused
BY RegistryAssumption DEF PipeRecs, Unused

\* New settings or the end of the context leave the actions where they are.
LEMMA SettingsOnly ==
    ASSUME NEW x, NEW y \in PipeRecs, PipeOK(x), y.info.retry > 0, y.run = x.run,
           y.job = x.job, y.queue = x.queue, y.history = x.history
    PROVE  /\ PipeOK(y)
           /\ \A a : /\ Finished(y, a) <=> Finished(x, a)
                     /\ Holds(y, a) <=> Holds(x, a)
<1>1. \A a : Finished(y, a) <=> Finished(x, a)
  BY DEF Finished, Busy
<1>2. PipeOK(y)
  BY <1>1 DEF PipeOK, Busy
<1> QED BY <1>1, <1>2 DEF Holds, Busy

-----------------------------------------------------------------------------
(* Frames.                                                                 *)

\* Pipelines in use stay in use, under their key.
UsedKept == \A p \in Pipes : pipe[p] # Unused =>
    pipe'[p] # Unused /\ pipe'[p].key = pipe[p].key

\* What lookups rely on.
ActsKept ==
    /\ \A p \in Pipes : pipe[p] # Unused =>
          /\ pipe'[p] # Unused /\ pipe'[p].history = pipe[p].history
          /\ pipe'[p].run = pipe[p].run /\ pipe'[p].job = pipe[p].job
          /\ \A a : Finished(pipe[p], a) /\ (a \in Acts => call[a].pc = "accepted")
                       => Finished(pipe'[p], a)
    /\ \A a \in Acts : call[a].pc = "accepted" => call'[a].pc = "accepted"

\* A step that moves no action of a pipeline leaves the lookups under way valid.
LEMMA ReadersFrame ==
    ASSUME ReadersInv, ActsKept, UNCHANGED reader
    PROVE  ReadersInv'
<1> SUFFICES ASSUME NEW r \in Readers PROVE ReaderOK(reader[r])'
  BY DEF ReadersInv
<1> DEFINE x == reader[r]
<1>1. ReaderOK(x) /\ reader'[r] = x
  BY DEF ReadersInv
<1> HIDE DEF x
<1>2. CASE x.pc \in {"first", "second"}
  <2>1. x.pipe \in Pipes /\ LookupOK(x, pipe[x.pipe])
    BY <1>1, <1>2 DEF ReaderOK
  <2>2. LookupOK(reader[r], pipe[reader[r].pipe])'
    <3>1. pipe'[x.pipe] # Unused /\ (x.sure => Begun(pipe'[x.pipe], x.act))
      BY <1>2, <2>1 DEF LookupOK, ActsKept, Begun
    <3>2. x.pc = "second" /\ x.op # "get" =>
               \A a \in ToSet(x.got) : Finished(pipe'[x.pipe], a) /\ (a \in Acts => call'[a].pc = "accepted")
      BY <1>2, <2>1 DEF LookupOK, ActsKept
    <3>3. /\ x.pc = "second" /\ x.op = "get" /\ x.sure
          /\ pipe'[x.pipe].run = "current" /\ pipe'[x.pipe].job = x.act
          => x.act \in ToSet(x.got)
      BY <1>2, <2>1 DEF LookupOK, ActsKept
    <3>4. reader'[r] = x
      BY <1>1
    <3> QED BY <3>1, <3>2, <3>3, <3>4 DEF LookupOK
  <2> QED BY <1>1, <2>1, <2>2 DEF ReaderOK
<1>3. CASE x.pc \notin {"first", "second"}
  BY <1>1, <1>3 DEF ReaderOK
<1> QED BY <1>2, <1>3

\* What worker, maps and calls refer to stays valid while pipelines keep their keys.
LEMMA HeldFrame ==
    ASSUME UsedKept
    PROVE  /\ WorkInv /\ UNCHANGED work => WorkInv'
           /\ MapInv /\ UNCHANGED mapVars => MapInv'
           /\ CallInv /\ UNCHANGED call => CallInv'
<1>1. WorkInv /\ UNCHANGED work => WorkInv'
  BY DEF WorkInv, UsedKept
<1>2. MapInv /\ UNCHANGED mapVars => MapInv'
  BY DEF MapInv, UsedKept, mapVars
<1>3. CallInv /\ UNCHANGED call => CallInv'
  BY DEF CallInv, UsedKept
<1> QED BY <1>1, <1>2, <1>3

\* Steps that leave pipelines and API calls alone.
LEMMA QuietFrame ==
    ASSUME RegistryInv, UNCHANGED <<pipe, call, reader>>
    PROVE  UsedKept /\ ReadersInv' /\ PipesInv' /\ CallInv'
<1>1. UsedKept /\ ActsKept
  BY DEF UsedKept, ActsKept
<1>2. PipesInv'
  BY DEF RegistryInv, PipesInv
<1> QED BY <1>1, <1>2, ReadersFrame, HeldFrame DEF RegistryInv

\* A step that leaves maps, pipelines, calls and lookups alone keeps the invariant.
LEMMA QuietStep ==
    ASSUME RegistryInv, UNCHANGED <<pipe, call, reader>>,
           ClusterInv', WorkInv', MapInv', NoOrphanPipeline'
    PROVE  RegistryInv'
BY QuietFrame DEF RegistryInv

\* Steps of the cluster and the timers.
LEMMA ClusterFrame ==
    ASSUME RegistryInv, UNCHANGED <<work, pipelines, cancels, pipe, call, reader, phase>>, ClusterInv'
    PROVE  RegistryInv'
<1>1. UsedKept
  BY QuietFrame
<1>2. WorkInv' /\ MapInv'
  BY <1>1, HeldFrame DEF RegistryInv, mapVars
<1>3. NoOrphanPipeline'
  BY DEF RegistryInv, NoOrphanPipeline
<1> QED BY <1>2, <1>3, QuietStep

\* Changes are counted, so the counter stays within its bound.
LEMMA ChangedBound ==
    ASSUME changes \in 0 .. MaxChanges, Changed
    PROVE  changes' \in 0 .. MaxChanges
BY RegistryAssumption DEF Changed

-----------------------------------------------------------------------------
(* The cluster.                                                            *)

\* Changes of valves, devices and bridges keep the invariant.
LEMMA ClusterKeeps ==
    ASSUME RegistryInv, ClusterNext
    PROVE  RegistryInv'
<1>0. ClusterInv /\ changes \in 0 .. MaxChanges /\ workqueue \in Seq(Keys)
  BY DEF RegistryInv, ClusterInv
<1>1. ASSUME NEW k \in Keys, ChangeValve(k) PROVE RegistryInv'
  <2>1. changes' \in 0 .. MaxChanges
    BY <1>0, <1>1, ChangedBound DEF ChangeValve
  <2>2. workqueue' \in Seq(Keys)
    BY <1>0, <1>1, AddType DEF ChangeValve
  <2>3. valve' \in [Keys -> Valves \cup {None}]
    <3>0. valve \in [Keys -> Valves \cup {None}] /\ valve[k] \in Valves \cup {None}
      BY <1>0 DEF ClusterInv
    <3>1. ASSUME NEW s \in ValveSpecs,
                 valve' = [valve EXCEPT ![k] =
                  IF valve[k] = None THEN [spec |-> s, deleting |-> FALSE, ready |-> FALSE]
                              ELSE [valve[k] EXCEPT !.spec = s]]
          PROVE  valve' \in [Keys -> Valves \cup {None}]
      <4>1. CASE valve[k] = None
        <5>1. [spec |-> s, deleting |-> FALSE, ready |-> FALSE] \in Valves
          BY DEF Valves
        <5> QED BY <3>0, <3>1, <4>1, <5>1
      <4>2. CASE valve[k] # None
        <5>1. [valve[k] EXCEPT !.spec = s] \in Valves
          BY <3>0, <4>2 DEF Valves
        <5> QED BY <3>0, <3>1, <4>2, <5>1
      <4> QED BY <4>1, <4>2
    <3>2. ASSUME valve[k] # None, valve' = [valve EXCEPT ![k].deleting = TRUE]
          PROVE  valve' \in [Keys -> Valves \cup {None}]
      <4>1. [valve[k] EXCEPT !.deleting = TRUE] \in Valves
        BY <3>0, <3>2 DEF Valves
      <4> QED BY <3>0, <3>2, <4>1
    <3>3. ASSUME valve' = [valve EXCEPT ![k] = None] PROVE valve' \in [Keys -> Valves \cup {None}]
      BY <3>0, <3>3
    <3> QED BY <1>1, <3>1, <3>2, <3>3 DEF ChangeValve
  <2>4. UNCHANGED <<device, bridge, missed, delayed, work, pipelines, cancels, pipe, call, reader, phase>>
    BY <1>1 DEF ChangeValve, mapVars, apiVars
  <2>5. ClusterInv'
    BY <1>0, <2>1, <2>2, <2>3, <2>4 DEF ClusterInv
  <2> QED BY <2>4, <2>5, ClusterFrame
<1>2. ASSUME NEW d \in Devices, ChangeDevice(d) PROVE RegistryInv'
  <2>1. changes' \in 0 .. MaxChanges
    BY <1>0, <1>2, ChangedBound DEF ChangeDevice
  <2>2. PICK s \in DeviceSpecs \cup {None} :
          /\ device' = [device EXCEPT ![d] = s]
          /\ Add(MapDeviceToValve(device[d]) \cup MapDeviceToValve(s))
    BY <1>2 DEF ChangeDevice
  <2>3. workqueue' \in Seq(Keys)
    BY <1>0, <2>2, AddType
  <2>4. UNCHANGED <<valve, bridge, missed, delayed, work, pipelines, cancels, pipe, call, reader, phase>>
    BY <1>2 DEF ChangeDevice, mapVars, apiVars
  <2>5. ClusterInv'
    BY <1>0, <2>1, <2>2, <2>3, <2>4 DEF ClusterInv
  <2> QED BY <2>4, <2>5, ClusterFrame
<1>3. ASSUME NEW b \in Bridges, NEW listed \in BOOLEAN, ChangeBridge(b, listed) PROVE RegistryInv'
  <2>1. changes' \in 0 .. MaxChanges
    BY <1>0, <1>3, ChangedBound DEF ChangeBridge
  <2>2. PICK s \in BridgeSpecs \cup {None} : bridge' = [bridge EXCEPT ![b] = s]
    BY <1>3 DEF ChangeBridge
  <2>3. workqueue' \in Seq(Keys)
    BY <1>0, <1>3, AddType DEF ChangeBridge
  <2>4. /\ UNCHANGED <<valve, device, delayed, work, pipelines, cancels, pipe, call, reader, phase>>
        /\ missed' \in BOOLEAN
    BY <1>3, Zenon DEF ChangeBridge, mapVars, apiVars
  <2>5. ClusterInv'
    BY <1>0, <2>1, <2>2, <2>3, <2>4 DEF ClusterInv
  <2> QED BY <2>4, <2>5, ClusterFrame
<1> QED BY <1>1, <1>2, <1>3 DEF ClusterNext

\* So does the timer of RequeueAfter.
LEMMA TimerKeeps ==
    ASSUME RegistryInv, NEW k \in Keys, RequeueTimer(k)
    PROVE  RegistryInv'
<1>0. ClusterInv /\ workqueue \in Seq(Keys)
  BY DEF RegistryInv, ClusterInv
<1>1. workqueue' \in Seq(Keys)
  BY <1>0, AddType DEF RequeueTimer
<1>2. /\ UNCHANGED <<valve, device, bridge, changes, missed, work, pipelines, cancels, pipe, call, reader, phase>>
      /\ delayed' \subseteq delayed
  BY DEF RequeueTimer, clusterVars, mapVars, apiVars
<1>3. ClusterInv'
  BY <1>0, <1>1, <1>2 DEF ClusterInv
<1> QED BY <1>2, <1>3, ClusterFrame

-----------------------------------------------------------------------------
(* The worker.                                                             *)

\* Steps between reads: no pipeline, no map.
LEMMA ReadStepKeeps ==
    ASSUME RegistryInv, UNCHANGED <<pipelines, cancels, pipe, call, reader, phase>>,
           work.pc # "cancel", ClusterInv', WorkInv'
    PROVE  RegistryInv'
<1>1. MapInv'
  BY QuietFrame, HeldFrame DEF RegistryInv, mapVars
<1>2. NoOrphanPipeline'
  BY DEF RegistryInv, NoOrphanPipeline
<1> QED BY <1>1, <1>2, QuietStep

\* A worker that is idle owes nothing.
LEMMA IdleWork == work' = Idle => WorkInv'
BY DEF WorkInv, Idle

\* A read that fails counts as a change and keeps the types.
LEMMA ReadOutcomeType ==
    ASSUME ClusterInv, NEW ok \in BOOLEAN, ReadOutcome(ok), workqueue' \in Seq(Keys),
           delayed' \subseteq Keys, UNCHANGED phase
    PROVE  ClusterInv'
<1>1. changes' \in 0 .. MaxChanges
  BY ChangedBound DEF ClusterInv, ReadOutcome
<1> QED BY <1>1 DEF ClusterInv, ReadOutcome

\* Reconcile reads the valve, and takes a deleted one out of the maps.
LEMMA GetValveKeeps ==
    ASSUME RegistryInv, GetValve
    PROVE  RegistryInv'
<1> DEFINE k == Head(workqueue)
<1>0. ClusterInv /\ WorkInv /\ MapInv /\ PipesInv /\ NoOrphanPipeline
  BY DEF RegistryInv
<1>1. /\ work.pc = "idle" /\ workqueue # <<>> /\ workqueue' = Tail(workqueue)
      /\ UNCHANGED <<valve, device, bridge, changes, missed, delayed, pipe, call, reader, phase>>
  BY DEF GetValve, clusterVars, apiVars
<1>2. k \in Keys /\ workqueue' \in Seq(Keys)
  BY <1>0, <1>1, HeadTailProperties DEF ClusterInv
<1> HIDE DEF k
<1>3. ClusterInv'
  BY <1>0, <1>1, <1>2 DEF ClusterInv
<1>4. CASE valve[k] = None /\ UNCHANGED <<work, mapVars>>
  BY <1>1, <1>3, <1>4, ClusterFrame DEF mapVars
<1>5. CASE /\ valve[k] # None /\ valve[k].deleting
           /\ work' = IF cancels[k] = None THEN Idle
                      ELSE [pc |-> "cancel", key |-> k, read |-> cancels[k]]
           /\ pipelines' = [pipelines EXCEPT ![k] = None]
           /\ cancels' = [cancels EXCEPT ![k] = None]
  <2>1. MapInv'
    BY <1>0, <1>1, <1>2, <1>5 DEF MapInv
  <2>2. WorkInv'
    <3>1. CASE cancels[k] = None
      BY <1>5, <3>1, IdleWork
    <3>2. CASE cancels[k] # None
      <4>1. cancels[k] \in Pipes /\ pipe[cancels[k]] # Unused
        BY <1>0, <1>2, <3>2 DEF MapInv
      <4> QED BY <1>1, <1>2, <1>5, <3>2, <4>1 DEF WorkInv
    <3> QED BY <3>1, <3>2
  <2>3. NoOrphanPipeline'
    <3> SUFFICES ASSUME NEW p \in Pipes, phase = "run", pipe[p].ctx = "live"
                 PROVE  \/ pipelines'[pipe[p].key] = p /\ cancels'[pipe[p].key] = p
                        \/ work'.pc = "cancel" /\ work'.read = p
      BY <1>1 DEF NoOrphanPipeline
    <3>1. pipelines[pipe[p].key] = p /\ cancels[pipe[p].key] = p
      BY <1>0, <1>1 DEF NoOrphanPipeline
    <3>2. CASE pipe[p].key = k
      <4>1. cancels[k] # None
        BY <3>1, <3>2, RegistryAssumption
      <4> QED BY <1>5, <3>1, <3>2, <4>1
    <3>3. CASE pipe[p].key # k
      <4>1. pipe[p] # Unused
        BY DEF Unused
      <4>2. pipe[p].key \in Keys
        BY <1>0, <4>1 DEF PipesInv, PipeOK, PipeRecs
      <4> QED BY <1>0, <1>5, <3>1, <3>3, <4>2 DEF MapInv
    <3> QED BY <3>2, <3>3
  <2> QED BY <1>1, <1>3, <2>1, <2>2, <2>3, QuietStep
<1>6. CASE /\ valve[k] # None /\ ~valve[k].deleting
           /\ work' = [pc |-> "device", key |-> k, read |-> valve[k].spec]
           /\ UNCHANGED mapVars
  <2>1. valve[k].spec \in ValveSpecs
    BY <1>0, <1>2, <1>6 DEF ClusterInv, Valves
  <2>2. WorkInv'
    BY <1>2, <1>6, <2>1 DEF WorkInv
  <2> QED BY <1>1, <1>3, <1>6, <2>2, ReadStepKeeps DEF mapVars
<1> QED BY <1>4, <1>5, <1>6 DEF GetValve, k

\* The read fails, and the valve is tried again.
LEMMA GetValveFailsKeeps ==
    ASSUME RegistryInv, GetValveFails
    PROVE  RegistryInv'
<1>0. ClusterInv /\ workqueue \in Seq(Keys) /\ delayed \subseteq Keys
  BY DEF RegistryInv, ClusterInv
<1>1. /\ workqueue # <<>> /\ workqueue' = Tail(workqueue)
      /\ delayed' \subseteq delayed \cup {Head(workqueue)}
      /\ ReadOutcome(FALSE) /\ UNCHANGED <<work, pipelines, cancels, pipe, call, reader, phase>>
  BY DEF GetValveFails, AddAfter, mapVars, apiVars
<1>2. Head(workqueue) \in Keys /\ workqueue' \in Seq(Keys)
  BY <1>0, <1>1, HeadTailProperties
<1>3. ClusterInv'
  BY <1>0, <1>1, <1>2, ReadOutcomeType
<1> QED BY <1>1, <1>3, ClusterFrame

\* Reconcile looks for the device that names the valve.
LEMMA FindDeviceKeeps ==
    ASSUME RegistryInv, NEW listed \in BOOLEAN, FindDevice(listed)
    PROVE  RegistryInv'
<1>0. ClusterInv /\ WorkInv /\ workqueue \in Seq(Keys) /\ delayed \subseteq Keys
  BY DEF RegistryInv, ClusterInv
<1>1. /\ work.pc = "device" /\ ReadOutcome(listed)
      /\ UNCHANGED <<workqueue, pipelines, cancels, pipe, call, reader, phase>>
  BY DEF FindDevice, mapVars, apiVars
<1>2. work.key \in Keys /\ work.read \in ValveSpecs
  BY <1>0, <1>1 DEF WorkInv
<1>3. CASE Requeue
  <2>1. work' = Idle /\ delayed' \subseteq Keys
    BY <1>0, <1>2, <1>3 DEF Requeue, AddAfter
  <2> QED BY <1>0, <1>1, <2>1, ReadOutcomeType, IdleWork, ReadStepKeeps
<1>4. ASSUME NEW d \in Devices, device[d] # None, UNCHANGED delayed,
             work' = [work EXCEPT !.pc = "bridge",
                          !.read = [spec |-> work.read, target |-> d, dev |-> device[d]]]
      PROVE  RegistryInv'
  <2>1. device[d] \in DeviceSpecs
    BY <1>0, <1>4 DEF ClusterInv
  <2> DEFINE x == [spec |-> work.read, target |-> d, dev |-> device[d]]
  <2>2. x \in [spec : ValveSpecs, target : Devices, dev : DeviceSpecs]
    BY <1>2, <2>1
  <2> HIDE DEF x
  <2>3. work' = [pc |-> "bridge", key |-> work.key, read |-> x]
    BY <1>0, <1>4 DEF WorkInv, x
  <2>4. WorkInv'
    BY <1>2, <2>2, <2>3 DEF WorkInv
  <2> QED BY <1>0, <1>1, <1>4, <2>4, ReadOutcomeType, ReadStepKeeps
<1> QED BY <1>3, <1>4 DEF FindDevice

\* Reconcile reads the device's bridge.
LEMMA GetBridgeKeeps ==
    ASSUME RegistryInv, NEW ok \in BOOLEAN, GetBridge(ok)
    PROVE  RegistryInv'
<1>0. ClusterInv /\ WorkInv /\ workqueue \in Seq(Keys) /\ delayed \subseteq Keys
  BY DEF RegistryInv, ClusterInv
<1>1. /\ work.pc = "bridge" /\ ReadOutcome(ok)
      /\ UNCHANGED <<workqueue, pipelines, cancels, pipe, call, reader, phase>>
  BY DEF GetBridge, mapVars, apiVars
<1>2. work.key \in Keys /\ work.read \in [spec : ValveSpecs, target : Devices, dev : DeviceSpecs]
  BY <1>0, <1>1 DEF WorkInv
<1>3. CASE Requeue
  <2>1. work' = Idle /\ delayed' \subseteq Keys
    BY <1>0, <1>2, <1>3 DEF Requeue, AddAfter
  <2> QED BY <1>0, <1>1, <2>1, ReadOutcomeType, IdleWork, ReadStepKeeps
<1>4. CASE /\ bridge[work.read.dev.bridge] # None /\ UNCHANGED delayed
           /\ work' = [work EXCEPT !.pc = "register", !.read = ValveInfo(work.read)]
  <2> DEFINE x == ValveInfo(work.read)
  <2>1. work.read.spec \in ValveSpecs /\ work.read.target \in Devices /\ work.read.dev \in DeviceSpecs
    BY <1>2
  <2>2. /\ work.read.spec.retry \in Nat /\ work.read.spec.disabled \in BOOLEAN
        /\ work.read.dev.bridge \in Bridges /\ work.read.dev.disabled \in BOOLEAN
    BY <2>1, RegistryAssumption
  <2>3. bridge[work.read.dev.bridge] \in BridgeSpecs
    BY <1>0, <1>4, <2>2 DEF ClusterInv
  <2>4. RetryCount(work.read.spec) \in Nat /\ RetryCount(work.read.spec) > 0
    BY <2>2 DEF RetryCount
  <2>5. (work.read.spec.disabled \/ work.read.dev.disabled) \in BOOLEAN
    BY <2>2
  <2>6. x \in Infos /\ x.retry > 0
    BY <2>1, <2>3, <2>4, <2>5 DEF ValveInfo, Infos
  <2> HIDE DEF x
  <2>7. work' = [pc |-> "register", key |-> work.key, read |-> x]
    BY <1>0, <1>4 DEF WorkInv, x
  <2>8. WorkInv'
    BY <1>2, <2>6, <2>7 DEF WorkInv
  <2> QED BY <1>0, <1>1, <1>4, <2>8, ReadOutcomeType, ReadStepKeeps
<1> QED BY <1>3, <1>4 DEF GetBridge

\* Reconcile ends with the condition it reports.
LEMMA PatchReadyKeeps ==
    ASSUME RegistryInv, NEW ok \in BOOLEAN, PatchReady(ok)
    PROVE  RegistryInv'
<1> DEFINE k == work.key
           change == ok /\ valve[k] # None /\ ~valve[k].ready
<1>0. ClusterInv /\ WorkInv /\ workqueue \in Seq(Keys)
  BY DEF RegistryInv, ClusterInv
<1>1. /\ work.pc = "ready" /\ work' = Idle
      /\ UNCHANGED <<device, bridge, changes, missed, delayed, pipelines, cancels, pipe, call, reader, phase>>
      /\ valve' = IF change THEN [valve EXCEPT ![k].ready = TRUE] ELSE valve
  BY DEF PatchReady, mapVars, apiVars
<1>2. workqueue' \in Seq(Keys)
  BY <1>0, AddType DEF PatchReady
<1>3. k \in Keys
  BY <1>0, <1>1 DEF WorkInv
<1>4. valve' \in [Keys -> Valves \cup {None}]
  <2>0. valve \in [Keys -> Valves \cup {None}]
    BY <1>0 DEF ClusterInv
  <2> HIDE DEF k
  <2>1. CASE change
    <3>1. [valve[k] EXCEPT !.ready = TRUE] \in Valves
      BY <1>3, <2>0, <2>1 DEF Valves
    <3> QED BY <1>1, <2>0, <2>1, <3>1
  <2>2. CASE ~change
    BY <1>1, <2>0, <2>2
  <2> QED BY <2>1, <2>2
<1>5. ClusterInv'
  BY <1>0, <1>1, <1>2, <1>4 DEF ClusterInv
<1> QED BY <1>1, <1>5, IdleWork, ReadStepKeeps

\* Pipeline x becomes y, with other settings or another context.
SameActs(x, y) ==
    /\ y \in PipeRecs /\ y.info.retry > 0 /\ y.key = x.key
    /\ y.run = x.run /\ y.job = x.job /\ y.queue = x.queue /\ y.history = x.history

\* Steps that start pipelines or change their settings and contexts.
LEMMA SettingsStep ==
    ASSUME RegistryInv, UNCHANGED <<call, reader>>, pipe' = [p \in Pipes |-> pipe'[p]],
           \A p \in Pipes :
              IF pipe[p] # Unused THEN SameActs(pipe[p], pipe'[p])
              ELSE pipe'[p] = Unused \/ (PipeOK(pipe'[p]) /\ \A a \in Acts : ~Holds(pipe'[p], a))
    PROVE  UsedKept /\ PipesInv' /\ CallInv' /\ ReadersInv'
<1>1. ASSUME NEW p \in Pipes, pipe[p] # Unused
      PROVE  /\ PipeOK(pipe'[p]) /\ pipe'[p] # Unused /\ pipe'[p].key = pipe[p].key
             /\ pipe'[p].history = pipe[p].history
             /\ pipe'[p].run = pipe[p].run /\ pipe'[p].job = pipe[p].job
             /\ \A a : /\ Finished(pipe'[p], a) <=> Finished(pipe[p], a)
                       /\ Holds(pipe'[p], a) <=> Holds(pipe[p], a)
  <2>1. PipeOK(pipe[p]) /\ SameActs(pipe[p], pipe'[p])
    BY <1>1 DEF RegistryInv, PipesInv
  <2> DEFINE x == pipe[p]
             y == pipe'[p]
  <2> HIDE DEF x, y
  <2>2. PipeOK(x) /\ SameActs(x, y)
    BY <2>1 DEF x, y
  <2>3. y # Unused
    BY <2>2, UsedHasKey DEF SameActs
  <2>4. PipeOK(y) /\ \A a : /\ Finished(y, a) <=> Finished(x, a)
                            /\ Holds(y, a) <=> Holds(x, a)
    BY <2>2, SettingsOnly DEF SameActs
  <2> QED BY <2>2, <2>3, <2>4 DEF SameActs, x, y
<1>2. UsedKept
  BY <1>1 DEF UsedKept
<1>3. ActsKept
  BY <1>1 DEF ActsKept
<1>4. PipesInv'
  <2> SUFFICES ASSUME NEW p \in Pipes, pipe'[p] # Unused
               PROVE  PipeOK(pipe'[p]) /\ \A a \in Acts : Holds(pipe'[p], a) => call[a].pc = "accepted"
    BY DEF PipesInv
  <2>1. CASE pipe[p] # Unused
    BY <1>1, <2>1 DEF RegistryInv, PipesInv
  <2>2. CASE pipe[p] = Unused
    BY <2>2
  <2> QED BY <2>1, <2>2
<1> QED BY <1>2, <1>3, <1>4, HeldFrame, ReadersFrame DEF RegistryInv

\* DeregisterValve ends the context of what it took out of the maps.
LEMMA CancelKeeps ==
    ASSUME RegistryInv, Cancel
    PROVE  RegistryInv'
<1> DEFINE q == work.read
<1>0. ClusterInv /\ WorkInv /\ MapInv /\ PipesInv /\ NoOrphanPipeline
  BY DEF RegistryInv
<1>1. /\ work.pc = "cancel" /\ work' = Idle /\ pipe' = [pipe EXCEPT ![q].ctx = "done"]
      /\ UNCHANGED <<valve, device, bridge, changes, missed, workqueue, delayed, pipelines, cancels, call, reader, phase>>
  BY DEF Cancel, clusterVars, queueVars, mapVars, apiVars
<1>2. q \in Pipes /\ pipe[q] # Unused
  BY <1>0, <1>1 DEF WorkInv
<1>21. pipe = [p \in Pipes |-> pipe[p]]
  BY <1>0 DEF PipesInv
<1> HIDE DEF q
<1>3. pipe' = [p \in Pipes |-> pipe'[p]] /\ pipe'[q] = [pipe[q] EXCEPT !.ctx = "done"]
      /\ \A p \in Pipes : p # q => pipe'[p] = pipe[p]
  BY <1>1, <1>2, <1>21
<1>4. ASSUME NEW p \in Pipes, pipe[p] # Unused PROVE SameActs(pipe[p], pipe'[p])
  <2>1. PipeOK(pipe[p])
    BY <1>0, <1>4 DEF PipesInv
  <2>2. CASE p = q
    BY <1>3, <2>1, <2>2 DEF SameActs, PipeOK, PipeRecs
  <2>3. CASE p # q
    BY <1>3, <2>1, <2>3 DEF SameActs, PipeOK
  <2> QED BY <2>2, <2>3
<1>5. UsedKept /\ PipesInv' /\ CallInv' /\ ReadersInv'
  BY <1>1, <1>2, <1>3, <1>4, SettingsStep
<1>6. ClusterInv'
  BY <1>0, <1>1 DEF ClusterInv
<1>7. MapInv'
  BY <1>0, <1>1, <1>5, HeldFrame DEF mapVars
<1>8. NoOrphanPipeline'
  <2> SUFFICES ASSUME NEW p \in Pipes, phase = "run", pipe'[p].ctx = "live"
               PROVE  pipelines[pipe'[p].key] = p /\ cancels[pipe'[p].key] = p
    BY <1>1 DEF NoOrphanPipeline
  <2>1. p # q
    <3>1. pipe[q] \in PipeRecs
      BY <1>0, <1>2 DEF PipesInv, PipeOK
    <3>2. pipe'[q].ctx = "done"
      BY <1>3, <3>1 DEF PipeRecs
    <3> QED BY <3>2
  <2>2. pipe'[p] = pipe[p]
    BY <1>3, <2>1
  <2> QED BY <1>0, <2>1, <2>2 DEF NoOrphanPipeline, q
<1> QED BY <1>1, <1>5, <1>6, <1>7, <1>8, IdleWork DEF RegistryInv

\* A key that is registered gets new parameters, any other a new pipeline.
LEMMA RegisterValveKeeps ==
    ASSUME RegistryInv, RegisterValve
    PROVE  RegistryInv'
<1> DEFINE k == work.key
           i == work.read
<1>0. ClusterInv /\ WorkInv /\ MapInv /\ PipesInv /\ NoOrphanPipeline
  BY DEF RegistryInv
<1>1. /\ work.pc = "register" /\ work' = [work EXCEPT !.pc = "ready", !.read = None]
      /\ UNCHANGED <<valve, device, bridge, changes, missed, workqueue, delayed, call, reader, phase>>
  BY DEF RegisterValve, clusterVars, queueVars, apiVars
<1>2. k \in Keys /\ i \in Infos /\ i.retry > 0
  BY <1>0, <1>1 DEF WorkInv
<1>3. work' = [pc |-> "ready", key |-> k, read |-> None]
  BY <1>0, <1>1 DEF WorkInv
<1>4. ClusterInv'
  BY <1>0, <1>1 DEF ClusterInv
<1>5. pipe = [p \in Pipes |-> pipe[p]]
  BY <1>0 DEF PipesInv
<1>6. WorkInv'
  BY <1>2, <1>3 DEF WorkInv
<1>7. CASE pipelines[k] # None
  <2> DEFINE q == pipelines[k]
  <2>1. pipe' = [pipe EXCEPT ![q].info = i] /\ UNCHANGED <<pipelines, cancels>>
    BY <1>7 DEF RegisterValve, mapVars
  <2>2. q \in Pipes /\ pipe[q] # Unused
    BY <1>0, <1>2, <1>7 DEF MapInv
  <2> HIDE DEF q, k, i
  <2>3. pipe' = [p \in Pipes |-> pipe'[p]] /\ pipe'[q] = [pipe[q] EXCEPT !.info = i]
        /\ \A p \in Pipes : p # q => pipe'[p] = pipe[p]
    BY <1>5, <2>1, <2>2
  <2>4. ASSUME NEW p \in Pipes, pipe[p] # Unused
        PROVE  SameActs(pipe[p], pipe'[p]) /\ pipe'[p].ctx = pipe[p].ctx
    <3>1. PipeOK(pipe[p])
      BY <1>0, <2>4 DEF PipesInv
    <3>2. CASE p = q
      BY <1>2, <2>3, <3>1, <3>2 DEF SameActs, PipeOK, PipeRecs
    <3>3. CASE p # q
      BY <2>3, <3>1, <3>3 DEF SameActs, PipeOK
    <3> QED BY <3>2, <3>3
  <2>5. UsedKept /\ PipesInv' /\ CallInv' /\ ReadersInv'
    BY <1>1, <2>2, <2>3, <2>4, SettingsStep
  <2>6. MapInv'
    BY <1>0, <2>1, <2>5, HeldFrame DEF mapVars
  <2>7. NoOrphanPipeline'
    <3> SUFFICES ASSUME NEW p \in Pipes, phase = "run", pipe'[p].ctx = "live"
                 PROVE  pipelines[pipe'[p].key] = p /\ cancels[pipe'[p].key] = p
      BY <1>1, <2>1 DEF NoOrphanPipeline
    <3>1. CASE pipe[p] = Unused
      BY <2>2, <2>3, <3>1 DEF Unused
    <3>2. CASE pipe[p] # Unused
      BY <1>0, <1>1, <2>4, <3>2 DEF NoOrphanPipeline, SameActs
    <3> QED BY <3>1, <3>2
  <2> QED BY <1>4, <1>6, <2>5, <2>6, <2>7 DEF RegistryInv
<1>8. CASE pipelines[k] = None
  <2> DEFINE c == IF phase = "run" THEN "live" ELSE "done"
  <2>1. PICK q \in Pipes :
            /\ pipe[q] = Unused
            /\ pipelines' = [pipelines EXCEPT ![k] = q]
            /\ cancels' = [cancels EXCEPT ![k] = q]
            /\ pipe' = [pipe EXCEPT ![q] =
                 [key |-> k, info |-> i, ctx |-> c, run |-> "idle", job |-> None,
                  queue |-> <<>>, history |-> <<>>]]
    BY <1>8 DEF RegisterValve
  <2> DEFINE x == [key |-> k, info |-> i, ctx |-> c, run |-> "idle", job |-> None,
                   queue |-> <<>>, history |-> <<>>]
  <2> HIDE DEF k, i
  <2>2. c \in {"live", "done"}
    OBVIOUS
  <2> HIDE DEF c
  <2>3. /\ x.key = k /\ x.info = i /\ x.run = "idle" /\ x.queue = <<>> /\ x.history = <<>>
        /\ x \in PipeRecs
    BY <1>2, <2>2 DEF PipeRecs, PipeRuns
  <2> HIDE DEF x
  <2>4. ~Busy(x) /\ ToSet(x.queue) = {} /\ ToSet(x.history) = {} /\ Once(x.queue) /\ Once(x.history)
    BY <2>3, ToSetEmpty DEF Busy
  <2>5. PipeOK(x) /\ \A a \in Acts : ~Holds(x, a)
    <3>1. Len(x.history) <= HistoryCap
      BY <2>3, RegistryAssumption
    <3> QED BY <1>2, <2>3, <2>4, <3>1 DEF PipeOK, Holds
  <2>6. pipe' = [p \in Pipes |-> pipe'[p]] /\ pipe'[q] = x /\ \A p \in Pipes : p # q => pipe'[p] = pipe[p]
    BY <1>5, <2>1 DEF x
  <2>7. ASSUME NEW p \in Pipes, pipe[p] # Unused PROVE SameActs(pipe[p], pipe'[p])
    <3>1. PipeOK(pipe[p]) /\ pipe'[p] = pipe[p]
      BY <1>0, <2>1, <2>6, <2>7 DEF PipesInv
    <3> QED BY <3>1 DEF SameActs, PipeOK
  <2>8. UsedKept /\ PipesInv' /\ CallInv' /\ ReadersInv'
    BY <1>1, <2>1, <2>5, <2>6, <2>7, SettingsStep
  <2>9. MapInv'
    <3>1. x # Unused
      BY <2>3, UsedHasKey
    <3>2. pipelines' \in [Keys -> Pipes \cup {None}] /\ cancels' = pipelines'
      BY <1>0, <2>1 DEF MapInv
    <3>3. ASSUME NEW j \in Keys, pipelines'[j] # None
          PROVE  pipe'[pipelines'[j]] # Unused /\ pipe'[pipelines'[j]].key = j
      <4>1. CASE j = k
        BY <1>0, <2>1, <2>3, <2>6, <3>1, <4>1 DEF MapInv
      <4>2. CASE j # k
        <5>1. pipelines'[j] = pipelines[j]
          BY <1>0, <2>1, <4>2 DEF MapInv
        <5>2. pipelines[j] \in Pipes /\ pipe[pipelines[j]] # Unused /\ pipe[pipelines[j]].key = j
          BY <1>0, <3>3, <5>1 DEF MapInv
        <5> QED BY <2>8, <5>1, <5>2 DEF UsedKept
      <4> QED BY <4>1, <4>2
    <3> QED BY <3>2, <3>3 DEF MapInv
  <2>10. NoOrphanPipeline'
    <3> SUFFICES ASSUME NEW p \in Pipes, phase = "run", pipe'[p].ctx = "live"
                 PROVE  pipelines'[pipe'[p].key] = p /\ cancels'[pipe'[p].key] = p
      BY <1>1 DEF NoOrphanPipeline
    <3>1. CASE p = q
      BY <1>0, <1>2, <2>1, <2>3, <2>6, <3>1 DEF MapInv
    <3>2. CASE p # q
      <4>1. pipe'[p] = pipe[p]
        BY <2>6, <3>2
      <4>2. pipelines[pipe[p].key] = p /\ cancels[pipe[p].key] = p
        BY <1>0, <1>1, <4>1 DEF NoOrphanPipeline
      <4>3. pipe[p] # Unused
        BY <4>1 DEF Unused
      <4>4. pipe[p].key \in Keys
        BY <1>0, <4>3 DEF PipesInv, PipeOK, PipeRecs
      <4>5. pipe[p].key # k
        BY <1>8, <4>2, RegistryAssumption DEF k
      <4> QED BY <1>0, <2>1, <4>1, <4>2, <4>4, <4>5 DEF MapInv
    <3> QED BY <3>1, <3>2
  <2> QED BY <1>4, <1>6, <2>8, <2>9, <2>10 DEF RegistryInv
<1> QED BY <1>7, <1>8

\* Every step of the worker keeps the invariant.
LEMMA WorkerKeeps ==
    ASSUME RegistryInv, WorkerNext
    PROVE  RegistryInv'
BY GetValveKeeps, GetValveFailsKeeps, CancelKeeps, RegisterValveKeeps, FindDeviceKeeps,
   GetBridgeKeeps, PatchReadyKeeps DEF WorkerNext

-----------------------------------------------------------------------------
(* The run goroutines.                                                     *)

\* A lookup whose pipeline moves on: what has begun does not become current again.
LEMMA LookupMoves ==
    ASSUME NEW x \in ReaderRecs, NEW w \in ReaderRecs, NEW y, NEW z, PipeOK(y), Moves(y, z), LookupOK(x, y),
           w.pc = x.pc, w.op = x.op, w.act = x.act, w.got = x.got,
           w.sure = (x.sure /\ Begun(z, x.act))
    PROVE  LookupOK(w, z)
<1>1. PipeOK(z) /\ \A a : Finished(y, a) => Finished(z, a)
  BY MovesOK
<1>2. z.run = "current" => y.run = "taken" /\ z.job = y.job
  BY DEF Moves, PipeOK, PipeRecs
<1>3. z # Unused
  BY <1>1, UsedHasKey DEF PipeOK
<1>4. w.sure => Begun(y, x.act) /\ Begun(z, x.act)
  BY DEF LookupOK
<1>5. ~(w.sure /\ z.run = "current" /\ z.job = w.act)
  BY <1>2, <1>4 DEF Begun, PipeOK, Finished, Busy
<1>6. w.pc = "second" /\ w.op # "get" =>
          \A a \in ToSet(w.got) : Finished(z, a) /\ (a \in Acts => call[a].pc = "accepted")
  BY <1>1 DEF LookupOK
<1> QED BY <1>3, <1>4, <1>5, <1>6 DEF LookupOK

\* So does every step of a pipeline, also for the lookups under way.
LEMMA PipeKeeps ==
    ASSUME RegistryInv, NEW p \in Pipes, PipeNext(p)
    PROVE  RegistryInv'
<1>0. ClusterInv /\ WorkInv /\ MapInv /\ PipesInv /\ CallInv /\ ReadersInv /\ NoOrphanPipeline
  BY DEF RegistryInv
<1>1. PICK y : Moves(pipe[p], y) /\ PipeStep(p, y)
  BY PipeNextMoves
<1>2. /\ pipe' = [pipe EXCEPT ![p] = y]
      /\ reader' = [r \in Readers |->
                      IF reader[r].pipe = p
                      THEN [reader[r] EXCEPT !.sure = reader[r].sure /\ Begun(y, reader[r].act)]
                      ELSE reader[r]]
      /\ UNCHANGED <<valve, device, bridge, changes, missed, workqueue, delayed, work, pipelines, cancels, call, phase>>
  BY <1>1 DEF PipeStep, clusterVars, queueVars, mapVars
<1>3. pipe[p] # Unused
  BY PipeNextMoves DEF Unused
<1>4. PipeOK(pipe[p])
  BY <1>0, <1>3 DEF PipesInv
<1> DEFINE x == pipe[p]
<1> HIDE DEF x
<1>5. PipeOK(x) /\ Moves(x, y)
  BY <1>1, <1>4 DEF x
<1>6. /\ PipeOK(y) /\ y.key = x.key /\ y.ctx = x.ctx
      /\ \A a \in Acts : Holds(y, a) => Holds(x, a)
  BY <1>5, MovesOK
<1>7. y # Unused
  BY <1>6, UsedHasKey DEF PipeOK
<1>8. pipe' = [q \in Pipes |-> pipe'[q]] /\ pipe'[p] = y /\ \A q \in Pipes : q # p => pipe'[q] = pipe[q]
  BY <1>0, <1>2 DEF PipesInv
<1>9. UsedKept
  BY <1>6, <1>7, <1>8 DEF UsedKept, x
<1>10. PipesInv'
  <2> SUFFICES ASSUME NEW q \in Pipes, pipe'[q] # Unused
               PROVE  PipeOK(pipe'[q]) /\ \A a \in Acts : Holds(pipe'[q], a) => call[a].pc = "accepted"
    BY <1>2, <1>8 DEF PipesInv
  <2>1. CASE q = p
    BY <1>0, <1>3, <1>6, <1>8, <2>1 DEF PipesInv, x
  <2>2. CASE q # p
    BY <1>0, <1>8, <2>2 DEF PipesInv
  <2> QED BY <2>1, <2>2
<1>11. WorkInv' /\ MapInv' /\ CallInv'
  BY <1>0, <1>2, <1>9, HeldFrame DEF mapVars
<1>12. ClusterInv'
  BY <1>0, <1>2 DEF ClusterInv
<1>13. NoOrphanPipeline'
  <2> SUFFICES ASSUME NEW q \in Pipes, phase = "run", pipe'[q].ctx = "live"
               PROVE  \/ pipelines[pipe'[q].key] = q /\ cancels[pipe'[q].key] = q
                      \/ work.pc = "cancel" /\ work.read = q
    BY <1>2 DEF NoOrphanPipeline
  <2>1. pipe'[q].ctx = pipe[q].ctx /\ pipe'[q].key = pipe[q].key
    BY <1>6, <1>8 DEF x
  <2> QED BY <1>0, <2>1 DEF NoOrphanPipeline
<1>14. ReadersInv'
  <2>1. reader' = [r \in Readers |-> reader'[r]]
    BY <1>2
  <2>2. ASSUME NEW r \in Readers PROVE ReaderOK(reader[r])'
    <3> DEFINE u == reader[r]
    <3>1. ReaderOK(u) /\ u \in ReaderRecs
      BY <1>0 DEF ReadersInv, ReaderOK
    <3>2. CASE u.pipe = p
      <4> DEFINE v == [u EXCEPT !.sure = u.sure /\ Begun(y, u.act)]
      <4>1. reader'[r] = v
        BY <1>2, <3>2
      <4> HIDE DEF u
      <4>2. /\ v.pc = u.pc /\ v.op = u.op /\ v.act = u.act /\ v.got = u.got /\ v.key = u.key
            /\ v.pipe = u.pipe /\ v.sure = (u.sure /\ Begun(y, u.act))
        BY <3>1 DEF ReaderRecs
      <4>3. v \in ReaderRecs
        <5>1. (u.sure /\ Begun(y, u.act)) \in BOOLEAN
          OBVIOUS
        <5> QED BY <3>1, <5>1 DEF ReaderRecs
      <4>4. v.sure => u.sure
        BY <4>2
      <4>5. u.pc # "new"
        BY <3>1, <3>2, RegistryAssumption DEF ReaderOK, NoRead
      <4> HIDE DEF v
      <4>6. CASE u.pc \in {"first", "second"}
        <5>1. LookupOK(u, x)
          BY <3>1, <3>2, <4>6 DEF ReaderOK, x
        <5>2. LookupOK(v, y)
          BY <1>5, <3>1, <4>2, <4>3, <5>1, LookupMoves
        <5>3. LookupOK(reader[r], pipe[reader[r].pipe])'
          <6>1. reader'[r] = v /\ pipe'[v.pipe] = y /\ call' = call
            BY <1>2, <1>8, <3>2, <4>1, <4>2
          <6> QED BY <5>2, <6>1 DEF LookupOK
        <5> QED BY <3>1, <3>2, <4>1, <4>2, <4>3, <4>4, <4>5, <5>3 DEF ReaderOK
      <4>7. CASE u.pc \notin {"first", "second"}
        BY <3>1, <4>1, <4>2, <4>3, <4>4, <4>5, <4>7 DEF ReaderOK
      <4> QED BY <4>6, <4>7
    <3>3. CASE u.pipe # p
      <4>1. reader'[r] = u
        BY <1>2, <3>3
      <4> HIDE DEF u
      <4>2. CASE u.pc \in {"first", "second"}
        <5>1. u.pipe \in Pipes /\ LookupOK(u, pipe[u.pipe])
          BY <3>1, <4>2 DEF ReaderOK
        <5>2. pipe'[u.pipe] = pipe[u.pipe]
          BY <1>8, <3>3, <5>1
        <5>3. LookupOK(reader[r], pipe[reader[r].pipe])'
          BY <1>2, <4>1, <5>1, <5>2 DEF LookupOK
        <5> QED BY <3>1, <4>1, <5>1, <5>3 DEF ReaderOK
      <4>3. CASE u.pc \notin {"first", "second"}
        BY <3>1, <4>1, <4>3 DEF ReaderOK
      <4> QED BY <4>2, <4>3
    <3> QED BY <3>2, <3>3
  <2> QED BY <2>1, <2>2 DEF ReadersInv
<1> QED BY <1>10, <1>11, <1>12, <1>13, <1>14 DEF RegistryInv

-----------------------------------------------------------------------------
(* Open and Close.                                                         *)

\* A call that changes nothing but itself.
LEMMA CallStepKeeps ==
    ASSUME RegistryInv, NEW a \in Acts, NEW new \in CallRecs, CallStep(a, new), UNCHANGED pipe,
           call[a].pc # "accepted", new.pc = "keyed" => new.key \in Keys,
           new.pc = "held" => new.pipe \in Pipes /\ pipe[new.pipe] # Unused
    PROVE  RegistryInv'
<1>0. ClusterInv /\ WorkInv /\ MapInv /\ PipesInv /\ CallInv /\ ReadersInv /\ NoOrphanPipeline
  BY DEF RegistryInv
<1>1. /\ call' = [call EXCEPT ![a] = new]
      /\ UNCHANGED <<valve, device, bridge, changes, missed, workqueue, delayed, work, pipelines, cancels, reader, phase>>
  BY DEF CallStep, clusterVars, queueVars, mapVars
<1>2. call \in [Acts -> CallRecs]
  BY <1>0 DEF CallInv
<1>3. call' \in [Acts -> CallRecs] /\ call'[a] = new /\ \A b \in Acts : b # a => call'[b] = call[b]
  BY <1>1, <1>2
<1>4. UsedKept
  BY DEF UsedKept
<1>5. ActsKept
  <2>1. \A b \in Acts : call[b].pc = "accepted" => call'[b].pc = "accepted"
    BY <1>3
  <2> QED BY <2>1 DEF ActsKept
<1>6. PipesInv'
  BY <1>0, <1>3 DEF PipesInv
<1>7. CallInv'
  <2>1. ASSUME NEW b \in Acts
        PROVE  /\ call'[b].pc = "keyed" => call'[b].key \in Keys
               /\ call'[b].pc = "held" => call'[b].pipe \in Pipes /\ pipe[call'[b].pipe] # Unused
    BY <1>0, <1>3 DEF CallInv
  <2> QED BY <1>3, <2>1 DEF CallInv
<1>8. WorkInv' /\ MapInv' /\ ReadersInv'
  BY <1>0, <1>1, <1>4, <1>5, HeldFrame, ReadersFrame DEF mapVars
<1>9. ClusterInv' /\ NoOrphanPipeline'
  BY <1>0, <1>1 DEF ClusterInv, NoOrphanPipeline
<1> QED BY <1>6, <1>7, <1>8, <1>9 DEF RegistryInv

\* So does an action that is put into the channel.
LEMMA EnqueueKeeps ==
    ASSUME RegistryInv, NEW a \in Acts, Enqueue(a)
    PROVE  RegistryInv'
<1> DEFINE q == call[a].pipe
           x == pipe[q]
           new == [NoCall EXCEPT !.pc = "accepted"]
           y == [x EXCEPT !.queue = Append(x.queue, a)]
<1>0. ClusterInv /\ WorkInv /\ MapInv /\ PipesInv /\ CallInv /\ ReadersInv /\ NoOrphanPipeline
  BY DEF RegistryInv
<1>1. /\ call[a].pc = "held" /\ call' = [call EXCEPT ![a] = new]
      /\ pipe' = [pipe EXCEPT ![q].queue = Append(pipe[q].queue, a)]
      /\ UNCHANGED <<valve, device, bridge, changes, missed, workqueue, delayed, work, pipelines, cancels, reader, phase>>
  BY DEF Enqueue, CallStep, clusterVars, queueVars, mapVars
<1>2. q \in Pipes /\ pipe[q] # Unused
  BY <1>0, <1>1 DEF CallInv
<1>3. new \in CallRecs /\ new.pc = "accepted"
  BY DEF CallRecs, NoCall
<1>4. call \in [Acts -> CallRecs]
  BY <1>0 DEF CallInv
<1> HIDE DEF new
<1>5. call' \in [Acts -> CallRecs] /\ call'[a] = new /\ \A b \in Acts : b # a => call'[b] = call[b]
  BY <1>1, <1>3, <1>4
<1>6. PipeOK(x) /\ ~Holds(x, a)
  BY <1>0, <1>1, <1>2 DEF PipesInv
<1> HIDE DEF q
<1>7. pipe' = [p \in Pipes |-> pipe'[p]] /\ pipe'[q] = y /\ \A p \in Pipes : p # q => pipe'[p] = pipe[p]
  BY <1>0, <1>1, <1>2 DEF PipesInv
<1> HIDE DEF x
<1>8. x \in PipeRecs /\ x.queue \in Seq(Acts) /\ Once(x.queue) /\ a \notin ToSet(x.queue)
  BY <1>6 DEF PipeOK, PipeRecs, Holds
<1>9. /\ Append(x.queue, a) \in Seq(Acts) /\ Once(Append(x.queue, a))
      /\ \A b : b \in ToSet(Append(x.queue, a)) <=> b \in ToSet(x.queue) \/ b = a
  BY <1>8, AppendOnce
<1>10. /\ y \in PipeRecs /\ y.queue = Append(x.queue, a) /\ y.key = x.key /\ y.info = x.info
       /\ y.ctx = x.ctx /\ y.run = x.run /\ y.job = x.job /\ y.history = x.history
  BY <1>8, <1>9 DEF PipeRecs
<1> HIDE DEF y
<1>11. \A b : Finished(x, b) /\ b # a => Finished(y, b)
  BY <1>9, <1>10 DEF Finished, Busy
<1>12. Busy(y) <=> Busy(x)
  BY <1>10 DEF Busy
<1>13. PipeOK(y)
  <2>1. Busy(y) => y.job \in ActIds /\ y.job \notin ToSet(y.queue)
    BY <1>6, <1>9, <1>10, <1>12 DEF PipeOK, Holds
  <2>2. \A b \in ToSet(y.history) : Finished(y, b)
    BY <1>6, <1>10, <1>11 DEF PipeOK, Holds
  <2> QED BY <1>6, <1>9, <1>10, <2>1, <2>2 DEF PipeOK
<1>14. \A b : Holds(y, b) => Holds(x, b) \/ b = a
  BY <1>9, <1>10, <1>12 DEF Holds
<1>15. y # Unused
  BY <1>10, UsedHasKey
<1>16. UsedKept
  BY <1>7, <1>10, <1>15 DEF UsedKept, x
<1>17. PipesInv'
  <2> SUFFICES ASSUME NEW p \in Pipes, pipe'[p] # Unused
               PROVE  PipeOK(pipe'[p]) /\ \A b \in Acts : Holds(pipe'[p], b) => call'[b].pc = "accepted"
    BY <1>7 DEF PipesInv
  <2>1. \A b \in Acts : call[b].pc = "accepted" \/ b = a => call'[b].pc = "accepted"
    BY <1>3, <1>5
  <2>2. CASE p = q
    BY <1>0, <1>2, <1>7, <1>13, <1>14, <2>1, <2>2 DEF PipesInv, x
  <2>3. CASE p # q
    BY <1>0, <1>7, <2>1, <2>3 DEF PipesInv
  <2> QED BY <2>2, <2>3
<1>18. ActsKept
  <2>1. \A b \in Acts : call[b].pc = "accepted" => call'[b].pc = "accepted"
    BY <1>3, <1>5
  <2>2. ASSUME NEW p \in Pipes, pipe[p] # Unused
        PROVE  /\ pipe'[p] # Unused /\ pipe'[p].history = pipe[p].history
               /\ pipe'[p].run = pipe[p].run /\ pipe'[p].job = pipe[p].job
               /\ \A b : Finished(pipe[p], b) /\ (b \in Acts => call[b].pc = "accepted")
                            => Finished(pipe'[p], b)
    <3>1. CASE p = q
      BY <1>1, <1>7, <1>10, <1>11, <1>15, <3>1 DEF x
    <3>2. CASE p # q
      BY <1>7, <2>2, <3>2
    <3> QED BY <3>1, <3>2
  <2> QED BY <2>1, <2>2 DEF ActsKept
<1>19. CallInv'
  <2>1. ASSUME NEW b \in Acts
        PROVE  /\ call'[b].pc = "keyed" => call'[b].key \in Keys
               /\ call'[b].pc = "held" => call'[b].pipe \in Pipes /\ pipe'[call'[b].pipe] # Unused
    BY <1>0, <1>3, <1>5, <1>16 DEF CallInv, UsedKept
  <2> QED BY <1>5, <2>1 DEF CallInv
<1>20. WorkInv' /\ MapInv' /\ ReadersInv'
  BY <1>0, <1>1, <1>16, <1>18, HeldFrame, ReadersFrame DEF mapVars
<1>21. ClusterInv'
  BY <1>0, <1>1 DEF ClusterInv
<1>22. NoOrphanPipeline'
  <2> SUFFICES ASSUME NEW p \in Pipes, phase = "run", pipe'[p].ctx = "live"
               PROVE  \/ pipelines[pipe'[p].key] = p /\ cancels[pipe'[p].key] = p
                      \/ work.pc = "cancel" /\ work.read = p
    BY <1>1 DEF NoOrphanPipeline
  <2>1. pipe'[p].ctx = pipe[p].ctx /\ pipe'[p].key = pipe[p].key
    BY <1>7, <1>10 DEF x
  <2> QED BY <1>0, <2>1 DEF NoOrphanPipeline
<1> QED BY <1>17, <1>19, <1>20, <1>21, <1>22 DEF RegistryInv

\* So does every step of a call.
LEMMA CallKeeps ==
    ASSUME RegistryInv, NEW a \in Acts, CallResolve(a) \/ CallGetPipeline(a) \/ Enqueue(a)
    PROVE  RegistryInv'
<1>0. CallInv /\ MapInv
  BY DEF RegistryInv
<1>1. CASE CallResolve(a)
  <2>1. PICK k \in Keys \cup {None} :
          CallStep(a, [NoCall EXCEPT !.pc = IF k = None THEN "failed" ELSE "keyed", !.key = k])
    BY <1>1 DEF CallResolve
  <2> DEFINE new == [NoCall EXCEPT !.pc = IF k = None THEN "failed" ELSE "keyed", !.key = k]
  <2>2. new \in CallRecs /\ new.pc # "held" /\ (new.pc = "keyed" => new.key \in Keys)
    BY DEF CallRecs, NoCall
  <2>3. call[a].pc # "accepted" /\ UNCHANGED pipe
    BY <1>1 DEF CallResolve
  <2> HIDE DEF new
  <2>4. CallStep(a, new)
    BY <2>1 DEF new
  <2> QED BY <2>2, <2>3, <2>4, CallStepKeeps
<1>2. CASE CallGetPipeline(a)
  <2> DEFINE p == pipelines[call[a].key]
  <2>1. call[a].pc = "keyed" /\ UNCHANGED pipe
    BY <1>2 DEF CallGetPipeline
  <2>2. call[a].key \in Keys /\ call[a] \in CallRecs
    BY <1>0, <2>1 DEF CallInv
  <2>3. p # None => p \in Pipes /\ pipe[p] # Unused
    BY <1>0, <2>2 DEF MapInv
  <2>4. CASE p # None /\ CallStep(a, [call[a] EXCEPT !.pc = "held", !.pipe = p])
    <3> DEFINE new == [call[a] EXCEPT !.pc = "held", !.pipe = p]
    <3> HIDE DEF p
    <3>1. new \in CallRecs /\ new.pc = "held" /\ new.pipe = p
      BY <2>2, <2>3, <2>4 DEF CallRecs
    <3> HIDE DEF new
    <3>2. CallStep(a, new)
      BY <2>4 DEF new
    <3> QED BY <2>1, <2>3, <2>4, <3>1, <3>2, CallStepKeeps
  <2>5. CASE CallStep(a, [NoCall EXCEPT !.pc = "failed"])
    <3> DEFINE new == [NoCall EXCEPT !.pc = "failed"]
    <3>1. new \in CallRecs /\ new.pc = "failed"
      BY DEF CallRecs, NoCall
    <3> HIDE DEF new
    <3>2. CallStep(a, new)
      BY <2>5 DEF new
    <3> QED BY <2>1, <3>1, <3>2, CallStepKeeps
  <2> QED BY <1>2, <2>4, <2>5 DEF CallGetPipeline
<1> QED BY <1>1, <1>2, EnqueueKeeps

-----------------------------------------------------------------------------
(* The lookups.                                                            *)

\* A concatenation holds what its two parts hold.
LEMMA ConcatMembers ==
    ASSUME NEW q \in Seq(ActIds), NEW t \in Seq(ActIds)
    PROVE  /\ q \o t \in Seq(ActIds)
           /\ \A a : a \in ToSet(q) \/ a \in ToSet(t) => a \in ToSet(q \o t)
<1> DEFINE u == q \o t
<1>1. /\ u \in Seq(ActIds) /\ Len(u) = Len(q) + Len(t) /\ Len(q) \in Nat /\ Len(t) \in Nat
      /\ \A i \in 1 .. Len(q) + Len(t) : u[i] = IF i <= Len(q) THEN q[i] ELSE t[i - Len(q)]
  BY ConcatProperties
<1> HIDE DEF u
<1>2. ASSUME NEW a, a \in ToSet(q) PROVE a \in ToSet(u)
  <2>1. PICK i \in 1 .. Len(q) : q[i] = a
    BY <1>2, ToSetIndex
  <2>2. i \in 1 .. Len(u) /\ u[i] = a
    BY <1>1, <2>1
  <2> QED BY <1>1, <2>2, ToSetIndex
<1>3. ASSUME NEW a, a \in ToSet(t) PROVE a \in ToSet(u)
  <2>1. PICK i \in 1 .. Len(t) : t[i] = a
    BY <1>3, ToSetIndex
  <2>2. i + Len(q) \in 1 .. Len(u) /\ (i + Len(q)) - Len(q) = i /\ ~(i + Len(q) <= Len(q))
    BY <1>1
  <2>3. u[i + Len(q)] = a
    BY <1>1, <2>1, <2>2
  <2> QED BY <1>1, <2>2, <2>3, ToSetIndex
<1> QED BY <1>1, <1>2, <1>3 DEF u

\* With no current action ListActions returns the history alone.
LEMMA EmptyFirst ==
    ASSUME NEW q \in Seq(ActIds) PROVE <<>> \o q = q
BY ConcatEmptySeq

\* A step of one lookup leaves the others alone.
LEMMA ReaderStepKeeps ==
    ASSUME RegistryInv, NEW r \in Readers, NEW new, ReadStep(r, new), ReaderOK(new)
    PROVE  RegistryInv'
<1>0. ClusterInv /\ WorkInv /\ MapInv /\ PipesInv /\ CallInv /\ ReadersInv /\ NoOrphanPipeline
  BY DEF RegistryInv
<1>1. /\ reader' = [reader EXCEPT ![r] = new]
      /\ UNCHANGED <<valve, device, bridge, changes, missed, workqueue, delayed, work, pipelines, cancels, pipe, call, phase>>
  BY DEF ReadStep, clusterVars, queueVars, mapVars
<1>2. reader' = [s \in Readers |-> reader'[s]] /\ reader'[r] = new
      /\ \A s \in Readers : s # r => reader'[s] = reader[s]
  BY <1>0, <1>1 DEF ReadersInv
<1>3. ASSUME NEW s \in Readers PROVE ReaderOK(reader[s])'
  <2>1. ReaderOK(reader'[s])
    BY <1>0, <1>2 DEF ReadersInv
  <2> QED BY <1>1, <2>1 DEF ReaderOK, LookupOK
<1>4. UsedKept
  BY <1>1 DEF UsedKept
<1>5. WorkInv' /\ MapInv' /\ CallInv'
  BY <1>0, <1>1, <1>4, HeldFrame DEF mapVars
<1>6. ClusterInv' /\ PipesInv' /\ NoOrphanPipeline'
  BY <1>0, <1>1 DEF ClusterInv, PipesInv, NoOrphanPipeline
<1> QED BY <1>2, <1>3, <1>5, <1>6 DEF RegistryInv, ReadersInv

\* A lookup that has not begun claims nothing.
LEMMA NoReadOK == ReaderOK(NoRead)
<1>1. NoRead \in ReaderRecs /\ NoRead.pc = "new" /\ NoRead.got = <<>>
  BY DEF NoRead, ReaderRecs
<1> QED BY <1>1, ToSetEmpty DEF ReaderOK

\* A lookup resolves its key.
LEMMA ReadResolveKeeps ==
    ASSUME RegistryInv, NEW r \in Readers, ReadResolve(r)
    PROVE  RegistryInv'
<1>1. ReaderOK(reader[r]) /\ reader[r].pc = "new" /\ reader[r] = NoRead
  BY DEF RegistryInv, ReadersInv, ReaderOK, ReadResolve
<1>2. PICK k \in Keys \cup {None}, op \in {"get", "list", "valve"}, a \in Acts :
        ReadStep(r, [reader[r] EXCEPT !.pc = IF k = None THEN "notFound" ELSE "keyed",
                                      !.op = op, !.key = k, !.act = a])
  BY DEF ReadResolve
<1> DEFINE x == NoRead
           pc == IF k = None THEN "notFound" ELSE "keyed"
           x1 == [x EXCEPT !.pc = pc]
           x2 == [x1 EXCEPT !.op = op]
           x3 == [x2 EXCEPT !.key = k]
           new == [x3 EXCEPT !.act = a]
<1>3. ReadStep(r, new)
  BY <1>1, <1>2
<1>4. x \in ReaderRecs /\ x.got = <<>> /\ x.sure = FALSE
  BY DEF NoRead, ReaderRecs
<1>5. pc \in {"keyed", "notFound"} /\ (pc = "keyed" => k \in Keys)
  OBVIOUS
<1> HIDE DEF x, pc
<1>6. x1 \in ReaderRecs /\ x1.pc = pc /\ x1.got = <<>> /\ x1.sure = FALSE
  BY <1>4, <1>5 DEF ReaderRecs
<1> HIDE DEF x1
<1>7. x2 \in ReaderRecs /\ x2.pc = pc /\ x2.got = <<>> /\ x2.sure = FALSE
  BY <1>6 DEF ReaderRecs
<1> HIDE DEF x2
<1>8. x3 \in ReaderRecs /\ x3.pc = pc /\ x3.key = k /\ x3.got = <<>> /\ x3.sure = FALSE
  BY <1>7 DEF ReaderRecs
<1> HIDE DEF x3
<1>9. new \in ReaderRecs /\ new.pc = pc /\ new.key = k /\ new.got = <<>> /\ new.sure = FALSE
  BY <1>8 DEF ReaderRecs
<1> HIDE DEF new
<1>10. ReaderOK(new)
  BY <1>5, <1>9, ToSetEmpty DEF ReaderOK
<1> QED BY <1>3, <1>10, ReaderStepKeeps

\* It looks up the pipeline.
LEMMA ReadGetPipelineKeeps ==
    ASSUME RegistryInv, NEW r \in Readers, ReadGetPipeline(r)
    PROVE  RegistryInv'
<1> DEFINE x == reader[r]
           p == pipelines[x.key]
<1>0. ReaderOK(x) /\ x.pc \in {"keyed", "info"} /\ MapInv
  BY DEF RegistryInv, ReadersInv, ReadGetPipeline
<1>1. x \in ReaderRecs /\ x.key \in Keys /\ (x.op # "get" => Once(x.got)) /\ (x.pc = "info" => x.op # "get")
  BY <1>0 DEF ReaderOK
<1>2. p # None => p \in Pipes /\ pipe[p] # Unused
  BY <1>0, <1>1 DEF MapInv
<1>3. \/ /\ p = None
         /\ ReadStep(r, [x EXCEPT !.pc = IF x.pc = "keyed" THEN "notFound" ELSE "answered"])
      \/ x.pc = "keyed" /\ x.op = "valve" /\ ReadStep(r, [x EXCEPT !.pc = "info"])
      \/ /\ p # None
         /\ ReadStep(r, [x EXCEPT !.pc = "first", !.pipe = p, !.sure = Begun(pipe[p], x.act)])
  BY DEF ReadGetPipeline
<1> HIDE DEF x, p
<1>4. CASE p = None /\ ReadStep(r, [x EXCEPT !.pc = IF x.pc = "keyed" THEN "notFound" ELSE "answered"])
  <2> DEFINE new == [x EXCEPT !.pc = IF x.pc = "keyed" THEN "notFound" ELSE "answered"]
  <2>1. /\ new \in ReaderRecs /\ new.op = x.op /\ new.got = x.got
        /\ new.pc = IF x.pc = "keyed" THEN "notFound" ELSE "answered"
    BY <1>1 DEF ReaderRecs
  <2> HIDE DEF new
  <2>2. ReaderOK(new)
    BY <1>0, <1>1, <2>1 DEF ReaderOK
  <2>3. ReadStep(r, new)
    BY <1>4 DEF new
  <2> QED BY <2>2, <2>3, ReaderStepKeeps
<1>5. CASE x.pc = "keyed" /\ x.op = "valve" /\ ReadStep(r, [x EXCEPT !.pc = "info"])
  <2> DEFINE new == [x EXCEPT !.pc = "info"]
  <2>1. /\ new \in ReaderRecs /\ new.op = x.op /\ new.got = x.got /\ new.key = x.key
        /\ new.pc = "info"
    BY <1>1 DEF ReaderRecs
  <2> HIDE DEF new
  <2>2. ReaderOK(new)
    BY <1>0, <1>1, <1>5, <2>1 DEF ReaderOK
  <2>3. ReadStep(r, new)
    BY <1>5 DEF new
  <2> QED BY <2>2, <2>3, ReaderStepKeeps
<1>6. CASE p # None /\ ReadStep(r, [x EXCEPT !.pc = "first", !.pipe = p, !.sure = Begun(pipe[p], x.act)])
  <2> DEFINE sure == Begun(pipe[p], x.act)
             x1 == [x EXCEPT !.pc = "first"]
             x2 == [x1 EXCEPT !.pipe = p]
             new == [x2 EXCEPT !.sure = sure]
  <2>1. ReadStep(r, new)
    BY <1>6
  <2>2. sure \in BOOLEAN
    BY DEF Begun
  <2> HIDE DEF sure
  <2>3. x1 \in ReaderRecs /\ x1.pc = "first" /\ x1.op = x.op /\ x1.got = x.got /\ x1.act = x.act
    BY <1>1 DEF ReaderRecs
  <2> HIDE DEF x1
  <2>4. /\ x2 \in ReaderRecs /\ x2.pc = "first" /\ x2.op = x.op /\ x2.got = x.got /\ x2.act = x.act
        /\ x2.pipe = p
    BY <1>2, <1>6, <2>3 DEF ReaderRecs
  <2> HIDE DEF x2
  <2>5. /\ new \in ReaderRecs /\ new.pc = "first" /\ new.op = x.op /\ new.got = x.got
        /\ new.act = x.act /\ new.pipe = p /\ new.sure = sure
    BY <2>2, <2>4 DEF ReaderRecs
  <2> HIDE DEF new
  <2>6. LookupOK(new, pipe[new.pipe]) /\ new.pipe \in Pipes
    BY <1>2, <1>6, <2>5 DEF LookupOK, sure
  <2>7. ReaderOK(new)
    BY <1>1, <2>5, <2>6 DEF ReaderOK
  <2> QED BY <2>1, <2>7, ReaderStepKeeps
<1> QED BY <1>3, <1>4, <1>5, <1>6

\* p.current, as a list of one action or none.
LEMMA CurrentType ==
    ASSUME NEW p \in Pipes, PipeOK(pipe[p])
    PROVE  /\ Current(p) \in Seq(ActIds)
           /\ pipe[p].run = "current" => Current(p) = <<pipe[p].job>> /\ pipe[p].job \in ToSet(Current(p))
           /\ pipe[p].run # "current" => Current(p) = <<>>
<1>1. CASE pipe[p].run = "current"
  <2>1. Current(p) = <<pipe[p].job>> /\ pipe[p].job \in ActIds
    BY <1>1 DEF Current, PipeOK, Busy
  <2> DEFINE j == pipe[p].job
  <2> HIDE DEF j
  <2>2. <<j>> \in Seq(ActIds) /\ Len(<<j>>) = 1 /\ <<j>>[1] = j /\ 1 \in 1 .. 1
    BY <2>1 DEF j
  <2>3. j \in ToSet(<<j>>)
    BY <2>2, ToSetIndex
  <2> QED BY <1>1, <2>1, <2>2, <2>3 DEF j
<1>2. CASE pipe[p].run # "current"
  BY <1>2 DEF Current
<1> QED BY <1>1, <1>2

\* It reads the first of history and current action.
LEMMA ReadFirstKeeps ==
    ASSUME RegistryInv, NEW r \in Readers, ReadFirst(r)
    PROVE  RegistryInv'
<1> DEFINE x == reader[r]
           p == x.pipe
           y == pipe[p]
           got == IF x.op = "get" THEN Current(p) ELSE y.history
           x1 == [x EXCEPT !.pc = "second"]
           new == [x1 EXCEPT !.got = got]
<1>0. ReaderOK(x) /\ x.pc = "first" /\ PipesInv
  BY DEF RegistryInv, ReadersInv, ReadFirst
<1>1. x \in ReaderRecs /\ p \in Pipes /\ LookupOK(x, y)
  BY <1>0 DEF ReaderOK
<1>2. ReadStep(r, new)
  <2>1. Reads(x.op)[1] = "current" <=> x.op = "get"
    BY DEF Reads
  <2> QED BY <2>1, Zenon DEF ReadFirst
<1>3. /\ PipeOK(y) /\ y # Unused
      /\ \A a \in Acts : Holds(y, a) => call[a].pc = "accepted"
  BY <1>0, <1>1 DEF PipesInv, LookupOK
<1>4. /\ Current(p) \in Seq(ActIds)
      /\ y.run = "current" => y.job \in ToSet(Current(p))
  BY <1>1, <1>3, CurrentType
<1>5. y.history \in Seq(ActIds) /\ Once(y.history) /\ \A a \in ToSet(y.history) : Finished(y, a)
  BY <1>3 DEF PipeOK, PipeRecs
<1>6. got \in Seq(ActIds) /\ (x.op = "get" => got = Current(p)) /\ (x.op # "get" => got = y.history)
  BY <1>4, <1>5
<1> HIDE DEF got
<1>7. x.sure => Begun(y, x.act)
  BY <1>1 DEF LookupOK
<1> HIDE DEF y
<1>8. p = x.pipe
  OBVIOUS
<1> HIDE DEF x, p
<1>9. x1 \in ReaderRecs /\ x1.pc = "second" /\ x1.op = x.op /\ x1.act = x.act /\ x1.pipe = p /\ x1.sure = x.sure
  BY <1>1, <1>8 DEF ReaderRecs
<1> HIDE DEF x1
<1>10. /\ new \in ReaderRecs /\ new.pc = "second" /\ new.op = x.op /\ new.act = x.act /\ new.pipe = p
       /\ new.sure = x.sure /\ new.got = got
  BY <1>6, <1>9 DEF ReaderRecs
<1> HIDE DEF new
<1>11. LookupOK(new, y)
  <2>1. new.sure => Begun(y, new.act)
    BY <1>7, <1>10
  <2>2. new.op # "get" =>
          \A a \in ToSet(new.got) : Finished(y, a) /\ (a \in Acts => call[a].pc = "accepted")
    BY <1>3, <1>5, <1>6, <1>10 DEF Holds
  <2>3. new.op = "get" /\ y.run = "current" /\ y.job = new.act => new.act \in ToSet(new.got)
    BY <1>4, <1>6, <1>10
  <2> QED BY <1>3, <2>1, <2>2, <2>3 DEF LookupOK
<1>12. ReaderOK(new)
  BY <1>1, <1>5, <1>6, <1>10, <1>11 DEF ReaderOK, y
<1> QED BY <1>2, <1>12, ReaderStepKeeps

\* It reads the second, and what it found is complete.
LEMMA ReadSecondKeeps ==
    ASSUME RegistryInv, NEW r \in Readers, ReadSecond(r)
    PROVE  RegistryInv'
<1> DEFINE x == reader[r]
           p == x.pipe
           y == pipe[p]
           got == IF x.op = "get" THEN x.got \o y.history ELSE Current(p) \o x.got
           sure == x.sure /\ Sees(y, x.act)
           x1 == [x EXCEPT !.pc = "answered"]
           x2 == [x1 EXCEPT !.got = got]
           new == [x2 EXCEPT !.sure = sure]
<1>0. ReaderOK(x) /\ x.pc = "second" /\ PipesInv
  BY DEF RegistryInv, ReadersInv, ReadSecond
<1>1. x \in ReaderRecs /\ x.got \in Seq(ActIds) /\ p \in Pipes /\ LookupOK(x, y) /\ (x.op # "get" => Once(x.got))
  BY <1>0 DEF ReaderOK, ReaderRecs
<1>2. ReadStep(r, new)
  <2>1. Reads(x.op)[2] = "current" <=> x.op # "get"
    BY DEF Reads
  <2> QED BY <2>1, Zenon DEF ReadSecond
<1>3. PipeOK(y) /\ y.history \in Seq(ActIds)
  BY <1>0, <1>1 DEF PipesInv, LookupOK, PipeOK, PipeRecs
<1>4. /\ Current(p) \in Seq(ActIds) /\ (y.run = "current" => Current(p) = <<y.job>>)
      /\ y.run # "current" => Current(p) = <<>>
  BY <1>1, <1>3, CurrentType
<1>5. sure \in BOOLEAN
  BY <1>1 DEF ReaderRecs, Sees
<1>6. CASE x.op = "get"
  <2>1. /\ x.got \o y.history \in Seq(ActIds)
        /\ sure => x.act \in ToSet(x.got \o y.history)
    BY <1>0, <1>1, <1>3, <1>6, ConcatMembers DEF LookupOK, Sees
  <2>2. got \in Seq(ActIds) /\ (sure => x.act \in ToSet(got))
    BY <1>6, <2>1
  <2> HIDE DEF x, got, sure
  <2>3. x1 \in ReaderRecs /\ x1.pc = "answered" /\ x1.op = x.op /\ x1.act = x.act
    BY <1>1 DEF ReaderRecs
  <2> HIDE DEF x1
  <2>4. x2 \in ReaderRecs /\ x2.pc = "answered" /\ x2.op = x.op /\ x2.act = x.act /\ x2.got = got
    BY <2>2, <2>3 DEF ReaderRecs
  <2> HIDE DEF x2
  <2>5. /\ new \in ReaderRecs /\ new.pc = "answered" /\ new.op = x.op /\ new.act = x.act
        /\ new.sure = sure /\ new.got = got
    BY <1>5, <2>4 DEF ReaderRecs
  <2> HIDE DEF new
  <2>6. ReaderOK(new)
    BY <1>6, <2>2, <2>5 DEF ReaderOK
  <2> QED BY <1>2, <2>6, ReaderStepKeeps
<1>7. CASE x.op # "get"
  <2>1. Current(p) \o x.got \in Seq(ActIds) /\ Once(Current(p) \o x.got)
    <3>1. CASE y.run = "current"
      <4>1. y.job \in ActIds /\ y.job \notin ToSet(x.got)
        BY <1>0, <1>1, <1>3, <1>7, <3>1 DEF PipeOK, Busy, LookupOK, Finished
      <4>2. <<y.job>> \o x.got \in Seq(ActIds) /\ Once(<<y.job>> \o x.got)
        BY <1>1, <1>7, <4>1, ConsOnce
      <4> QED BY <1>4, <3>1, <4>2
    <3>2. CASE y.run # "current"
      BY <1>1, <1>4, <1>7, <3>2, EmptyFirst
    <3> QED BY <3>1, <3>2
  <2>2. got \in Seq(ActIds) /\ Once(got)
    BY <1>7, <2>1
  <2> HIDE DEF x, got, sure
  <2>3. x1 \in ReaderRecs /\ x1.pc = "answered" /\ x1.op = x.op
    BY <1>1 DEF ReaderRecs
  <2> HIDE DEF x1
  <2>4. x2 \in ReaderRecs /\ x2.pc = "answered" /\ x2.op = x.op /\ x2.got = got
    BY <2>2, <2>3 DEF ReaderRecs
  <2> HIDE DEF x2
  <2>5. new \in ReaderRecs /\ new.pc = "answered" /\ new.op = x.op /\ new.got = got
    BY <1>5, <2>4 DEF ReaderRecs
  <2> HIDE DEF new
  <2>6. ReaderOK(new)
    BY <1>7, <2>2, <2>5 DEF ReaderOK
  <2> QED BY <1>2, <2>6, ReaderStepKeeps
<1> QED BY <1>6, <1>7

\* Every step of the API keeps the invariant.
LEMMA ApiKeeps ==
    ASSUME RegistryInv, ApiNext
    PROVE  RegistryInv'
<1>1. ASSUME NEW a \in Acts, CallResolve(a) \/ CallGetPipeline(a) \/ Enqueue(a) PROVE RegistryInv'
  BY <1>1, CallKeeps
<1>2. ASSUME NEW r \in Readers, ReadResolve(r) \/ ReadGetPipeline(r) \/ ReadFirst(r) \/ ReadSecond(r)
      PROVE  RegistryInv'
  BY <1>2, ReadResolveKeeps, ReadGetPipelineKeeps, ReadFirstKeeps, ReadSecondKeeps
<1>3. ASSUME NEW r \in Readers, Respond(r) PROVE RegistryInv'
  <2>1. ReadStep(r, NoRead)
    BY <1>3 DEF Respond
  <2> HIDE DEF NoRead
  <2> QED BY <2>1, NoReadOK, ReaderStepKeeps
<1> QED BY <1>1, <1>2, <1>3 DEF ApiNext

-----------------------------------------------------------------------------
(* main, and the invariant.                                                *)

\* The signal ends the contexts of all pipelines.
LEMMA SignalKeeps ==
    ASSUME RegistryInv, Signal
    PROVE  RegistryInv'
<1>0. ClusterInv /\ WorkInv /\ MapInv /\ PipesInv
  BY DEF RegistryInv
<1>1. /\ phase' = "stopping" /\ pipe' = [p \in Pipes |-> [pipe[p] EXCEPT !.ctx = "done"]]
      /\ UNCHANGED <<valve, device, bridge, changes, missed, workqueue, delayed, work, pipelines, cancels, call, reader>>
  BY DEF Signal, clusterVars, queueVars, mapVars, apiVars
<1>2. ASSUME NEW p \in Pipes, pipe[p] # Unused PROVE SameActs(pipe[p], pipe'[p])
  <2>1. PipeOK(pipe[p]) /\ pipe'[p] = [pipe[p] EXCEPT !.ctx = "done"]
    BY <1>0, <1>1, <1>2 DEF PipesInv
  <2> QED BY <2>1 DEF SameActs, PipeOK, PipeRecs
<1>3. ASSUME NEW p \in Pipes, pipe[p] = Unused PROVE pipe'[p] = Unused
  <2>1. [Unused EXCEPT !.ctx = "done"] = Unused
    BY DEF Unused
  <2> QED BY <1>1, <1>3, <2>1
<1>4. pipe' = [p \in Pipes |-> pipe'[p]]
  BY <1>1
<1>5. UsedKept /\ PipesInv' /\ CallInv' /\ ReadersInv'
  BY <1>1, <1>2, <1>3, <1>4, SettingsStep
<1>6. WorkInv' /\ MapInv'
  BY <1>0, <1>1, <1>5, HeldFrame DEF mapVars
<1>7. ClusterInv' /\ NoOrphanPipeline'
  BY <1>0, <1>1 DEF ClusterInv, NoOrphanPipeline
<1> QED BY <1>5, <1>6, <1>7 DEF RegistryInv

\* The process ends.
LEMMA ExitKeeps ==
    ASSUME RegistryInv, Exit
    PROVE  RegistryInv'
<1>1. /\ phase' = "exited"
      /\ UNCHANGED <<valve, device, bridge, changes, missed, workqueue, delayed, work, pipelines, cancels, pipe, call, reader>>
  BY DEF Exit, clusterVars, queueVars, mapVars, apiVars
<1>2. WorkInv' /\ MapInv'
  BY <1>1, QuietFrame, HeldFrame DEF RegistryInv, mapVars
<1>3. ClusterInv' /\ NoOrphanPipeline'
  BY <1>1 DEF RegistryInv, ClusterInv, NoOrphanPipeline
<1> QED BY <1>1, <1>2, <1>3, QuietStep

\* A process that has just started, whatever it was before.
Fresh ==
    /\ work = Idle /\ pipelines = NoMap /\ cancels = NoMap
    /\ pipe = [p \in Pipes |-> Unused] /\ reader = [r \in Readers |-> NoRead]
    /\ call \in [Acts -> CallRecs] /\ \A a \in Acts : call[a].pc \in {"new", "lost"}

\* A process that has just started has nothing but its work queue.
LEMMA FreshInv ==
    ASSUME ClusterInv, Fresh
    PROVE  RegistryInv
<1>1. WorkInv
  BY DEF Fresh, WorkInv, Idle
<1>2. MapInv
  BY DEF Fresh, MapInv, NoMap
<1>3. PipesInv
  BY DEF Fresh, PipesInv
<1>4. CallInv
  BY DEF Fresh, CallInv
<1>5. ReadersInv
  BY NoReadOK DEF Fresh, ReadersInv
<1>6. NoOrphanPipeline
  BY DEF Fresh, NoOrphanPipeline, Unused
<1> QED BY <1>1, <1>2, <1>3, <1>4, <1>5, <1>6 DEF RegistryInv

\* A restart finds the resources and nothing else.
LEMMA RestartKeeps ==
    ASSUME RegistryInv, Restart
    PROVE  RegistryInv'
<1>1. /\ work' = Idle /\ pipelines' = NoMap /\ cancels' = NoMap /\ pipe' = [p \in Pipes |-> Unused]
      /\ reader' = [r \in Readers |-> NoRead] /\ phase' = "run" /\ missed' = FALSE /\ delayed' = {}
      /\ workqueue' = AllValves(valve) /\ UNCHANGED <<valve, device, bridge>>
      /\ call' = [a \in Acts |-> IF call[a].pc = "new" THEN NoCall ELSE [NoCall EXCEPT !.pc = "lost"]]
  BY DEF Restart
<1>2. workqueue' \in Seq(Keys)
  BY <1>1, QueueOfKeys DEF AllValves
<1>3. changes' \in 0 .. MaxChanges
  BY ChangedBound DEF Restart, RegistryInv, ClusterInv
<1>4. ClusterInv'
  BY <1>1, <1>2, <1>3 DEF RegistryInv, ClusterInv
<1>5. /\ NoCall \in CallRecs /\ NoCall.pc = "new"
      /\ [NoCall EXCEPT !.pc = "lost"] \in CallRecs /\ [NoCall EXCEPT !.pc = "lost"].pc = "lost"
  BY DEF NoCall, CallRecs
<1>6. Fresh'
  BY <1>1, <1>5 DEF Fresh, NoMap
<1> QED BY <1>4, <1>6, FreshInv, PTL

\* The invariant holds at the start.
LEMMA RegistryStart == Init => RegistryInv
<1> SUFFICES ASSUME Init PROVE RegistryInv
  OBVIOUS
<1>1. PICK c \in Clusters : valve = c.valve /\ device = c.device /\ bridge = c.bridge
  BY DEF Init
<1>2. /\ valve \in [Keys -> Valves \cup {None}] /\ device \in [Devices -> DeviceSpecs \cup {None}]
      /\ bridge \in [Bridges -> BridgeSpecs \cup {None}]
  BY <1>1, RegistryAssumption
<1>3. workqueue \in Seq(Keys)
  BY QueueOfKeys DEF Init, AllValves
<1>4. ClusterInv
  <2>1. changes \in 0 .. MaxChanges
    BY RegistryAssumption DEF Init
  <2>2. missed \in BOOLEAN /\ delayed \subseteq Keys /\ phase \in {"run", "stopping", "exited"}
    BY DEF Init
  <2> QED BY <1>2, <1>3, <2>1, <2>2 DEF ClusterInv
<1>5. NoCall \in CallRecs /\ NoCall.pc = "new"
  BY DEF NoCall, CallRecs
<1>6. Fresh
  BY <1>5 DEF Init, Fresh
<1> QED BY <1>4, <1>6, FreshInv

\* It is inductive.
LEMMA RegistryStep == RegistryInv /\ [Next]_vars => RegistryInv'
<1> SUFFICES ASSUME RegistryInv, [Next]_vars PROVE RegistryInv'
  OBVIOUS
<1>1. CASE Next
  <2>1. ASSUME NEW k \in Keys, RequeueTimer(k) PROVE RegistryInv'
    BY <2>1, TimerKeeps
  <2>2. ASSUME NEW p \in Pipes, PipeNext(p) PROVE RegistryInv'
    BY <2>2, PipeKeeps
  <2> QED BY <1>1, <2>1, <2>2, ClusterKeeps, WorkerKeeps, ApiKeeps, SignalKeeps, ExitKeeps,
             RestartKeeps DEF Next
<1>2. CASE UNCHANGED vars
  <2>1. UNCHANGED <<valve, device, bridge, changes, missed, workqueue, delayed, work, pipelines, cancels, pipe, call, reader, phase>>
    BY <1>2 DEF vars, clusterVars, queueVars, mapVars, apiVars
  <2>2. ClusterInv'
    BY <2>1 DEF RegistryInv, ClusterInv
  <2> QED BY <2>1, <2>2, ClusterFrame
<1> QED BY <1>1, <1>2

\* It holds in every reachable state.
LEMMA RegistryInvariant == Spec => []RegistryInv
BY RegistryStart, RegistryStep, PTL DEF Spec

\* The maps of Scheduler, the work queue and the pipelines keep their types, the
\* history of a pipeline its capacity, and a pipeline never gets settings that
\* allow no attempt at all: the reconciler replaces a retry count of zero.
THEOREM RegistryTypes == Spec => []TypeOK
<1>1. RegistryInv => TypeOK
  <2> SUFFICES ASSUME RegistryInv PROVE TypeOK
    OBVIOUS
  <2>0. ClusterInv /\ WorkInv /\ MapInv /\ PipesInv
    BY DEF RegistryInv
  <2>1. pipe \in [Pipes -> {Unused} \cup PipeRecs]
    BY <2>0 DEF PipesInv, PipeOK
  <2>2. ASSUME NEW p \in Pipes PROVE Len(pipe[p].history) <= HistoryCap
    <3>1. CASE pipe[p] = Unused
      <4>1. pipe[p].history = <<>>
        BY <3>1 DEF Unused
      <4> QED BY <4>1, RegistryAssumption
    <3>2. CASE pipe[p] # Unused
      BY <2>0, <3>2 DEF PipesInv, PipeOK
    <3> QED BY <3>1, <3>2
  <2>3. \A p \in Pipes : pipe[p] # Unused => pipe[p].info.retry > 0
    BY <2>0 DEF PipesInv, PipeOK
  <2>4. /\ work.pc \in {"idle", "device", "bridge", "register", "ready", "cancel"}
        /\ pipelines \in [Keys -> Pipes \cup {None}] /\ cancels \in [Keys -> Pipes \cup {None}]
    BY <2>0 DEF WorkInv, MapInv
  <2> QED BY <2>0, <2>1, <2>2, <2>3, <2>4 DEF TypeOK, ClusterInv, PipeRecs
<1> QED BY <1>1, RegistryInvariant, PTL

\* Until shutdown every pipeline that may act is in both maps under its own key or
\* about to be cancelled, through registration, deregistration and restart: no
\* valve is ever commanded by a pipeline that nothing can stop.
THEOREM PipelinesInReach == Spec => []NoOrphanPipeline
<1>1. RegistryInv => NoOrphanPipeline
  BY DEF RegistryInv
<1> QED BY <1>1, RegistryInvariant, PTL

\* ListActions and GetValve read the history first and p.current second, under a
\* lock each, and never list an action twice.
THEOREM ListsHaveNoDuplicates == Spec => []ListedOnce
<1>1. RegistryInv => ListedOnce
  BY DEF RegistryInv, ReadersInv, ReaderOK, ListedOnce, Once
<1> QED BY <1>1, RegistryInvariant, PTL

\* GetAction reads p.current first and the history second, and so finds an action
\* that had begun before the lookup and is current or recorded at the second read,
\* also when it moved from the one to the other between the two reads.
THEOREM LookupsFind == Spec => []FoundIfThere
<1>1. RegistryInv => FoundIfThere
  BY DEF RegistryInv, ReadersInv, ReaderOK, FoundIfThere
<1> QED BY <1>1, RegistryInvariant, PTL
=============================================================================
