-------------------------- MODULE StatusQueryProofs --------------------------
(***************************************************************************)
(* Proofs about StatusQuery: for any number of queries and any set of       *)
(* payloads, the map of channels holds no dead entry, a query is given      *)
(* results of its own device only, and one that no other query disturbs     *)
(* hears every proper answer.                                               *)
(***************************************************************************)
EXTENDS StatusQuery, TasmotaProofs

\* buf and answer are functions on the queries.
ShapeInv == /\ buf = [q \in Queries |-> buf[q]]
            /\ answer = [q \in Queries |-> answer[q]]

\* A query that is alone has its entry, and its device to itself.
AloneInv == \A q \in Queries : alone[q] /\ Active(q) =>
    /\ chs[Key(q)] = q
    /\ \A p \in Queries \ {q} : Active(p) => DeviceOf[p] # DeviceOf[q]

QueryInv == TypeOK /\ ShapeInv /\ NoStaleEntry /\ RightDevice /\ AloneInv

-----------------------------------------------------------------------------
(* Facts about the operators.                                              *)

Results == [name : Identifiers \cup {NoName}, addr : Identifiers \cup {NoName},
            power : {"on", "off", "absent"}]

\* What ParseZbStatus3ValvePower returns, whatever the message.
LEMMA ParsedResults ==
    ASSUME NEW msg \in Payloads, NEW i \in DOMAIN ParseZbStatus3ValvePower(msg)
    PROVE  /\ i \in Nat /\ msg.json /\ i \in DOMAIN msg.ZbStatus3
           /\ ParseZbStatus3ValvePower(msg)[i] = ValveResult(msg.ZbStatus3[i])
           /\ ParseZbStatus3ValvePower(msg)[i] \in Results
<1>1. /\ msg.json /\ i \in DOMAIN msg.ZbStatus3
      /\ ParseZbStatus3ValvePower(msg)[i] = ValveResult(msg.ZbStatus3[i])
  BY PayloadsAssumption DEF ParseZbStatus3ValvePower
<1> DEFINE item == msg.ZbStatus3[i]
<1>2. /\ i \in Nat
      /\ item.Name.json = "string" => item.Name.val \in Identifiers
      /\ item.Device.json = "string" => item.Device.val \in Identifiers
      /\ item.Power.json = "number" => item.Power.val \in {"on", "off"}
  BY <1>1, PayloadsAssumption DEF Given
<1>3. ValveResult(item) \in Results
  BY <1>2 DEF ValveResult, Results, StringField
<1> QED BY <1>1, <1>2, <1>3

\* Whoever is found under an identifier asked for that device.
LEMMA WaiterOfAsked ==
    ASSUME TypeOK, NoStaleEntry, NEW id \in Identifiers \cup {NoName}, WaiterOf(id) # None
    PROVE  /\ WaiterOf(id) \in Queries /\ Active(WaiterOf(id))
           /\ SameId(Target[WaiterOf(id)], id)
<1>1. /\ id # NoName /\ id \in Identifiers /\ DispatchKey(id) \in Keys
      /\ WaiterOf(id) = chs[DispatchKey(id)]
  BY DEF WaiterOf
<1>2. /\ WaiterOf(id) \in Queries /\ Active(WaiterOf(id))
      /\ Key(WaiterOf(id)) = DispatchKey(id)
  BY <1>1 DEF TypeOK, NoStaleEntry
<1> QED BY <1>1, <1>2, QueriesAssumption, DispatchKeySame DEF Key

\* The query a result is handed to is active and asked for one of its identifiers.
LEMMA WaiterAsked ==
    ASSUME TypeOK, NoStaleEntry, NEW r \in Results, Waiter(r) # None
    PROVE  /\ Waiter(r) \in Queries /\ Active(Waiter(r))
           /\ SameId(Target[Waiter(r)], r.name) \/ SameId(Target[Waiter(r)], r.addr)
<1>1. r.name \in Identifiers \cup {NoName} /\ r.addr \in Identifiers \cup {NoName}
  BY DEF Results
<1> QED BY <1>1, WaiterOfAsked DEF Waiter

-----------------------------------------------------------------------------
(* The invariant.                                                          *)

\* At the start no query is registered.
LEMMA QueryInit == Init => QueryInv
<1> SUFFICES ASSUME Init PROVE QueryInv
  OBVIOUS
<1>1. TypeOK
  BY DEF Init, TypeOK
<1>2. ShapeInv /\ NoStaleEntry /\ RightDevice /\ AloneInv
  BY DEF Init, ShapeInv, NoStaleEntry, RightDevice, AloneInv, Active
<1> QED BY <1>1, <1>2 DEF QueryInv

\* The answer in a channel, or received.
Proper(q, b) == b # <<>> =>
    /\ Len(b) = 1 /\ b[1].power \in {"on", "off", "absent"}
    /\ SameId(Target[q], b[1].name) \/ SameId(Target[q], b[1].addr)

\* A message is routed to the queries it is for, and to no other.
LEMMA RoutedProper ==
    ASSUME QueryInv, NEW msg \in Payloads, NEW q \in Queries
    PROVE  Proper(q, Routed(msg)[q])
<1> DEFINE rs == ParseZbStatus3ValvePower(msg)
           for == ResultsFor(q, rs)
<1>1. Routed(msg)[q] = Deliver(q, rs)
  BY DEF Routed
<1>2. CASE buf[q] # <<>> \/ for = {}
  <2>1. Routed(msg)[q] = buf[q]
    BY <1>1, <1>2 DEF Deliver
  <2> QED BY <2>1 DEF QueryInv, TypeOK, RightDevice, Proper
<1>3. CASE buf[q] = <<>> /\ for # {}
  <2> DEFINE f == First(for)
  <2>1. for \subseteq Nat
    BY ParsedResults DEF ResultsFor
  <2>2. f \in for
    BY <1>3, <2>1, FirstIsLeast
  <2>3. f \in DOMAIN rs /\ Waiter(rs[f]) = q
    BY <2>2 DEF ResultsFor
  <2>4. Routed(msg)[q] = <<rs[f]>>
    BY <1>1, <1>3 DEF Deliver
  <2> HIDE DEF f, rs
  <2>5. rs[f] \in Results
    BY <2>3, ParsedResults DEF rs
  <2>6. SameId(Target[q], rs[f].name) \/ SameId(Target[q], rs[f].addr)
    BY <2>3, <2>5, WaiterAsked, QueriesAssumption DEF QueryInv
  <2> QED BY <2>4, <2>5, <2>6 DEF Proper, Results
<1> QED BY <1>2, <1>3

\* The invariant is inductive.
LEMMA QueryStep == QueryInv /\ [Next]_vars => QueryInv'
<1> SUFFICES ASSUME QueryInv, [Next]_vars PROVE QueryInv'
  OBVIOUS
<1>0. /\ qpc \in [Queries -> {"new", "publish", "wait", "cleanup", "over"}]
      /\ chs \in [Keys -> Queries \cup {None}] /\ alone \in [Queries -> BOOLEAN]
      /\ \A q \in Queries : Proper(q, buf[q]) /\ Proper(q, answer[q])
      /\ \A q \in Queries : Key(q) \in Keys
      /\ ShapeInv /\ NoStaleEntry /\ AloneInv
  BY DEF QueryInv, TypeOK, RightDevice, Proper, Keys
<1>1. ASSUME NEW q \in Queries, NoBridge(q) \/ Publish(q) \/ GiveUp(q)
      PROVE  QueryInv'
  <2>1. /\ UNCHANGED <<chs, buf, answer, alone>>
        /\ qpc' \in [Queries -> {"new", "publish", "wait", "cleanup", "over"}]
        /\ \A p \in Queries : Active(p)' <=> Active(p)
    BY <1>0, <1>1 DEF NoBridge, Publish, GiveUp, Active
  <2>2. TypeOK' /\ RightDevice' /\ ShapeInv'
    BY <1>0, <2>1 DEF QueryInv, TypeOK, RightDevice, ShapeInv
  <2>3. NoStaleEntry' /\ AloneInv'
    BY <1>0, <2>1 DEF NoStaleEntry, AloneInv
  <2> QED BY <2>2, <2>3 DEF QueryInv
<1>2. ASSUME NEW q \in Queries, Register(q)
      PROVE  QueryInv'
  <2> DEFINE others == {p \in Queries \ {q} : Active(p) /\ DeviceOf[p] = DeviceOf[q]}
  <2>1. /\ UNCHANGED <<buf, answer>> /\ qpc' = [qpc EXCEPT ![q] = "publish"]
        /\ chs' = [chs EXCEPT ![Key(q)] = q] /\ qpc[q] = "new"
        /\ alone' = [p \in Queries |->
                       alone[p] /\ p \notin others /\ (p = q => others = {})]
    BY <1>2 DEF Register
  <2>2. Active(q)' /\ \A p \in Queries : p # q => (Active(p)' <=> Active(p))
    BY <1>0, <2>1 DEF Active
  <2>3. TypeOK' /\ RightDevice' /\ ShapeInv'
    BY <1>0, <2>1 DEF QueryInv, TypeOK, RightDevice, ShapeInv
  <2>4. NoStaleEntry'
    BY <1>0, <2>1, <2>2, QueriesAssumption DEF NoStaleEntry
  <2>5. AloneInv'
    <3> SUFFICES ASSUME NEW p \in Queries, alone'[p], Active(p)'
                 PROVE  /\ chs'[Key(p)] = p
                        /\ \A x \in Queries \ {p} : Active(x)' => DeviceOf[x] # DeviceOf[p]
      BY DEF AloneInv
    <3>1. p \notin others /\ (p = q => others = {}) /\ alone[p]
      BY <2>1
    <3>2. CASE p = q
      BY <1>0, <2>1, <2>2, <3>1, <3>2
    <3>3. CASE p # q
      <4>1. Active(p) /\ DeviceOf[p] # DeviceOf[q]
        BY <2>2, <3>1, <3>3
      <4>2. Key(p) # Key(q)
        BY <4>1, DevicesAssumption
      <4> QED BY <1>0, <2>1, <2>2, <3>1, <4>1, <4>2 DEF AloneInv
    <3> QED BY <3>2, <3>3
  <2> QED BY <2>3, <2>4, <2>5 DEF QueryInv
<1>3. ASSUME NEW q \in Queries, Receive(q)
      PROVE  QueryInv'
  <2>1. /\ UNCHANGED <<chs, alone>> /\ qpc' = [qpc EXCEPT ![q] = "cleanup"]
        /\ qpc[q] = "wait"
        /\ answer' = [answer EXCEPT ![q] = buf[q]] /\ buf' = [buf EXCEPT ![q] = <<>>]
    BY <1>3 DEF Receive
  <2>2. \A p \in Queries : Active(p)' <=> Active(p)
    BY <1>0, <2>1 DEF Active
  <2>3. ShapeInv'
    BY <1>0, <2>1 DEF ShapeInv
  <2>4. \A p \in Queries : Proper(p, buf'[p]) /\ Proper(p, answer'[p])
    <3>1. \A p \in Queries : /\ buf'[p] = IF p = q THEN <<>> ELSE buf[p]
                             /\ answer'[p] = IF p = q THEN buf[q] ELSE answer[p]
      BY <1>0, <2>1 DEF ShapeInv
    <3> QED BY <1>0, <3>1 DEF Proper
  <2>5. TypeOK' /\ RightDevice'
    BY <1>0, <2>1, <2>4 DEF TypeOK, RightDevice, Proper
  <2>6. NoStaleEntry' /\ AloneInv'
    BY <1>0, <2>1, <2>2 DEF NoStaleEntry, AloneInv
  <2> QED BY <2>3, <2>5, <2>6 DEF QueryInv
<1>4. ASSUME NEW q \in Queries, Cleanup(q)
      PROVE  QueryInv'
  <2>1. /\ qpc' = [qpc EXCEPT ![q] = "over"] /\ qpc[q] = "cleanup"
        /\ chs' = [chs EXCEPT ![Key(q)] = None] /\ alone' = [alone EXCEPT ![q] = TRUE]
        /\ answer' = [answer EXCEPT ![q] = <<>>] /\ buf' = [buf EXCEPT ![q] = <<>>]
    BY <1>4 DEF Cleanup
  <2>2. ~Active(q)' /\ Active(q) /\ \A p \in Queries : p # q => (Active(p)' <=> Active(p))
    BY <1>0, <2>1 DEF Active
  <2>3. ShapeInv'
    BY <1>0, <2>1 DEF ShapeInv
  <2>4. \A p \in Queries : Proper(p, buf'[p]) /\ Proper(p, answer'[p])
    <3>1. \A p \in Queries : /\ buf'[p] = IF p = q THEN <<>> ELSE buf[p]
                             /\ answer'[p] = IF p = q THEN <<>> ELSE answer[p]
      BY <1>0, <2>1 DEF ShapeInv
    <3> QED BY <1>0, <3>1 DEF Proper
  <2>5. TypeOK' /\ RightDevice'
    BY <1>0, <2>1, <2>4 DEF TypeOK, RightDevice, Proper
  <2>6. NoStaleEntry'
    <3>1. \A k \in Keys : chs'[k] # None => k # Key(q) /\ chs'[k] = chs[k]
      BY <1>0, <2>1
    <3> QED BY <1>0, <2>2, <3>1 DEF NoStaleEntry
  <2>7. AloneInv'
    <3> SUFFICES ASSUME NEW p \in Queries, alone'[p], Active(p)'
                 PROVE  /\ chs'[Key(p)] = p
                        /\ \A x \in Queries \ {p} : Active(x)' => DeviceOf[x] # DeviceOf[p]
      BY DEF AloneInv
    <3>1. p # q /\ Active(p) /\ alone[p]
      BY <1>0, <2>1, <2>2
    <3>2. Key(p) # Key(q)
      BY <1>0, <2>2, <3>1, DevicesAssumption DEF AloneInv
    <3> QED BY <1>0, <2>1, <2>2, <3>1, <3>2 DEF AloneInv
  <2> QED BY <2>3, <2>5, <2>6, <2>7 DEF QueryInv
<1>5. ASSUME NEW msg \in Payloads, HandleResult(msg)
      PROVE  QueryInv'
  <2>1. buf' = Routed(msg) /\ UNCHANGED <<qpc, chs, answer, alone>>
    BY <1>5 DEF HandleResult
  <2>2. \A p \in Queries : Proper(p, buf'[p]) /\ Proper(p, answer'[p])
    BY <1>0, <2>1, RoutedProper
  <2>3. TypeOK' /\ RightDevice'
    BY <1>0, <2>1, <2>2 DEF TypeOK, RightDevice, Proper
  <2>4. ShapeInv'
    BY <1>0, <2>1 DEF ShapeInv, Routed
  <2>5. NoStaleEntry' /\ AloneInv'
    BY <1>0, <2>1 DEF NoStaleEntry, AloneInv, Active
  <2> QED BY <2>3, <2>4, <2>5 DEF QueryInv
<1>6. CASE UNCHANGED vars
  BY <1>6 DEF QueryInv, vars, TypeOK, ShapeInv, NoStaleEntry, RightDevice, AloneInv, Active
<1> QED BY <1>1, <1>2, <1>3, <1>4, <1>5, <1>6 DEF Next, QueryNext

\* It holds in every reachable state.
LEMMA QueryInvariant == Spec => []QueryInv
BY QueryInit, QueryStep, PTL DEF Spec

\* Every variable keeps its type, and a channel holds one answer at most,
\* whatever messages arrive (the send of handleResult that does not block).
THEOREM QueryTypes == Spec => []TypeOK
<1>1. QueryInv => TypeOK
  BY DEF QueryInv
<1> QED BY <1>1, QueryInvariant, PTL

\* The map of channels has entries of queries under way only, each under its own
\* key, although queries of one device replace and delete each other's
\* (SendZbStatus3 and its deferred delete).
THEOREM MapHasNoStaleEntry == Spec => []NoStaleEntry
<1>1. QueryInv => NoStaleEntry
  BY DEF QueryInv
<1> QED BY <1>1, QueryInvariant, PTL

\* Whatever a message carries, a query is given results of the device it asked
\* for only (handleResult, dispatchKey).
THEOREM AnswersAreOfTheDevice == Spec => []RightDevice
<1>1. QueryInv => RightDevice
  BY DEF QueryInv
<1> QED BY <1>1, QueryInvariant, PTL

-----------------------------------------------------------------------------
(* A query that is alone hears its answer.                                 *)

\* A query that is alone with its device has its entry, so every answer reaches it.
LEMMA AloneHears == QueryInv => Heard
<1> SUFFICES ASSUME QueryInv, NEW q \in Queries, alone[q], qpc[q] \in {"publish", "wait"},
                    NEW msg \in Payloads, Answers(msg, q)
             PROVE  Routed(msg)[q] # <<>>
  BY DEF Heard
<1> DEFINE rs == ParseZbStatus3ValvePower(msg)
<1>0. TypeOK /\ NoStaleEntry /\ Target[q] \in Identifiers /\ Key(q) \in Keys /\ q # None
  BY QueriesAssumption DEF QueryInv, Keys
<1>1. /\ Active(q) /\ chs[Key(q)] = q
      /\ \A p \in Queries \ {q} : Active(p) => DeviceOf[p] # DeviceOf[q]
  BY DEF QueryInv, AloneInv, Active
<1>2. PICK i \in DOMAIN msg.ZbStatus3 :
         \/ SameId(Target[q], StringField(msg.ZbStatus3[i].Name))
         \/ SameId(Target[q], StringField(msg.ZbStatus3[i].Device))
  BY DEF Answers
<1> DEFINE name == StringField(msg.ZbStatus3[i].Name)
           addr == StringField(msg.ZbStatus3[i].Device)
<1>3. /\ msg.json /\ i \in DOMAIN rs
      /\ rs[i].name = name /\ rs[i].addr = addr
  <2>1. name # NoName \/ addr # NoName
    BY <1>2 DEF SameId
  <2> QED BY <2>1 DEF Answers, ParseZbStatus3ValvePower, ValveResult
<1> HIDE DEF rs
<1>4. name \in Identifiers \cup {NoName} /\ addr \in Identifiers \cup {NoName}
  BY <1>3, ParsedResults DEF rs, Results
<1>5. ASSUME NEW id \in Identifiers \cup {NoName}, SameId(Target[q], id)
      PROVE  WaiterOf(id) = q
  <2>1. id \in Identifiers /\ id # NoName
    BY <1>5 DEF SameId
  <2>2. DispatchKey(id) = Key(q)
    BY <1>0, <1>5, <2>1, DispatchKeySame DEF Key
  <2> QED BY <1>0, <1>1, <2>1, <2>2 DEF WaiterOf
<1>6. Waiter(rs[i]) = q
  <2>1. CASE SameId(Target[q], name)
    BY <1>0, <1>3, <1>4, <1>5, <2>1 DEF Waiter
  <2>2. CASE SameId(Target[q], addr) /\ WaiterOf(name) = None
    BY <1>3, <1>4, <1>5, <2>2 DEF Waiter
  <2>3. CASE SameId(Target[q], addr) /\ WaiterOf(name) # None
    <3> DEFINE p == WaiterOf(name)
    <3>1. p \in Queries /\ Active(p) /\ SameId(Target[p], name)
      BY <1>0, <1>4, <2>3, WaiterOfAsked
    <3>2. DeviceOf[p] = DeviceOf[q]
      BY <1>3, <2>3, <3>1, DevicesAssumption
    <3>3. p = q
      BY <1>1, <3>1, <3>2
    <3> QED BY <1>3, <2>3, <3>3 DEF Waiter
  <2> QED BY <1>2, <2>1, <2>2, <2>3
<1>7. ResultsFor(q, rs) # {}
  BY <1>3, <1>6 DEF ResultsFor
<1>8. Routed(msg)[q] = Deliver(q, rs)
  BY DEF Routed, rs
<1> QED BY <1>7, <1>8 DEF Deliver

\* A query that no other query of its device has overlapped hears every proper
\* answer, by whichever identifier it asked and in whichever case, and whoever
\* else is waiting (SendZbStatus3, handleResult).
THEOREM AloneIsHeard == Spec => []Heard
BY AloneHears, QueryInvariant, PTL
=============================================================================
