---------------------------- MODULE StatusQuery ----------------------------
(***************************************************************************)
(* The advisory check after a close: checkClosedWithStatus3 asks the bridge *)
(* for the state of the device through SendZbStatus3, and handleResult      *)
(* routes the answers over the map zbStatus3Chs.                            *)
(*                                                                         *)
(* Every confirmed close starts a query on a goroutine of its own, so that  *)
(* several may be under way, also of one device.  handleResult holds the    *)
(* lock of the map for the whole message.                                   *)
(***************************************************************************)
EXTENDS Tasmota

CONSTANTS
    Queries,   \* calls of checkClosedWithStatus3
    Target,    \* the identifier each one asks for
    DeviceOf,  \* the device it belongs to
    Payloads,  \* messages on stat/<bridge>/RESULT
    None

ASSUME QueriesAssumption == /\ \A q \in Queries : Target[q] \in Identifiers
                            /\ None \notin Queries

\* What JSON and the firmware give: items in a list, identifiers that are strings,
\* and powers that are 0 or 1.
ASSUME PayloadsAssumption ==
    \A msg \in Payloads :
        /\ msg.json \in BOOLEAN
        /\ msg.json => \A i \in DOMAIN msg.ZbStatus3 :
              /\ i \in Nat
              /\ Given(msg.ZbStatus3[i].Name, "string", Identifiers)
              /\ Given(msg.ZbStatus3[i].Device, "string", Identifiers)
              /\ Given(msg.ZbStatus3[i].Power, "number", {"on", "off"})

VARIABLES
    qpc,     \* per query, where it is
    chs,     \* zbStatus3Chs: per key, the query whose channel is registered
    buf,     \* per query, its channel of capacity 1
    answer,  \* per query, the result it has received
    alone    \* history variable: no other query of its device has overlapped it

vars == <<qpc, chs, buf, answer, alone>>

Key(q) == DispatchKey(Target[q])
Keys == {Key(q) : q \in Queries}

\* An identifier names one device of the bridge, and an item of an answer is
\* about one device.
ASSUME DevicesAssumption ==
    \A p, q \in Queries :
        /\ Key(p) = Key(q) => DeviceOf[p] = DeviceOf[q]
        /\ \A msg \in Payloads : msg.json => \A i \in DOMAIN msg.ZbStatus3 :
              /\ SameId(Target[p], StringField(msg.ZbStatus3[i].Name))
              /\ SameId(Target[q], StringField(msg.ZbStatus3[i].Device))
              => DeviceOf[p] = DeviceOf[q]

Active(q) == qpc[q] \in {"publish", "wait", "cleanup"}

Init ==
    /\ qpc = [q \in Queries |-> "new"]
    /\ chs = [k \in Keys |-> None]
    /\ buf = [q \in Queries |-> <<>>]
    /\ answer = [q \in Queries |-> <<>>]
    /\ alone = [q \in Queries |-> TRUE]

\* Manager.SendZbStatus3 does not find the bridge.
NoBridge(q) ==
    /\ qpc[q] = "new"
    /\ qpc' = [qpc EXCEPT ![q] = "over"]
    /\ UNCHANGED <<chs, buf, answer, alone>>

\* A channel that is registered under the same key is replaced.
Register(q) ==
    LET others == {p \in Queries \ {q} : Active(p) /\ DeviceOf[p] = DeviceOf[q]} IN
    /\ qpc[q] = "new"
    /\ chs' = [chs EXCEPT ![Key(q)] = q]
    /\ alone' = [p \in Queries |-> alone[p] /\ p \notin others /\ (p = q => others = {})]
    /\ qpc' = [qpc EXCEPT ![q] = "publish"]
    /\ UNCHANGED <<buf, answer>>

Publish(q) ==
    /\ qpc[q] = "publish"
    /\ qpc' = [qpc EXCEPT ![q] = "wait"]
    /\ UNCHANGED <<chs, buf, answer, alone>>

\* Mutant of GiveUp: an early return without the deferred function.
GiveUp_return(q) ==
    /\ qpc[q] \in {"publish", "wait"}
    /\ qpc' = [qpc EXCEPT ![q] = IF @ = "publish" THEN "over" ELSE "cleanup"]
    /\ UNCHANGED <<chs, buf, answer, alone>>

\* Mutant of GiveUp: the wait for the answer has no timeout.
GiveUp_never(q) ==
    /\ qpc[q] = "publish"
    /\ qpc' = [qpc EXCEPT ![q] = "cleanup"]
    /\ UNCHANGED <<chs, buf, answer, alone>>

\* The publish fails, the timeout passes, or the context of ten seconds ends.
GiveUp(q) ==
    /\ qpc[q] \in {"publish", "wait"}
    /\ qpc' = [qpc EXCEPT ![q] = "cleanup"]
    /\ UNCHANGED <<chs, buf, answer, alone>>

\* result := <-ch
Receive(q) ==
    /\ qpc[q] = "wait" /\ buf[q] # <<>>
    /\ answer' = [answer EXCEPT ![q] = buf[q]]
    /\ buf' = [buf EXCEPT ![q] = <<>>]
    /\ qpc' = [qpc EXCEPT ![q] = "cleanup"]
    /\ UNCHANGED <<chs, alone>>

\* The deferred function removes the entry of the key, whoever registered it.
\* The channel is garbage from here on, and the answer ends up in the log: as a
\* warning if it says that the valve is on.
Cleanup(q) ==
    /\ qpc[q] = "cleanup"
    /\ chs' = [chs EXCEPT ![Key(q)] = None]
    /\ buf' = [buf EXCEPT ![q] = <<>>]
    /\ answer' = [answer EXCEPT ![q] = <<>>]
    /\ alone' = [alone EXCEPT ![q] = TRUE]
    /\ qpc' = [qpc EXCEPT ![q] = "over"]

\* The waiter registered under an identifier of a result.
WaiterOf(id) == IF id # NoName /\ DispatchKey(id) \in Keys THEN chs[DispatchKey(id)] ELSE None

\* Mutant of Waiter: a result that matches nobody goes to some waiter.
Waiter_any(r) ==
    IF WaiterOf(r.name) # None THEN WaiterOf(r.name)
    ELSE IF WaiterOf(r.addr) # None THEN WaiterOf(r.addr)
    ELSE IF \E k \in Keys : chs[k] # None THEN chs[CHOOSE k \in Keys : chs[k] # None]
    ELSE None

\* The friendly name is tried first; whoever it finds, the address is not.
Waiter(r) == IF WaiterOf(r.name) # None THEN WaiterOf(r.name) ELSE WaiterOf(r.addr)

\* The results of a message that are for query q.
ResultsFor(q, results) == {i \in DOMAIN results : Waiter(results[i]) = q}

\* Mutant of Deliver: a channel with room for more than one answer.
Deliver_append(q, results) ==
    IF ResultsFor(q, results) = {} THEN buf[q]
    ELSE Append(buf[q], results[First(ResultsFor(q, results))])

\* Sends that do not block: the first result fills a channel that is empty, any
\* other is dropped.
Deliver(q, results) ==
    IF buf[q] # <<>> \/ ResultsFor(q, results) = {} THEN buf[q]
    ELSE <<results[First(ResultsFor(q, results))]>>

Routed(msg) == [q \in Queries |-> Deliver(q, ParseZbStatus3ValvePower(msg))]

HandleResult(msg) ==
    /\ buf' = Routed(msg)
    /\ UNCHANGED <<qpc, chs, answer, alone>>

-----------------------------------------------------------------------------
QueryNext(q) == \/ NoBridge(q) \/ Register(q) \/ Publish(q) \/ GiveUp(q)
                \/ Receive(q) \/ Cleanup(q)

Next == \/ \E q \in Queries : QueryNext(q)
        \/ \E msg \in Payloads : HandleResult(msg)

Spec == Init /\ [][Next]_vars

\* The goroutine goes on, and the timeouts fire.
FairSpec == Spec /\ \A q \in Queries : WF_vars(Active(q) /\ QueryNext(q))

-----------------------------------------------------------------------------
(* Properties.                                                             *)

\* Every variable has its type; a channel holds one answer at most.
TypeOK ==
    /\ qpc \in [Queries -> {"new", "publish", "wait", "cleanup", "over"}]
    /\ chs \in [Keys -> Queries \cup {None}]
    /\ \A q \in Queries : \A b \in {buf[q], answer[q]} :
          b = <<>> \/ (Len(b) = 1 /\ b[1].power \in {"on", "off", "absent"})
    /\ alone \in [Queries -> BOOLEAN]

\* The map holds channels of queries under way only, under their own keys, even
\* when queries of one device replace and remove each other's entries.
NoStaleEntry == \A k \in Keys : chs[k] # None => Active(chs[k]) /\ Key(chs[k]) = k

\* A query is only ever given a result about the device it asked for.
RightDevice == \A q \in Queries : \A b \in {buf[q], answer[q]} : b # <<>> =>
    SameId(Target[q], b[1].name) \/ SameId(Target[q], b[1].addr)

\* A message that can be decoded and has an item about the device of q.
Answers(msg, q) ==
    /\ msg.json /\ \A i \in DOMAIN msg.ZbStatus3 : Decodes(msg.ZbStatus3[i])
    /\ \E i \in DOMAIN msg.ZbStatus3 :
          \/ SameId(Target[q], StringField(msg.ZbStatus3[i].Name))
          \/ SameId(Target[q], StringField(msg.ZbStatus3[i].Device))

\* A query that no other query of its device has overlapped hears every proper
\* answer: it has one, or the next message with one gets through, whichever
\* identifier it asked with and in whichever case.
Heard == \A q \in Queries : alone[q] /\ qpc[q] \in {"publish", "wait"} =>
    \A msg \in Payloads : Answers(msg, q) => Routed(msg)[q] # <<>>

\* Every query comes to an end and leaves no entry behind, whether or not the
\* bridge answers.
QueriesEnd == \A q \in Queries : Active(q) ~> qpc[q] = "over" /\ chs[Key(q)] # q
=============================================================================
