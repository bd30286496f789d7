--------------------------- MODULE ActionService ---------------------------
(***************************************************************************)
(* What a pipeline promises the callers of Scheduler.Open and Close, with  *)
(* the device, the retries and the keep-closed ping left out: accepted      *)
(* actions are executed one at a time in the order of acceptance, each      *)
(* comes to one outcome that never changes afterwards, and an accepted      *)
(* action is only ever discarded while another one is being offered.        *)
(***************************************************************************)
EXTENDS Naturals, Sequences

CONSTANTS Requests, QueueCap

VARIABLES status, line, result

svars == <<status, line, result>>

Statuses == {"new", "rejected", "offered", "waiting", "running", "finished",
             "dropped"}
Outcomes == {"fulfilled", "failed", "cancelled"}

ServiceInit == /\ status = [r \in Requests |-> "new"]
               /\ line = <<>>
               /\ result = [r \in Requests |-> "none"]

Offer(r) == /\ status[r] = "new"
            /\ \E s \in {"offered", "rejected"} :
                  status' = [status EXCEPT ![r] = s]
            /\ UNCHANGED <<line, result>>

Accept(r) == /\ status[r] = "offered"
             /\ Len(line) < QueueCap
             /\ line' = Append(line, r)
             /\ status' = [status EXCEPT ![r] = "waiting"]
             /\ UNCHANGED result

Discard == /\ line # <<>>
           /\ \E r \in Requests : status[r] = "offered"
           /\ status' = [status EXCEPT ![Head(line)] = "dropped"]
           /\ line' = Tail(line)
           /\ UNCHANGED result

Start == /\ line # <<>>
         /\ \A r \in Requests : status[r] # "running"
         /\ status' = [status EXCEPT ![Head(line)] = "running"]
         /\ line' = Tail(line)
         /\ UNCHANGED result

Finish(r) == /\ status[r] = "running"
             /\ status' = [status EXCEPT ![r] = "finished"]
             /\ \E o \in Outcomes : result' = [result EXCEPT ![r] = o]
             /\ UNCHANGED line

ServiceNext == \/ \E r \in Requests : Offer(r) \/ Accept(r) \/ Finish(r)
               \/ Discard \/ Start

ServiceSpec == ServiceInit /\ [][ServiceNext]_svars
=============================================================================
