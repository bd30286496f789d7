---------------------------- MODULE TasmotaProofs ----------------------------
(***************************************************************************)
(* Facts about the operators of Tasmota that the proofs about its users     *)
(* need.                                                                    *)
(***************************************************************************)
EXTENDS Tasmota, WellFoundedInduction, TLAPS

\* A list that is not empty has a first item.
LEMMA FirstIsLeast ==
    ASSUME NEW S, S \subseteq Nat, S # {}
    PROVE  First(S) \in S /\ \A j \in S : First(S) <= j
<1> DEFINE R == OpToRel(<, Nat)
<1>1. \E x \in S : \A y \in S : ~ (<<y, x>> \in R)
  <2>1. IsWellFoundedOn(R, Nat)
    BY NatLessThanWellFounded
  <2> HIDE DEF R
  <2> QED BY <2>1, WFMin
<1>2. \A x, y \in Nat : <<y, x>> \notin R => x <= y
  BY DEF OpToRel
<1> HIDE DEF R
<1>3. \E x \in S : \A y \in S : x <= y
  BY <1>1, <1>2
<1> QED BY <1>3, Zenon DEF First

\* dispatchKey tells two identifiers apart exactly when a reader of the wire does.
LEMMA DispatchKeySame ==
    ASSUME NEW a \in Identifiers, NEW b \in Identifiers
    PROVE  DispatchKey(a) = DispatchKey(b) <=> SameId(a, b)
<1>1. /\ a \in [hex : BOOLEAN, text : STRING, upper : BOOLEAN] /\ (a.upper => a.hex)
      /\ b \in [hex : BOOLEAN, text : STRING, upper : BOOLEAN] /\ (b.upper => b.hex)
      /\ a # NoName /\ b # NoName
  BY NoNameAssumption DEF Identifiers
<1>2. /\ a = [hex |-> a.hex, text |-> a.text, upper |-> a.upper]
      /\ b = [hex |-> b.hex, text |-> b.text, upper |-> b.upper]
      /\ a.upper \in BOOLEAN /\ b.upper \in BOOLEAN /\ a.hex \in BOOLEAN /\ b.hex \in BOOLEAN
  BY <1>1
<1>3. /\ a.hex => DispatchKey(a) = [hex |-> a.hex, text |-> a.text, upper |-> TRUE]
      /\ ~a.hex => DispatchKey(a) = [hex |-> a.hex, text |-> a.text, upper |-> FALSE]
  BY <1>1, <1>2 DEF DispatchKey
<1>4. /\ b.hex => DispatchKey(b) = [hex |-> b.hex, text |-> b.text, upper |-> TRUE]
      /\ ~b.hex => DispatchKey(b) = [hex |-> b.hex, text |-> b.text, upper |-> FALSE]
  BY <1>1, <1>2 DEF DispatchKey
<1>5. DispatchKey(a) = DispatchKey(b) => a.hex = b.hex /\ a.text = b.text
  BY <1>2, <1>3, <1>4
<1>6. a.hex = b.hex /\ a.text = b.text => DispatchKey(a) = DispatchKey(b)
  BY <1>2, <1>3, <1>4
<1> QED BY <1>1, <1>5, <1>6 DEF SameId
=============================================================================
