------------------------------ MODULE Tasmota ------------------------------
(***************************************************************************)
(* What a bridge puts on the wire and what is kept of it: the parsers of    *)
(* internal/mqtt/tasmota.go, and dispatchKey of dispatcher.go.              *)
(*                                                                         *)
(* A JSON field is a record with the kind of its value; "other" stands for  *)
(* a value of a type the code does not expect.  Power 1 is "on", 0 "off".   *)
(* The remaining fields of a report are parsed like Power and nothing reads *)
(* them.                                                                    *)
(***************************************************************************)
EXTENDS Naturals, Sequences

CONSTANT NoName  \* the empty string, as an identifier

\* An identifier is a short address, in either case, or a friendly name, whose
\* text is taken as it is.
Identifiers == {id \in [hex : BOOLEAN, text : STRING, upper : BOOLEAN] : id.upper => id.hex}

ASSUME NoNameAssumption == NoName \notin Identifiers

\* Mutant of DispatchKey: addresses are taken as they are spelled.
DispatchKey_verbatim(id) == id

\* dispatchKey: short addresses are folded to upper case, names are verbatim.
DispatchKey(id) == IF id.hex THEN [id EXCEPT !.upper = TRUE] ELSE id

\* The same identifier, for a reader of the wire: Zigbee does not care about the
\* case of an address.
SameId(a, b) == a # NoName /\ b # NoName /\ a.hex = b.hex /\ a.text = b.text

\* The first of some positions in a list.
First(S) == CHOOSE i \in S : \A j \in S : i <= j

Absent == [json |-> "absent"]
Null   == [json |-> "null"]
Other  == [json |-> "other"]
Str(s) == [json |-> "string", val |-> s]
Num(n) == [json |-> "number", val |-> n]

\* What a field of some kind may hold.
Given(f, kind, values) == f.json = kind => f.val \in values

\* The zero value unless the field holds a string.
StringField(f) == IF f.json = "string" THEN f.val ELSE NoName

\* Mutant of IntField: the error is not looked at.
IntField_unchecked(f) == CASE f.json = "number" -> f.val
                           [] f.json = "absent" -> "absent"
                           [] OTHER -> "off"

\* json.Unmarshal into an int of its own: null is no error and leaves zero.
IntField(f) == IF f.json = "number" THEN f.val
               ELSE IF f.json = "null" THEN "off" ELSE "absent"

\* ParseSensorPayload: an entry that is no object, or names no device, is
\* skipped; a field of the wrong type counts as missing.
SensorEvent(e) == [name  |-> StringField(e.Name),
                   addr  |-> StringField(e.Device),
                   power |-> IntField(e.Power)]

ParseSensorPayload(msg) ==
    IF ~msg.json THEN {}
    ELSE {ev \in {SensorEvent(e) : e \in {x \in msg.ZbReceived : x.object}} :
            ev.name # NoName \/ ev.addr # NoName}

\* Decoding into a struct: null leaves a pointer nil, and one value of the wrong
\* type anywhere makes the whole decoding fail.
ValveResult(item) ==
    [name  |-> StringField(item.Name),
     addr  |-> StringField(item.Device),
     power |-> IF item.Power.json = "number" THEN item.Power.val ELSE "absent"]

Decodes(item) == /\ item.Name.json \in {"absent", "null", "string"}
                 /\ item.Device.json \in {"absent", "null", "string"}
                 /\ item.Power.json \in {"absent", "null", "number"}

\* The results, by the index of their item: an item that names nothing has none.
ParseZbStatus3ValvePower(msg) ==
    IF ~msg.json \/ \E i \in DOMAIN msg.ZbStatus3 : ~Decodes(msg.ZbStatus3[i]) THEN <<>>
    ELSE LET results == [i \in DOMAIN msg.ZbStatus3 |-> ValveResult(msg.ZbStatus3[i])]
             named == {i \in DOMAIN results : results[i].name # NoName \/ results[i].addr # NoName}
         IN  [i \in named |-> results[i]]
=============================================================================
