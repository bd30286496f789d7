--------------------------- MODULE MCWaitForPower ---------------------------
(***************************************************************************)
(* Constant values for model checking WaitForPower: one device with a      *)
(* friendly name, and a short address that a spec may write in lower case. *)
(***************************************************************************)
EXTENDS WaitForPower, TLC

CONSTANTS w1, w2, s1

Named(t) == [hex |-> FALSE, text |-> t, upper |-> FALSE]
Addr(u)  == [hex |-> TRUE, text |-> "0xda76", upper |-> u]

\* One call subscribes by the address as a hand-written spec spells it, the
\* other by the friendly name.
TwoTargets == (w1 :> Addr(FALSE)) @@ (w2 :> Named("valve"))
TwoExpects == (w1 :> "on") @@ (w2 :> "off")

Entry(name, addr, power) ==
    [object |-> TRUE, Name |-> name, Device |-> addr, Power |-> power]
Sensor(entries) == [json |-> TRUE, ZbReceived |-> entries]

Valve(power) == Entry(Str(Named("valve")), Str(Addr(TRUE)), power)
Unnamed(power) == Entry(Str(Addr(TRUE)), Str(Addr(TRUE)), power)
Anonymous == Entry(Absent, Other, Num("on"))

\* Telemetry with both identifiers; with the address in both places (a device
\* nobody named) beside an entry that names nobody and one that is no object;
\* with a power that is null, missing or of another type; no JSON at all.
MCPayloads == {Sensor({Valve(Num("on"))}), Sensor({Valve(Num("off"))}),
               Sensor({Unnamed(Num("on")), Anonymous, [object |-> FALSE]}),
               Sensor({Valve(Null), Unnamed(Absent)}), Sensor({Valve(Other)}),
               [json |-> FALSE]}
=============================================================================
