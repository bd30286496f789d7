--------------------------- MODULE MCStatusQuery ---------------------------
(***************************************************************************)
(* Constant values for model checking StatusQuery: three queries of one     *)
(* valve, by its address in both spellings and by its name, and one of      *)
(* another valve.                                                           *)
(***************************************************************************)
EXTENDS StatusQuery, TLC

CONSTANTS q1, q2, q3, q4

Named(t) == [hex |-> FALSE, text |-> t, upper |-> FALSE]
Addr(t, u) == [hex |-> TRUE, text |-> t, upper |-> u]

Targets == (q1 :> Addr("da76", FALSE)) @@ (q2 :> Addr("da76", TRUE))
           @@ (q3 :> Named("valve")) @@ (q4 :> Addr("beef", TRUE))
Devices == (q1 :> "v") @@ (q2 :> "v") @@ (q3 :> "v") @@ (q4 :> "w")

Item(name, addr, power) == [Name |-> name, Device |-> Str(Addr(addr, TRUE)), Power |-> power]
Status3(items) == [json |-> TRUE, ZbStatus3 |-> items]

V(power) == Item(Str(Named("valve")), "da76", power)
W == Item(Absent, "beef", Null)

\* Answers for one valve, for both (the second without a power), one with a
\* value of the wrong type beside a proper item, none, and no JSON at all.
MCPayloads == {Status3(<<V(Num("on"))>>), Status3(<<V(Num("off")), W>>),
               Status3(<<V(Other), W>>), Status3(<<>>), [json |-> FALSE]}
=============================================================================
