----------------------------- MODULE MCRegistry -----------------------------
(***************************************************************************)
(* Constant values for model checking Registry.                            *)
(***************************************************************************)
EXTENDS Registry, TLC

CONSTANTS k1, k2, d1, b1

\* Two valves of one name, in two namespaces.
SameName == [k \in Keys |-> "valve"]

MCValveSpecs == {[retry |-> 0, disabled |-> FALSE], [retry |-> 2, disabled |-> TRUE]}

\* The device belongs to one of the valves.
MCDeviceSpecs == [ref : Keys, bridge : {b1}, disabled : {FALSE}]

Plain == [spec |-> [retry |-> 0, disabled |-> FALSE], deleting |-> FALSE, ready |-> TRUE]

\* One valve set up, as after a restart; the other one not there.
OneValve == {[valve  |-> (k1 :> Plain) @@ (k2 :> None),
              device |-> d1 :> [ref |-> k1, bridge |-> b1, disabled |-> FALSE],
              bridge |-> b1 :> "s1"]}
=============================================================================
