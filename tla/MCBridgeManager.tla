--------------------------- MODULE MCBridgeManager ---------------------------
(***************************************************************************)
(* Constant values for model checking BridgeManager.                       *)
(***************************************************************************)
EXTENDS BridgeManager, TLC

CONSTANTS cr1, cr2, n1, n2

Config(n, a) == [name |-> n, addr |-> a]
\* One bridge name per resource, at either address.
OwnName == (cr1 :> {Config(n1, "a1"), Config(n1, "a2")})
        @@ (cr2 :> {Config(n2, "a1"), Config(n2, "a2")})
\* The second resource may take the name of the first, which may move.
Renames == (cr1 :> {Config(n1, "a1"), Config(n1, "a2")})
        @@ (cr2 :> {Config(n1, "a1"), Config(n2, "a1")})
=============================================================================
