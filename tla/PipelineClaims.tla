--------------------------- MODULE PipelineClaims ---------------------------
(***************************************************************************)
(* Statements that comments and API documentation make about the pipeline  *)
(* and that Pipeline, the model of what the code does, does not satisfy.   *)
(* Each is the subject of one run whose counterexample is described in the *)
(* README.                                                                 *)
(***************************************************************************)
EXTENDS Pipeline

\* HoldsValveOpen: an action that holds the valve open "must not be overridden
\* by the keep-closed safety ping" (action.go).  So the ping must not be
\* publishing OFF while a timed open that nobody cancelled waits out its time.
HoldNotOverridden == ~(ppc = "send" /\ pc = "hold" /\ ~actDone /\ ~ctxDone)

\* Enqueue: "If a close action arrives while an open is active, the active
\* action is cancelled": it starts no further attempt to open the valve.
CancelledOpenStops == [][attempt > 0 /\ Attempt /\ Command = "on" => ~actDone]_vars
=============================================================================
