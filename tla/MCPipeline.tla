----------------------------- MODULE MCPipeline -----------------------------
(***************************************************************************)
(* Constant values for model checking Pipeline.                            *)
(***************************************************************************)
EXTENDS PipelineClaims, TLC

CONSTANTS r1, r2

OneRequest == {r1}
TwoRequests == {r1, r2}

\* MaxOpenDuration unset, one attempt, a close is sent once.
Plain == [disabled |-> FALSE, retryCount |-> 1, maxOpen |-> 0, closeRepeat |-> 1]
\* Two attempts, a close is sent twice per attempt, opens limited.
Retrying == [disabled |-> FALSE, retryCount |-> 2, maxOpen |-> 1, closeRepeat |-> 2]
\* No opens at all, and another limit for the one that is under way.
Disabled == [disabled |-> TRUE, retryCount |-> 1, maxOpen |-> 2, closeRepeat |-> 1]
\* One attempt, opens limited.
Limited == [disabled |-> FALSE, retryCount |-> 1, maxOpen |-> 1, closeRepeat |-> 1]
\* Two attempts, opens without limit.
Unlimited == [disabled |-> FALSE, retryCount |-> 2, maxOpen |-> 0, closeRepeat |-> 1]

PlainOnly == {Plain}
RetryingOnly == {Retrying}
LimitedConfigs == {Limited, Disabled}
MixedConfigs == {Retrying, Unlimited}

\* cr, pid and the value waiting in pend are written and never read by the code
\* modelled here: states that differ only in them have the same future.
ControlView == <<callVars, act, current, history, recorded, cfg, ctxVars, pc, job,
                 phase, tryVars, pend.next, ppc, pleft, waiter, envVars, acked, last>>

Swap == Permutations({r1, r2})
=============================================================================
