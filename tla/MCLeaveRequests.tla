--------------------------- MODULE MCLeaveRequests ---------------------------
(* Model values and bounds for TLC's run of LeaveRequests. The run explores   *)
(* two scopes side by side: one request through a workflow of two stages, its *)
(* settings changing under it, and two requests that compete for dates and    *)
(* balance in a workflow of one stage.                                        *)
EXTENDS LeaveRequests, TLC

CONSTANTS r1, r2, t1, supervisor, w1, w2

VARIABLE scope

\* A tracked type, by approval while active and directly once retired, or one that is
\* no longer tracked.
MCTypeSettings ==
    {[requires_balance |-> tracked, allow_negative_balance |-> FALSE, requires_approval |-> active, is_active |-> active] :
        <<tracked, active>> \in {<<TRUE, TRUE>>, <<TRUE, FALSE>>, <<FALSE, TRUE>>}}
MCWeeks == {Days, {1}}

InScope ==
    IF scope = "workflow"
    THEN /\ Cardinality({r \in Requests : requests[r].status # "absent"}) <= 1
         /\ setup.anchor = 1 \/ setup.working = Days
    ELSE stages[2] = None /\ setup = [anchor |-> 1, working |-> Days] /\ types[t1].requires_balance

MCInit == Init /\ scope \in {"workflow", "competition"} /\ InScope
\* A retired type stays retired; two competing requests are of a type that does not change.
TypesInScope ==
    /\ types'[t1].is_active => types[t1].is_active
    /\ scope = "competition" => UNCHANGED types

MCNext == Next /\ UNCHANGED scope /\ InScope' /\ TypesInScope
MCSpec == MCInit /\ [][MCNext]_<<vars, scope>>

MCSymmetry == Permutations({r1, r2}) \cup Permutations({w1, w2})
=============================================================================
