-------------------------- MODULE HandoffSourceEnv --------------------------
(***************************************************************************)
(* The source daemon against any target: an outstanding call may be        *)
(* answered with any response at all.                                      *)
(***************************************************************************)
EXTENDS HandoffSource

envVars == <<channelVars, sourceVars>>

\* handleResponse delivers a response to the call that waits for it.
AnyReply(x) ==
    /\ op \in {"prepare", "launch", "verify"}
    /\ reply.kind = "none" /\ x.kind # "none"
    /\ reqs' = {r \in reqs : ~r.live}
    /\ reply' = x
    /\ UNCHANGED <<serving, sourceVars>>

Next ==
    \/ SourceNext
    \/ \E x \in Reply : AnyReply(x)

Init == ChannelInit /\ SourceInit

Spec == Init /\ [][Next]_envVars

-----------------------------------------------------------------------------
(* Liveness.  The reconcile ticker runs every 15 seconds and the per-ID      *)
(* lock is a Go mutex, which is starvation free, so a runnable record is     *)
(* picked up again and again (strong fairness of SourceReconcile); a call    *)
(* ends at its attempt timeout; a turn ends; and a close that is tried       *)
(* over and over succeeds in the end.                                       *)

CloseSucceeds == CloseSource /\ op' = "closed"

Fairness ==
    /\ WF_envVars(CallFails)
    /\ SF_envVars(SourceReconcile)
    /\ SF_envVars(RetirePending)
    /\ SF_envVars(CloseSucceeds)
    /\ SF_envVars(ConfirmClosed)
    /\ WF_envVars(TurnEnd)

FairSpec == Spec /\ Fairness

\* An immediate retirement that was requested is carried out, unless the
\* catalog no longer knows the session: then it stays pending (fail closed).
ImmediateRetires ==
    source.retirement = "pending" /\ source.mode = "immediate" ~>
        source.retirement = "retired" \/ local.state = "missing"

\* An after-turn-end retirement requested during a turn is carried out when
\* that turn ends, unless a later prompt moves the turn count past it.
AfterTurnRetires ==
    source.retirement = "pending" /\ local.busy /\ local.turns = source.baseline ~>
        \/ source.retirement = "retired"
        \/ local.state = "missing"
        \/ local.turns # source.baseline
=============================================================================
