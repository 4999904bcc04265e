------------------------------ MODULE Handoff ------------------------------
(***************************************************************************)
(* One handoff between two daemons: the source outbox, the target          *)
(* application and the mesh path between them, with the faults the code    *)
(* handles - lost and orphaned requests, abandoned calls, failed writes,   *)
(* and crashes of either daemon between any two durable steps.             *)
(***************************************************************************)
EXTENDS HandoffSource, HandoffTarget

vars == <<channelVars, sourceVars, targetVars>>

Init == ChannelInit /\ SourceInit /\ TargetInit

Next ==
    \/ SourceNext /\ UNCHANGED targetVars
    \/ TargetNext /\ UNCHANGED sourceVars
    \/ (\E r \in reqs : RequestLost(r)) /\ UNCHANGED <<sourceVars, targetVars>>

Spec == Init /\ [][Next]_vars

TypeOK == ChannelTypeOK /\ SourceTypeOK /\ TargetTypeOK

-----------------------------------------------------------------------------
(* Safety.                                                                  *)

\* Every record the two stores ever write satisfies the store's own
\* validation (record.validate), so no write is refused and no file the
\* daemons wrote is rejected after a restart.
RecordsValid == ValidSource(source) /\ ValidTarget(target)

\* No step asks a store for a transition outside its table, whatever the
\* interleaving of replies, retries, reconcile passes and restarts.
OnlyLegalTransitions ==
    [][/\ source'.state # source.state =>
             source.state = Absent \/ legalSourceTransition(source.state, source'.state)
       /\ target'.state # target.state =>
             target.state = Absent \/ legalTargetTransition(target.state, target'.state)]_vars

\* "A restart can never infer launch authority from preparation alone": until
\* an operator launches, the target has no launch state, no continuation and
\* no prompt, however often either side crashes, retries or reconciles.
NoLaunchWithoutGrant ==
    ~granted => /\ target.state \notin LaunchStates
                /\ spawned = {}
                /\ \A s \in Sessions : sent[s] = 0

\* An accepted source names the continuation the target accepted, and the
\* launch prompt was submitted to exactly that session.  (Whether its agent
\* read it only the acknowledgement tells: see ReleaseAfterLoad.)
AcceptedAgree ==
    source.state = "accepted" =>
        /\ target.state = "accepted"
        /\ target.locator = source.locator
        /\ sent[source.locator] > 0

\* The handoff closes the source session only after the continuation it names
\* acknowledged the loaded context: the work is never without an owner.
ReleaseAfterLoad ==
    source.retirement # "none" \/ op \in {"closing", "closed"} \/ closed # "no" =>
        /\ source.loaded # NoAck
        /\ target.loaded # NoAck
        /\ target.state = "accepted"
        /\ sent[target.locator] > 0

\* A handoff the source gave up on is not running at the target, so starting
\* another one cannot produce two owners, whatever got lost, denied, delayed
\* or interrupted: unless the target answered a launch call that it does not
\* recognize the handoff (an unreadable record, a changed device identity),
\* which the source takes for final.
FailedNeverAccepted ==
    source.state = "failed" /\ target.state = "accepted" => misled

-----------------------------------------------------------------------------
(* The abstract specification.                                              *)

Abstract == INSTANCE HandoffSpec WITH
    running <- {s \in Sessions : sent[s] > 0},
    loaded <- target.loaded # NoAck,
    released <- closed # "no"

\* The two daemons together implement HandoffSpec.
ImplementsSpec == Abstract!AbstractSpec

-----------------------------------------------------------------------------
(* Liveness of the preparation.  Calls may time out, requests get lost,      *)
(* writes fail, daemons crash and assets be late, any number of times, but   *)
(* these disturbances stop in the end.  The tickers of both daemons keep     *)
(* running, a request that waits for the target's lock gets it, and a call   *)
(* that nothing will answer any more ends at its timeout.                    *)

CallLost ==
    /\ \A r \in reqs : ~r.live
    /\ ~serving
    /\ reply.kind = "none"

Disturbance ==
    \/ CallFails /\ ~CallLost
    \/ SourceWriteFails \/ SourceCrash
    \/ TargetCrash \/ WorkAborts \/ PrepareWaits
    \/ \E r \in reqs : RequestLost(r)

PrepareServed == \E r \in reqs : r.live /\ PrepareBegin(r)

Fairness ==
    /\ WF_vars(SourceRetryDue /\ UNCHANGED targetVars)
    /\ WF_vars(SourceReconcile /\ UNCHANGED targetVars)
    /\ WF_vars(CallFails /\ CallLost /\ UNCHANGED targetVars)
    /\ WF_vars(PrepareReply /\ UNCHANGED targetVars)
    /\ SF_vars(PrepareServed /\ UNCHANGED sourceVars)
    /\ WF_vars(PrepareResume /\ UNCHANGED sourceVars)
    /\ WF_vars(PrepareVerdict /\ UNCHANGED sourceVars)
    /\ <>[][~Disturbance]_vars

FairSpec == Spec /\ Fairness

\* A queued handoff reaches a prepared target or a definite failure: no reply
\* that sent lost, no orphan and no restart leaves it waiting for ever.
PrepareResolves ==
    source.state = "queued" ~> source.state \in {"remote_prepared", "failed"}
=============================================================================
