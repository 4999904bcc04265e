--------------------------- MODULE HandoffSource ---------------------------
(***************************************************************************)
(* The source daemon of one handoff (internal/daemon/handoff_outbox.go):   *)
(* the durable outbox, its operator commands prepare, retry, launch,       *)
(* verify and retire, the reconcile pass, and the source session that is   *)
(* being handed off.  The per-ID lock is held by "op" across the whole     *)
(* attempt, the remote call included.                                      *)
(***************************************************************************)
EXTENDS HandoffChannel

CONSTANT MaxTurns    \* bound on the turns of the source session

ASSUME MaxTurnsAssumption == MaxTurns \in Nat

VARIABLES
    source,    \* the durable source record
    op,        \* what the holder of the per-ID lock is doing
    local,     \* the source session as the local catalog shows it
    granted,   \* history: an operator asked for the launch
    closed,    \* history: how the handoff closed the source session
    misled     \* history: the launch was given up because the target did not
               \* recognize the handoff

sourceVars == <<source, op, local, granted, closed, misled>>

Ops == {"none", "prepare", "launch", "verify", "retire", "closing", "closed"}

\* ended: a turn_end is recorded that is later than the retirement request.
Local == [state : {"live", "exited", "missing"}, turns : Nat,
          busy : BOOLEAN, ended : BOOLEAN]

SourceTypeOK ==
    /\ source \in SourceRecord
    /\ op \in Ops
    /\ local \in Local
    /\ granted \in BOOLEAN
    /\ closed \in {"no", "clean", "later_turn"}
    /\ misled \in BOOLEAN

SourceInit ==
    /\ source = NoSource
    /\ op = "none"
    /\ local = [state |-> "live", turns |-> 0, busy |-> FALSE, ended |-> FALSE]
    /\ granted = FALSE
    /\ closed = "no"
    /\ misled = FALSE

-----------------------------------------------------------------------------
(* Outbound calls.                                                          *)

\* prepare queues the durable intent; its attempt is the one
\* SourceReconcile makes on a queued record.
SourcePrepare ==
    /\ source.state = Absent
    /\ local.state # "missing"
    /\ source' = QueueSource
    /\ UNCHANGED <<channelVars, op, local, granted, closed, misled>>

\* attempt makes one prepare call; only a forced one ignores the deadline.
attempt(force) ==
    /\ op = "none"
    /\ source.state \in {"queued", "retry_wait", "preparing_remote"}
    /\ source.state = "retry_wait" => force \/ source.retry = "due"
    /\ source' = IF source.state = "preparing_remote" THEN source
                 ELSE TransitionSource(source, "preparing_remote", NoSession)
    /\ op' = "prepare"
    /\ Call("prepare")
    /\ UNCHANGED <<local, granted, closed, misled>>

\* attemptLaunch on a handoff whose launch is already authorized.
attemptLaunch(force) ==
    /\ op = "none"
    /\ source.state \in {"launching_remote", "launch_retry_wait"}
    /\ source.state = "launch_retry_wait" => force \/ source.retry = "due"
    /\ source' = IF source.state = "launching_remote" THEN source
                 ELSE TransitionSource(source, "launching_remote", NoSession)
    /\ op' = "launch"
    /\ Call("launch")
    /\ UNCHANGED <<local, granted, closed, misled>>

\* launch by an operator on a prepared handoff: the authorization boundary.
SourceLaunch ==
    /\ op = "none"
    /\ source.state = "remote_prepared"
    /\ source' = TransitionSource(source, "launching_remote", NoSession)
    /\ op' = "launch"
    /\ granted' = TRUE
    /\ Call("launch")
    /\ UNCHANGED <<local, closed, misled>>

\* retry and a repeated launch.
SourceRetry ==
    \/ source.state = "retry_wait" /\ attempt(TRUE)
    \/ attemptLaunch(TRUE)

SourceVerify ==
    /\ op = "none"
    /\ source.state = "accepted"
    /\ op' = "verify"
    /\ Call("verify")
    /\ UNCHANGED <<source, local, granted, closed, misled>>

SourceRetryDue ==
    /\ source.retry = "later"
    /\ source' = [source EXCEPT !.retry = "due"]
    /\ UNCHANGED <<channelVars, op, local, granted, closed, misled>>

-----------------------------------------------------------------------------
(* What a response does to the record.                                      *)

SourceWrites(r) ==
    /\ source' = r
    /\ op' = "none"
    /\ reply' = NoReply
    /\ misled' = (misled \/ (op = "launch" /\ r.state = "failed" /\ reply.kind = "unrecognized"))
    /\ UNCHANGED <<reqs, serving, local, granted, closed>>

transitionRetry == SourceWrites(TransitionSource(source, "retry_wait", NoSession))
transitionLaunchRetry == SourceWrites(TransitionSource(source, "launch_retry_wait", NoSession))
transitionFailed == SourceWrites(TransitionSource(source, "failed", NoSession))

sourceCallRetryable(code) ==
    code \notin {"permission_denied", "invalid_request", "unrecognized"}

\* Mutant: a denied launch call is final although the target may be launching.
sourceLaunchCallDeniedIsFinal(code) ==
    code \notin {"permission_denied", "invalid_request", "unrecognized"}

sourceLaunchCallRetryable(code) == code \notin {"invalid_request", "unrecognized"}

PrepareReply ==
    /\ op = "prepare"
    /\ reply.kind # "none"
    /\ IF reply.kind # "status"
       THEN IF sourceCallRetryable(reply.kind) THEN transitionRetry ELSE transitionFailed
       ELSE \/ /\ reply.state = "prepared"
               /\ SourceWrites(TransitionSource(source, "remote_prepared", NoSession))
            \/ /\ reply.state \in {"received", "validating", "waiting_assets"}
               /\ transitionRetry
            \/ /\ reply.state \notin {"prepared", "received", "validating", "waiting_assets"}
               /\ transitionFailed

LaunchReply ==
    /\ op = "launch"
    /\ reply.kind # "none"
    /\ IF reply.kind # "status"
       THEN IF sourceLaunchCallRetryable(reply.kind) THEN transitionLaunchRetry ELSE transitionFailed
       ELSE \/ /\ reply.state = "accepted" /\ reply.locator # NoSession
               /\ SourceWrites(TransitionSource(source, "accepted", reply.locator))
            \/ /\ reply.state \in {"launching", "launch_waiting_assets"}
               /\ transitionLaunchRetry
            \/ /\ reply.state \notin {"launching", "launch_waiting_assets"}
               /\ reply.state = "accepted" => reply.locator = NoSession
               /\ transitionFailed

\* verify records a proof for the exact locator; every other outcome leaves
\* the record alone.
VerifyReply ==
    /\ op = "verify"
    /\ reply.kind # "none"
    /\ SourceWrites(IF /\ reply.kind = "verification"
                       /\ reply.locator = source.locator
                       /\ reply.loaded # NoAck
                    THEN RecordSourceContextLoaded(source, reply.loaded)
                    ELSE source)

\* The call ends without a response: timeout, disconnect or backpressure.
CallFails ==
    /\ op \in {"prepare", "launch", "verify"}
    /\ Abandon
    /\ source' = CASE op = "prepare" -> TransitionSource(source, "retry_wait", NoSession)
                   [] op = "launch"  -> TransitionSource(source, "launch_retry_wait", NoSession)
                   [] op = "verify"  -> source
    /\ op' = "none"
    /\ UNCHANGED <<local, granted, closed, misled>>

\* The store refuses the write that should follow a response or a close.
SourceWriteFails ==
    /\ \/ op \in {"prepare", "launch", "verify"} /\ reply.kind # "none"
       \/ op = "retire" /\ local.state = "exited"
       \/ op = "closed"
    /\ SourceWrites(source)

-----------------------------------------------------------------------------
(* Retirement.                                                              *)

\* Mutant: acceptance alone allows the retirement.
RetirementAllowedUnverified == source.state = "accepted"

RetirementAllowed == source.state = "accepted" /\ source.loaded # NoAck

\* retire: the request is durable before anything is closed; immediate mode
\* goes on under the same lock, and so does a repeated immediate request.
Retire(mode) ==
    /\ op = "none"
    /\ RetirementAllowed
    /\ \/ /\ source.retirement = "none"
          /\ local.state # "missing"
          /\ source' = RequestSourceRetirement(source, mode, local.turns)
          /\ local' = [local EXCEPT !.ended = FALSE]
       \/ /\ source.retirement = "pending" /\ source.mode = mode /\ mode = "immediate"
          /\ UNCHANGED <<source, local>>
    /\ op' = IF mode = "immediate" THEN "retire" ELSE "none"
    /\ UNCHANGED <<channelVars, granted, closed, misled>>

\* reconcile picks up a runnable record: a prepare or an authorized launch
\* whose time has come, or a pending retirement.
SourceReconcile ==
    /\ RunnableSource(source)
    /\ \/ attempt(FALSE)
       \/ attemptLaunch(FALSE)
       \/ /\ op = "none"
          /\ source.state = "accepted"
          /\ op' = "retire"
          /\ UNCHANGED <<channelVars, source, local, granted, closed, misled>>

\* Mutant: the turn after the one that asked has to end.
sourceAfterTurnRetirementLate ==
    local.turns > source.baseline /\ local.ended

sourceAfterTurnRetirementReady ==
    local.turns = source.baseline /\ local.ended

\* retirePending up to the call that closes the session.
RetirePending ==
    /\ op = "retire"
    /\ \/ /\ local.state = "exited"
          /\ source' = CompleteSourceRetirement(source)
          /\ op' = "none"
       \/ /\ \/ local.state = "missing"
             \/ /\ local.state = "live" /\ source.mode = "after_turn_end"
                /\ ~sourceAfterTurnRetirementReady
          /\ op' = "none"
          /\ UNCHANGED source
       \/ /\ local.state = "live"
          /\ source.mode = "after_turn_end" => sourceAfterTurnRetirementReady
          /\ op' = "closing"
          /\ UNCHANGED source
    /\ UNCHANGED <<channelVars, local, granted, closed, misled>>

\* Kill interrupts the agent and waits before it kills the pane, and reports
\* success only when the exact pane is gone.
CloseSource ==
    /\ op = "closing"
    /\ \/ /\ local.state = "live"
          /\ local' = [local EXCEPT !.state = "exited", !.busy = FALSE]
          /\ closed' = IF source.mode = "after_turn_end" /\ local.turns # source.baseline
                       THEN "later_turn" ELSE "clean"
          /\ op' = "closed"
       \/ /\ local.state = "exited"
          /\ op' = "closed"
          /\ UNCHANGED <<local, closed>>
       \/ /\ op' = "none"
          /\ UNCHANGED <<local, closed>>
    /\ UNCHANGED <<channelVars, source, granted, misled>>

\* The second catalog lookup: only an exited session completes the request.
ConfirmClosed ==
    /\ op = "closed"
    /\ source' = IF local.state = "exited" THEN CompleteSourceRetirement(source) ELSE source
    /\ op' = "none"
    /\ UNCHANGED <<channelVars, local, granted, closed, misled>>

-----------------------------------------------------------------------------
(* The source session and the daemon itself.                                *)

LocalChanges(l) ==
    /\ local.state = "live"
    /\ local' = l
    /\ UNCHANGED <<channelVars, source, op, granted, closed, misled>>

PromptSubmit ==
    /\ local.turns < MaxTurns
    /\ LocalChanges([local EXCEPT !.turns = @ + 1, !.busy = TRUE])

TurnEnd ==
    /\ local.busy
    /\ LocalChanges([local EXCEPT !.busy = FALSE, !.ended = source.retirement # "none"])

LocalExits == LocalChanges([local EXCEPT !.state = "exited", !.busy = FALSE])

\* The daemon dies and comes back.  Exited sessions are not in its inventory,
\* and a live one is dropped when the restore's pane query fails.
SourceCrash ==
    /\ op' = "none"
    /\ Abandon
    /\ \/ local' = [local EXCEPT !.state = "missing", !.busy = FALSE]
       \/ local.state = "live" /\ UNCHANGED local
    /\ UNCHANGED <<source, granted, closed, misled>>

SourceNext ==
    \/ SourcePrepare \/ SourceLaunch \/ SourceRetry \/ SourceReconcile
    \/ SourceVerify \/ SourceRetryDue
    \/ PrepareReply \/ LaunchReply \/ VerifyReply \/ CallFails \/ SourceWriteFails
    \/ \E mode \in {"immediate", "after_turn_end"} : Retire(mode)
    \/ RetirePending \/ CloseSource \/ ConfirmClosed
    \/ PromptSubmit \/ TurnEnd \/ LocalExits \/ SourceCrash

=============================================================================
