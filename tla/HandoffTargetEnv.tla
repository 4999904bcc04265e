-------------------------- MODULE HandoffTargetEnv --------------------------
(***************************************************************************)
(* The target daemon against any source: prepare and launch requests reach *)
(* the handlers at any time, in any order and any number of times.  Who    *)
(* waits for the answer makes no difference to the target, so the requests *)
(* are all orphans.                                                        *)
(***************************************************************************)
EXTENDS HandoffTarget

envVars == <<channelVars, targetVars>>

\* handleRequest accepts an authorized request of a peer.
AnyRequest(m) ==
    /\ reqs' = reqs \cup {[method |-> m, live |-> FALSE]}
    /\ UNCHANGED <<serving, reply, targetVars>>

Next ==
    \/ TargetNext
    \/ \E m \in {"prepare", "launch"} : AnyRequest(m)
    \/ (\E r \in reqs : RequestLost(r)) /\ UNCHANGED targetVars

Init == ChannelInit /\ TargetInit

Spec == Init /\ [][Next]_envVars

-----------------------------------------------------------------------------
(* Liveness.  Any number of crashes, aborted operations and waits for        *)
(* assets, tmux or the disk may happen, but they stop in the end.  Then the  *)
(* lock holder keeps moving, handshakes finish, and the reconcile ticker     *)
(* gets its turn at the per-ID lock among the requests.                      *)

LaunchSteps ==
    \/ LaunchRevalidate \/ LaunchReuse
    \/ \E s \in Sessions : LaunchFind(s) \/ LaunchCreate(s)
    \/ LaunchPersist \/ LaunchRecordLocator \/ LaunchPoll \/ LaunchDeliver
    \/ LaunchConfirm \/ LaunchCommit \/ LaunchAccept

Disturbance ==
    \/ TargetCrash
    \/ WorkAborts
    \/ /\ LaunchRevalidate \/ LaunchCreateFails \/ LaunchPersist \/ LaunchCommit
       /\ target'.state = "launch_waiting_assets"

Fairness ==
    /\ WF_envVars(TargetRetryDue)
    /\ WF_envVars(PrepareResume)
    /\ SF_envVars(Reconcile)
    /\ WF_envVars(LaunchSteps)
    /\ \A s \in Sessions : WF_envVars(HandshakeEnds(s))
    /\ <>[][~Disturbance]_envVars

FairSpec == Spec /\ Fairness

\* The poll loop waits on a session that nothing will bring to idle: stuck
\* after a failed delivery, or adrift after a restart during its handshake.
PollsForever ==
    /\ target.locator # NoSession
    /\ sess[target.locator].cmd = "none"
    /\ sess[target.locator].state \in {"stuck", "adrift"}

\* A session was created and lost before the record was bound to it; its
\* pane, while it lives, keeps the deterministic name taken.  (When the pane
\* is gone a new id is needed, and ids are bounded here.)
PaneOrphaned ==
    /\ target.locator = NoSession
    /\ spawned # {}
    /\ \A s \in Sessions : ~Live(s)

\* An authorized launch always gets to accepted or rejected, except through
\* these two: every other interruption, a crash between any two steps
\* included, is recovered by the reconcile pass.
LaunchResolves ==
    []<>(\/ target.state \notin {"launching", "launch_waiting_assets"}
         \/ PollsForever
         \/ PaneOrphaned)
=============================================================================
