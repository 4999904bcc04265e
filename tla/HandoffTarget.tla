--------------------------- MODULE HandoffTarget ---------------------------
(***************************************************************************)
(* The target daemon of one handoff (internal/daemon/handoff_application.  *)
(* go): the prepare, launch and verify handlers, the reconcile pass, and   *)
(* the sessions they create through the daemon (daemon.go).  The per-ID    *)
(* lock is held by the operation in "work" from its first to its last      *)
(* step; every step ends at a durable write, so a crash can fall between   *)
(* any two.  All sessions here carry the handoff's deterministic name and  *)
(* owner, hence at most one of them can have a live tmux pane.             *)
(***************************************************************************)
EXTENDS HandoffChannel

CONSTANTS
    MaxPrompts,      \* bound on launch prompts counted per session
    DeviceRename     \* TRUE: the target's device identity may be changed

ASSUME MaxPromptsAssumption == MaxPrompts \in Nat \ {0}
ASSUME DeviceRenameAssumption == DeviceRename \in BOOLEAN

VARIABLES
    target,    \* the durable target record
    work,      \* the operation holding the per-ID lock
    sess,      \* the daemon's in-memory sessions
    saved,     \* the session inventory on disk
    panes,     \* sessions whose tmux pane is alive (survives the daemon)
    spawned,   \* session ids ever allocated
    sent,      \* launch prompts submitted to the pane of a session
    ackers,    \* acknowledge commands that read the record and not yet wrote it
    declared   \* history: living sessions that a failed tmux query called dead

targetVars == <<target, work, sess, saved, panes, spawned, sent, ackers, declared>>

\* starting stands for starting and handshaking, stuck for stuck and escalated,
\* ended for exited and failed: the launch treats each pair alike.  adrift is
\* a session restored while starting, which no lifecycle goroutine drives.
\* none: no session of that id (in memory, or in the inventory).
SessionState == {"none", "starting", "adrift", "idle", "working", "stuck", "ended"}
Command == {"none", "launch", "other"}
Session == [state : SessionState, cmd : Command]
NoSess == [state |-> "none", cmd |-> "none"]

WorkSteps == {"resume", "check", "revalidate", "select", "persist", "record",
              "poll", "deliver", "confirm", "commit", "accept"}
Work == [op : {"none", "prepare", "launch"}, pc : WorkSteps \cup {"none"},
         session : Sessions \cup {NoSession}]
NoWork == [op |-> "none", pc |-> "none", session |-> NoSession]

TargetTypeOK ==
    /\ target \in TargetRecord
    /\ work \in Work
    /\ sess \in [Sessions -> Session]
    /\ saved \in [Sessions -> Session]
    /\ panes \subseteq Sessions
    /\ spawned \subseteq Sessions
    /\ sent \in [Sessions -> 0 .. MaxPrompts]
    /\ ackers \subseteq Acks
    /\ declared \subseteq Sessions

TargetInit ==
    /\ target = NoTarget
    /\ work = NoWork
    /\ sess = [s \in Sessions |-> NoSess]
    /\ saved = [s \in Sessions |-> NoSess]
    /\ panes = {}
    /\ spawned = {}
    /\ sent = [s \in Sessions |-> 0]
    /\ ackers = {}
    /\ declared = {}

sessionVars == <<sess, saved, panes, spawned, sent, declared>>

-----------------------------------------------------------------------------
(* Helpers.                                                                 *)

\* handoffStatusDTO exposes the locator only once the record is accepted.
handoffStatusDTO(r) ==
    [kind |-> "status", state |-> r.state, loaded |-> NoAck,
     locator |-> IF r.state = "accepted" THEN r.locator ELSE NoSession]

\* The operation ends with the record written as r and reports it.
Finish(r) ==
    /\ target' = r
    /\ work' = NoWork
    /\ Answer(handoffStatusDTO(r))

waitForAssets == Finish(TransitionTarget(target, "waiting_assets"))
waitForLaunch == Finish(TransitionTarget(target, "launch_waiting_assets"))
reject == Finish(TransitionTarget(target, "rejected"))

\* The operation goes on at step pc.
Goto(pc) ==
    /\ work' = [work EXCEPT !.pc = pc]
    /\ UNCHANGED <<serving, reply>>

At(op, pc) == work.op = op /\ work.pc = pc

Live(s) == sess[s].state \notin {"none", "ended"}

\* persistSessionsChecked writes every non-terminal session and only those.
Snapshot(table) ==
    [s \in Sessions |->
        CASE table[s].state \in {"none", "ended"} -> NoSess
          [] table[s].state = "adrift" -> [table[s] EXCEPT !.state = "starting"]
          [] OTHER -> table[s]]

\* restoreSessions revives the saved sessions whose pane tmux finds, as
\* recorded; seen are the panes for which the query succeeds.
Restored(seen) ==
    [s \in Sessions |->
        CASE saved[s].state = "none" \/ s \notin seen -> NoSess
          [] saved[s].state = "starting" -> [saved[s] EXCEPT !.state = "adrift"]
          [] OTHER -> saved[s]]

-----------------------------------------------------------------------------
(* Preparation.                                                             *)

\* prepare: take the lock and persist the record if this is the first call.
PrepareBegin(r) ==
    /\ r.method = "prepare"
    /\ work = NoWork
    /\ Take(r)
    /\ target' = ReceiveTarget(target)
    /\ work' = [NoWork EXCEPT !.op = "prepare", !.pc = "resume"]
    /\ serving' = r.live
    /\ UNCHANGED <<reply, sessionVars, ackers>>

\* resumeTarget up to the validation work.
PrepareResume ==
    /\ At("prepare", "resume")
    /\ \/ /\ target.state \in {"received", "waiting_assets"}
          /\ target' = TransitionTarget(target, "validating")
          /\ Goto("check")
       \/ /\ target.state = "validating"
          /\ UNCHANGED target
          /\ Goto("check")
       \/ /\ target.state \notin {"received", "waiting_assets", "validating"}
          /\ Finish(target)
    /\ UNCHANGED <<reqs, sessionVars, ackers>>

\* The outcome of the profile, project, history and repository checks: a
\* verdict, or a wait for assets that are still being synchronised.
PrepareVerdict ==
    /\ At("prepare", "check")
    /\ Finish(TransitionTarget(target, "prepared")) \/ reject
    /\ UNCHANGED <<reqs, sessionVars, ackers>>

PrepareWaits ==
    /\ At("prepare", "check")
    /\ waitForAssets
    /\ UNCHANGED <<reqs, sessionVars, ackers>>

-----------------------------------------------------------------------------
(* Launch.                                                                  *)

\* launch: the only step that leaves prepared; a retry re-enters it.
LaunchBegin(r) ==
    /\ r.method = "launch"
    /\ work = NoWork
    /\ Take(r)
    /\ \/ /\ target.state \in {"prepared", "launch_waiting_assets", "launching"}
          /\ target' = IF target.state = "launching" THEN target
                       ELSE TransitionTarget(target, "launching")
          /\ work' = [NoWork EXCEPT !.op = "launch", !.pc = "revalidate"]
          /\ serving' = r.live
          /\ UNCHANGED reply
       \/ /\ target.state \in {"accepted", "rejected"}
          /\ reply' = IF r.live THEN handoffStatusDTO(target) ELSE reply
          /\ UNCHANGED <<target, work, serving>>
       \/ /\ target.state \in {Absent, "received", "validating", "waiting_assets"}
          /\ reply' = IF r.live THEN ErrorReply("invalid_request") ELSE reply
          /\ UNCHANGED <<target, work, serving>>
    /\ UNCHANGED <<sessionVars, ackers>>

\* GetTarget cannot read the record: launch answers that there is none.
LaunchUnread(r) ==
    /\ r.method = "launch"
    /\ work = NoWork
    /\ Take(r)
    /\ reply' = IF r.live THEN ErrorReply("unrecognized") ELSE reply
    /\ UNCHANGED <<serving, targetVars>>

\* resumeLaunch: profile, project, history, repository and the instructions
\* file are checked again before any session is touched.
LaunchRevalidate ==
    /\ At("launch", "revalidate")
    /\ \/ Goto("select") /\ UNCHANGED target
       \/ waitForLaunch
       \/ reject
    /\ UNCHANGED <<reqs, sessionVars, ackers>>

\* targetLaunchSession with a recorded locator: that session or none.
LaunchReuse ==
    /\ At("launch", "select")
    /\ target.locator # NoSession
    /\ \/ /\ sess[target.locator].state = "none"
          /\ reject
       \/ /\ sess[target.locator].state # "none"
          /\ work' = [work EXCEPT !.pc = "poll", !.session = target.locator]
          /\ UNCHANGED <<target, serving, reply>>
    /\ UNCHANGED <<reqs, sessionVars, ackers>>

\* createSessionWithIdempotency, matching a non-terminal session of that name
\* and owner ...
LaunchFind(s) ==
    /\ At("launch", "select")
    /\ target.locator = NoSession
    /\ Live(s)
    /\ work' = [work EXCEPT !.pc = "persist", !.session = s]
    /\ UNCHANGED <<target, channelVars, sessionVars, ackers>>

\* ... or starting a fresh one, whose ordinary persistence is best effort;
\* tmux refuses a second session of the same name.
LaunchCreate(s) ==
    /\ At("launch", "select")
    /\ target.locator = NoSession
    /\ \A t \in Sessions : ~Live(t)
    /\ panes = {}
    /\ s \notin spawned
    /\ sess' = [sess EXCEPT ![s] = [state |-> "starting", cmd |-> "none"]]
    /\ panes' = {s}
    /\ spawned' = spawned \cup {s}
    /\ saved' \in {saved, Snapshot(sess')}
    /\ work' = [work EXCEPT !.pc = "persist", !.session = s]
    /\ UNCHANGED <<target, channelVars, sent, ackers, declared>>

LaunchCreateFails ==
    /\ At("launch", "select")
    /\ target.locator = NoSession
    /\ \A t \in Sessions : ~Live(t)
    /\ waitForLaunch
    /\ UNCHANGED <<reqs, sessionVars, ackers>>

\* The inventory entry is durable before the record may point at it.
LaunchPersist ==
    /\ At("launch", "persist")
    /\ \/ /\ saved' = Snapshot(sess)
          /\ Goto("record")
          /\ UNCHANGED target
       \/ /\ waitForLaunch
          /\ UNCHANGED saved
    /\ UNCHANGED <<reqs, sess, panes, spawned, sent, ackers, declared>>

LaunchRecordLocator ==
    /\ At("launch", "record")
    /\ target' = RecordTargetLaunchLocator(target, work.session)
    /\ Goto("poll")
    /\ UNCHANGED <<reqs, sessionVars, ackers>>

\* One look at the session; starting, adrift and stuck keep the loop polling.
LaunchPoll ==
    LET s == sess[work.session] IN
    /\ At("launch", "poll")
    /\ \/ /\ s.cmd = "launch"
          /\ Goto("confirm")
          /\ UNCHANGED target
       \/ /\ s.cmd = "none" /\ s.state = "idle"
          /\ Goto("deliver")
          /\ UNCHANGED target
       \/ /\ s.cmd = "other" \/ (s.cmd = "none" /\ s.state \in {"ended", "working"})
          /\ reject
    /\ UNCHANGED <<reqs, sessionVars, ackers>>

\* tmux types the prompt into the pane and submits it: possible only while
\* the pane lives.
Submit(s) ==
    /\ s \in panes
    /\ sent' = [sent EXCEPT ![s] = IF @ < MaxPrompts THEN @ + 1 ELSE @]

\* Mutant: a failed submission of the prompt is ignored.
LaunchDeliverUnconfirmed ==
    /\ At("launch", "deliver")
    /\ Submit(work.session) \/ UNCHANGED sent
    /\ sess' = [sess EXCEPT ![work.session] = [state |-> "working", cmd |-> "launch"]]
    /\ Goto("confirm")
    /\ UNCHANGED <<reqs, target, saved, panes, spawned, ackers, declared>>

\* SendPrompt: the prompt is submitted and the judge of the screen holds it
\* for ingested, rightly or not.  Or the submission fails, or the judge does
\* not find the prompt ingested: the session is then stuck, and the launch
\* waits or, if its context ended too, stops where it is.
LaunchDeliver ==
    /\ At("launch", "deliver")
    /\ \/ /\ Submit(work.session)
          /\ sess' = [sess EXCEPT ![work.session] = [state |-> "working", cmd |-> "launch"]]
          /\ Goto("confirm")
          /\ UNCHANGED target
       \/ /\ Submit(work.session) \/ UNCHANGED sent
          /\ sess' = [sess EXCEPT ![work.session].state = "stuck"]
          /\ \/ waitForLaunch
             \/ work' = NoWork /\ Answer(ErrorReply("internal")) /\ UNCHANGED target
    /\ UNCHANGED <<reqs, saved, panes, spawned, ackers, declared>>

\* The session must show the launch command as its current one.
LaunchConfirm ==
    /\ At("launch", "confirm")
    /\ \/ /\ sess[work.session].cmd = "launch"
          /\ Goto("commit")
          /\ UNCHANGED target
       \/ /\ sess[work.session].cmd # "launch"
          /\ reject
    /\ UNCHANGED <<reqs, sessionVars, ackers>>

\* Mutant: the delivery evidence is not persisted before acceptance.
LaunchCommitUnsaved ==
    /\ At("launch", "commit")
    /\ Goto("accept")
    /\ UNCHANGED <<reqs, target, sessionVars, ackers>>

LaunchCommit ==
    /\ At("launch", "commit")
    /\ \/ /\ saved' = Snapshot(sess)
          /\ Goto("accept")
          /\ UNCHANGED target
       \/ /\ waitForLaunch
          /\ UNCHANGED saved
    /\ UNCHANGED <<reqs, sess, panes, spawned, sent, ackers, declared>>

LaunchAccept ==
    /\ At("launch", "accept")
    /\ Finish(TransitionTarget(target, "accepted"))
    /\ UNCHANGED <<reqs, sessionVars, ackers>>

-----------------------------------------------------------------------------
(* Everything else the target daemon does.                                  *)

\* A cancelled context or a failed store write ends the operation where it
\* is; the record keeps its state and the caller, if any, gets an error.
WorkAborts ==
    /\ work # NoWork
    /\ work' = NoWork
    /\ Answer(ErrorReply("internal"))
    /\ UNCHANGED <<reqs, target, sessionVars, ackers>>

\* handleRequest and the handlers' identity checks refuse before any lock.
RequestDenied(r) ==
    /\ r.live
    /\ Take(r)
    /\ \/ reply' = ErrorReply("permission_denied")
       \/ r.method = "prepare" /\ target.state = Absent /\ reply' = ErrorReply("invalid_request")
       \/ DeviceRename /\ reply' = ErrorReply("unrecognized")
    /\ UNCHANGED <<serving, targetVars>>

\* Mutant: a prepared record is resumed as if its launch were authorized.
ReconcileInfersLaunch ==
    /\ work = NoWork
    /\ \/ /\ target.state \in {"received", "validating", "waiting_assets"}
          /\ work' = [NoWork EXCEPT !.op = "prepare", !.pc = "resume"]
          /\ UNCHANGED target
       \/ /\ target.state \in {"prepared", "launching", "launch_waiting_assets"}
          /\ target' = TransitionTarget(target, "launching")
          /\ work' = [NoWork EXCEPT !.op = "launch", !.pc = "revalidate"]
    /\ UNCHANGED <<channelVars, sessionVars, ackers>>

\* reconcileTargetHandoffs picks the record up under the lock.
Reconcile ==
    /\ work = NoWork
    /\ RecoverableTarget(target)
    /\ \/ /\ target.state \in {"received", "validating", "waiting_assets"}
          /\ work' = [NoWork EXCEPT !.op = "prepare", !.pc = "resume"]
          /\ UNCHANGED target
       \/ /\ target.state \in {"launching", "launch_waiting_assets"}
          /\ target' = IF target.state = "launching" THEN target
                       ELSE TransitionTarget(target, "launching")
          /\ work' = [NoWork EXCEPT !.op = "launch", !.pc = "revalidate"]
    /\ UNCHANGED <<channelVars, sessionVars, ackers>>

TargetRetryDue ==
    /\ target.retry = "later"
    /\ target' = [target EXCEPT !.retry = "due"]
    /\ UNCHANGED <<channelVars, work, sessionVars, ackers>>

\* verify reads the record without the lock.
Verify(r) ==
    /\ r.method = "verify"
    /\ Take(r)
    /\ reply' = IF ~r.live THEN reply
                ELSE IF target.state = "accepted"
                     THEN [kind |-> "verification", state |-> "accepted",
                           locator |-> target.locator, loaded |-> target.loaded]
                     ELSE ErrorReply("invalid_request")
    /\ UNCHANGED <<serving, targetVars>>

\* `arcmux handoff acknowledge` run inside the continuation: another process
\* with its own store, so reading and writing the record are two steps.
AckRead(a) ==
    /\ a \notin ackers
    /\ target.state = "accepted"
    /\ target.loaded = NoAck
    /\ target.locator \in panes
    /\ sent[target.locator] > 0
    /\ ackers' = ackers \cup {a}
    /\ UNCHANGED <<channelVars, target, work, sessionVars>>

AckWrite(a) ==
    /\ a \in ackers
    /\ ackers' = ackers \ {a}
    /\ target' = AcknowledgeTarget(target, a)
    /\ UNCHANGED <<channelVars, work, sessionVars>>

-----------------------------------------------------------------------------
(* The supervised session's own life.                                       *)

SetSess(s, state) ==
    /\ sess' = [sess EXCEPT ![s].state = state]
    /\ UNCHANGED <<channelVars, target, work, saved, panes, spawned, sent, ackers, declared>>

\* startAgentLifecycle: the handshake succeeds or fails.
HandshakeEnds(s) ==
    /\ sess[s].state = "starting"
    /\ \/ s \in panes /\ SetSess(s, "idle")
       \/ SetSess(s, "ended")

\* A session is ended because tmux did not find its pane, which it also does
\* not when the query itself fails.
PaneNotFound(s) ==
    /\ sess' = [sess EXCEPT ![s].state = "ended"]
    /\ declared' = IF s \in panes THEN declared \cup {s} ELSE declared
    /\ UNCHANGED <<channelVars, target, work, saved, panes, spawned, sent, ackers>>

\* The health monitor's verdicts on a session it watches.  A failed capture
\* of an idle pane reads as activity.
MonitorTick(s) ==
    /\ sess[s].state \in {"idle", "working", "stuck"}
    /\ \/ PaneNotFound(s)
       \/ s \in panes /\ sess[s].state = "working" /\ SetSess(s, "idle")
       \/ s \in panes /\ sess[s].state = "working" /\ SetSess(s, "stuck")
       \/ s \in panes /\ sess[s].state = "idle" /\ SetSess(s, "working")

\* Another client prompts the continuation; SendPrompt asks for no state.
OtherPrompt(s) ==
    /\ s \in panes
    /\ sess[s].state # "none"
    /\ sess' = [sess EXCEPT ![s] = [state |-> "working", cmd |-> "other"]]
    /\ UNCHANGED <<channelVars, target, work, saved, panes, spawned, sent, ackers, declared>>

\* A prompt that cannot be delivered leaves any session stuck, exited ones too.
OtherPromptFails(s) ==
    /\ sess[s].state # "none"
    /\ SetSess(s, "stuck")

PaneExits(s) ==
    /\ s \in panes
    /\ panes' = panes \ {s}
    /\ declared' = declared \ {s}
    /\ UNCHANGED <<channelVars, target, work, sess, saved, spawned, sent, ackers>>

\* persistLoop and the other best-effort persists.
PersistSessions ==
    /\ saved' = Snapshot(sess)
    /\ UNCHANGED <<channelVars, target, work, sess, panes, spawned, sent, ackers, declared>>

\* The daemon dies and comes back; a pane query of the restore may fail.
TargetCrash ==
    /\ work' = NoWork
    /\ \E seen \in SUBSET panes :
          /\ sess' = Restored(seen)
          /\ declared' = declared \cup {s \in panes \ seen : saved[s].state # "none"}
    /\ reqs' = {}
    /\ serving' = FALSE
    /\ UNCHANGED <<reply, target, saved, panes, spawned, sent, ackers>>

TargetNext ==
    \/ \E r \in reqs : PrepareBegin(r) \/ LaunchBegin(r) \/ LaunchUnread(r)
                         \/ Verify(r) \/ RequestDenied(r)
    \/ PrepareResume \/ PrepareVerdict \/ PrepareWaits
    \/ LaunchRevalidate \/ LaunchReuse \/ LaunchCreateFails
    \/ \E s \in Sessions : LaunchFind(s) \/ LaunchCreate(s)
    \/ LaunchPersist \/ LaunchRecordLocator \/ LaunchPoll \/ LaunchDeliver
    \/ LaunchConfirm \/ LaunchCommit \/ LaunchAccept
    \/ WorkAborts \/ Reconcile \/ TargetRetryDue
    \/ \E a \in Acks : AckRead(a) \/ AckWrite(a)
    \/ \E s \in Sessions : \/ HandshakeEnds(s) \/ MonitorTick(s) \/ PaneExits(s)
                         \/ OtherPrompt(s) \/ OtherPromptFails(s)
    \/ PersistSessions \/ TargetCrash

-----------------------------------------------------------------------------
(* What the target promises to any source.                                  *)

LaunchStates == {"launching", "launch_waiting_assets", "accepted"}

\* At most one session is ever sent the launch prompt, across launch retries,
\* orphaned launch requests and target restarts.
OneContinuation == \A s, t \in Sessions : sent[s] > 0 /\ sent[t] > 0 => s = t

\* Once accepted, the continuation is in the durable inventory with its
\* delivery evidence for as long as its pane lives, so a restart of the
\* target finds it: unless a failed tmux query had it called dead, whereupon
\* the next save drops it.
AcceptedSurvivesRestart ==
    target.state = "accepted" /\ target.locator \in panes \ declared =>
        saved[target.locator].state # "none" /\ saved[target.locator].cmd # "none"

=============================================================================
