------------------------------ MODULE MeshSync ------------------------------
(***************************************************************************)
(* What makes one device (the observer) fetch another device's inventory   *)
(* (the source) again: its wanted topics, the subscription at the source,  *)
(* change events, the sync worker that coalesces triggers, the status tick *)
(* and the periodic pass.  The fetch and what readers see is               *)
(* MeshInventory, the link MeshLink, the queues of events MeshRPC.  Here a *)
(* link is up for both devices or for neither, and each new one has a new  *)
(* identity: what was recorded of an earlier link is not current.  An      *)
(* event may be lost, delayed or repeated at any time.                     *)
(***************************************************************************)
CONSTANTS Topics    \* sessions, artifacts

VARIABLES up,       \* the two devices have a link
          behind,   \* history: the source changed after the committed copy was read
          sub,      \* the topics the source has a subscription of the observer for
          desired,  \* durable: topics the operator wants
          outbound, \* the same in memory, and whether it was agreed on this link
          known,    \* the link the status tick saw last
          tick,     \* a status tick of the runtime loop that has read link and topics
          worker,   \* the sync worker
          op,       \* an operator's subscribe or unsubscribe call
          owed      \* history: an event was handled while topics were wanted, and no
                    \* fetch began or failed since

vars == <<up, behind, sub, desired, outbound, known, tick, worker, op, owed>>
intent == <<desired, outbound>>

\* current: the source has not changed since the catalog was read; lapsed is
\* history: no worker, and the last one took an event with it as it left.
NoWorker == [pc |-> "none", dirty |-> FALSE, resub |-> FALSE, topics |-> {}, current |-> FALSE,
             lapsed |-> FALSE]
NoTick == [link |-> "none", topics |-> {}]
NoOp == [pc |-> "none", topics |-> {}]

TypeOK ==
    /\ up \in BOOLEAN /\ behind \in BOOLEAN /\ owed \in BOOLEAN
    /\ sub \in SUBSET Topics /\ (~ up => sub = {})
    /\ desired \in SUBSET Topics
    /\ outbound \in [topics : SUBSET Topics, current : BOOLEAN]
    /\ (outbound.current => up /\ outbound.topics # {})
    /\ known \in {"down", "old", "current"}
    /\ tick \in [link : {"none", "old", "current"}, topics : SUBSET Topics]
    /\ worker \in [pc : {"none", "top", "fetch", "got", "call", "answered", "leave"},
                   dirty : BOOLEAN, resub : BOOLEAN, topics : SUBSET Topics, current : BOOLEAN,
                   lapsed : BOOLEAN]
    /\ op \in [pc : {"none", "call", "answered", "uncall"}, topics : SUBSET Topics]

Init ==
    /\ up = FALSE /\ behind = TRUE /\ owed = FALSE
    /\ sub = {} /\ desired = {} /\ outbound = [topics |-> {}, current |-> FALSE]
    /\ known = "down" /\ tick = NoTick /\ worker = NoWorker /\ op = NoOp

----------------------------------------------------------------------------
(* The sync worker.                                                        *)

\* Mutant: a trigger that finds the worker running is taken as served.
scheduleMeshSyncCoalesced(resub) ==
    IF worker.pc = "none" THEN [NoWorker EXCEPT !.pc = "top", !.resub = resub]
    ELSE [worker EXCEPT !.resub = @ \/ resub]

scheduleMeshSync(resub) ==
    IF worker.pc = "none" THEN [NoWorker EXCEPT !.pc = "top", !.resub = resub]
    ELSE [worker EXCEPT !.dirty = TRUE, !.resub = @ \/ resub]

\* After a failure: once more if a trigger came meanwhile, else the slot is given up.
retryDirtyMeshSync(keepResub) ==
    IF worker.dirty
    THEN [worker EXCEPT !.pc = "top", !.dirty = FALSE, !.resub = @ \/ keepResub]
    ELSE NoWorker

SourceChanges ==
    /\ behind' = TRUE
    /\ worker' = [worker EXCEPT !.current = FALSE]
    /\ UNCHANGED <<up, sub, intent, known, tick, op, owed>>

\* An event or a gap of the source, whichever of its changes it is about.
handleRemoteMeshEvent ==
    /\ up /\ sub # {} /\ tick = NoTick
    /\ worker' = scheduleMeshSync(FALSE)
    /\ owed' = TRUE
    /\ UNCHANGED <<up, behind, sub, intent, known, tick, op>>

\* The wanted topics are read; with none of them there is nothing to fetch ...
WorkerTop ==
    /\ worker.pc = "top"
    /\ IF outbound.topics = {}
       THEN worker' = [worker EXCEPT !.pc = "leave"] /\ owed' = FALSE
       ELSE worker' = [worker EXCEPT !.pc = "fetch", !.topics = outbound.topics] /\ UNCHANGED owed
    /\ UNCHANGED <<up, behind, sub, intent, known, tick, op>>

\* ... and the slot is given up, whatever trigger came meanwhile.
finishMeshSync ==
    /\ worker.pc = "leave"
    /\ worker' = [NoWorker EXCEPT !.lapsed = owed]
    /\ UNCHANGED <<up, behind, sub, intent, known, tick, op, owed>>

\* The source reads its catalog.
WorkerFetch ==
    /\ worker.pc = "fetch" /\ up
    /\ worker' = [worker EXCEPT !.pc = "got", !.current = TRUE]
    /\ owed' = FALSE
    /\ UNCHANGED <<up, behind, sub, intent, known, tick, op>>

\* A fetch, a commit or a subscription that fails; no link makes a call fail.
WorkerFails ==
    /\ worker.pc \in {"fetch", "got", "call", "answered"}
    /\ worker' = retryDirtyMeshSync(worker.pc \in {"call", "answered"})
    /\ owed' = (owed /\ worker.dirty)
    /\ UNCHANGED <<up, behind, sub, intent, known, tick, op>>

----------------------------------------------------------------------------
(* Subscribing: the intent, the call, and the link it is good for.         *)

setDesiredMeshTopics(topics, current) ==
    /\ desired' = topics
    /\ outbound' = [topics |-> topics, current |-> current /\ topics # {}]

replacePeerSubscription(topics) == up /\ sub' = topics

\* The pass is over: once more if a trigger came meanwhile.
WorkerEnds == IF worker.dirty THEN [worker EXCEPT !.pc = "top", !.dirty = FALSE] ELSE NoWorker

\* The copy is committed.  If a new link asked for it, the topics that were
\* read at the top are subscribed to, the intent first.
WorkerCommit ==
    /\ worker.pc = "got"
    /\ behind' = ~ worker.current
    /\ IF worker.resub
       THEN /\ setDesiredMeshTopics(worker.topics, FALSE)
            /\ worker' = [worker EXCEPT !.pc = "call", !.resub = FALSE]
       ELSE worker' = WorkerEnds /\ UNCHANGED intent
    /\ UNCHANGED <<up, sub, known, tick, op, owed>>

\* The call is carried out; its answer may be lost.
WorkerCalls ==
    /\ worker.pc = "call"
    /\ replacePeerSubscription(worker.topics)
    /\ worker' \in {[worker EXCEPT !.pc = "answered"], retryDirtyMeshSync(TRUE)}
    /\ owed' = (owed /\ worker'.pc # "none")
    /\ UNCHANGED <<up, behind, intent, known, tick, op>>

\* The link is looked up after the answer: it may be another one by now.
WorkerAgreed ==
    /\ worker.pc = "answered" /\ up
    /\ setDesiredMeshTopics(worker.topics, TRUE)
    /\ worker' = WorkerEnds
    /\ UNCHANGED <<up, behind, sub, known, tick, op, owed>>

OperatorSubscribes(topics) ==
    /\ op.pc = "none"
    /\ setDesiredMeshTopics(topics, FALSE)
    /\ op' = [pc |-> "call", topics |-> topics]
    /\ UNCHANGED <<up, behind, sub, known, tick, worker, owed>>

OperatorCalls ==
    /\ op.pc = "call"
    /\ replacePeerSubscription(op.topics)
    /\ op' \in {[op EXCEPT !.pc = "answered"], NoOp}
    /\ UNCHANGED <<up, behind, intent, known, tick, worker, owed>>

OperatorAgreed ==
    /\ op.pc = "answered" /\ up
    /\ setDesiredMeshTopics(op.topics, TRUE)
    /\ op' = NoOp
    /\ UNCHANGED <<up, behind, sub, known, tick, worker, owed>>

UnsubscribeMeshPeer ==
    /\ op.pc = "none"
    /\ setDesiredMeshTopics({}, FALSE)
    /\ op' = [pc |-> "uncall", topics |-> {}]
    /\ UNCHANGED <<up, behind, sub, known, tick, worker, owed>>

clearPeerSubscription ==
    /\ op.pc = "uncall" /\ up
    /\ op' = NoOp
    /\ sub' = {}
    /\ UNCHANGED <<up, behind, intent, known, tick, worker, owed>>

OperatorFails ==
    /\ op.pc # "none" /\ op' = NoOp
    /\ UNCHANGED <<up, behind, sub, intent, known, tick, worker, owed>>

----------------------------------------------------------------------------
(* Links, ticks and restarts.                                              *)

\* What the devices keep of a link ends with it.
LinkDrops ==
    /\ up /\ up' = FALSE
    /\ sub' = {}
    /\ outbound' = [outbound EXCEPT !.current = FALSE]
    /\ known' = IF known = "current" THEN "old" ELSE known
    /\ tick' = IF tick.link = "current" THEN [tick EXCEPT !.link = "old"] ELSE tick
    /\ UNCHANGED <<behind, desired, worker, op, owed>>

LinkComes ==
    /\ ~ up /\ up' = TRUE
    /\ UNCHANGED <<behind, sub, intent, known, tick, worker, op, owed>>

\* Every 250 ms the link is looked at and the durable topics are read...
TickReads ==
    /\ tick.link = "none"
    /\ IF up THEN tick' = [link |-> "current", topics |-> desired] /\ UNCHANGED known
       ELSE known' = "down" /\ UNCHANGED tick
    /\ UNCHANGED <<up, behind, sub, intent, worker, op, owed>>

restoreDesiredMeshPeer(topics) ==
    [topics |-> topics, current |-> topics # {} /\ outbound.topics = topics /\ outbound.current]

\* ...and put into memory; a link not seen before asks for a synchronisation.
reconcileMeshStatuses ==
    /\ tick.link # "none" /\ tick' = NoTick
    /\ outbound' = restoreDesiredMeshPeer(tick.topics)
    /\ known' = tick.link
    /\ worker' = IF known # tick.link THEN scheduleMeshSync(TRUE) ELSE worker
    /\ UNCHANGED <<up, behind, sub, desired, op, owed>>

meshSubscriptionNeedsRestore == up /\ outbound.topics # {} /\ ~ outbound.current

\* Mutant: only subscriptions that need it are looked after.
PeriodicPassRestoresOnly ==
    /\ up /\ outbound.topics # {} /\ tick = NoTick
    /\ meshSubscriptionNeedsRestore
    /\ worker' = scheduleMeshSync(TRUE)
    /\ UNCHANGED <<up, behind, sub, intent, known, tick, op, owed>>

\* Every 15 s.
PeriodicPass ==
    /\ up /\ outbound.topics # {} /\ tick = NoTick
    /\ worker' = scheduleMeshSync(meshSubscriptionNeedsRestore)
    /\ UNCHANGED <<up, behind, sub, intent, known, tick, op, owed>>

\* The mesh is reloaded, or the daemon restarts: workers are waited for, the
\* link is closed, and the durable topics are read again.
RuntimeRestarts ==
    /\ up' = FALSE /\ sub' = {}
    /\ known' = "down" /\ tick' = NoTick /\ worker' = NoWorker /\ op' = NoOp /\ owed' = FALSE
    /\ outbound' = [topics |-> desired, current |-> FALSE]
    /\ UNCHANGED <<behind, desired>>

Worker == WorkerTop \/ finishMeshSync \/ WorkerFetch \/ WorkerCommit \/ WorkerCalls \/ WorkerAgreed
Operator == \/ \E topics \in SUBSET Topics \ {{}} : OperatorSubscribes(topics)
            \/ UnsubscribeMeshPeer
\* A failure may look like a commit that changes nothing; that is none.
Disturbance == \/ SourceChanges \/ Operator \/ LinkDrops \/ RuntimeRestarts
               \/ WorkerFails /\ ~ Worker
Next ==
    \/ SourceChanges \/ handleRemoteMeshEvent
    \/ Worker \/ WorkerFails
    \/ Operator \/ OperatorCalls \/ OperatorAgreed \/ clearPeerSubscription \/ OperatorFails
    \/ LinkDrops \/ LinkComes \/ TickReads \/ reconcileMeshStatuses \/ PeriodicPass \/ RuntimeRestarts

Spec == Init /\ [][Next]_vars

\* Goroutines and tickers run; one loop serves both tickers and events.  A worker whose call finds no link fails.
Fairness ==
    /\ WF_vars(Worker) /\ WF_vars(WorkerFails /\ ~ up)
    /\ WF_vars(TickReads) /\ WF_vars(reconcileMeshStatuses) /\ SF_vars(PeriodicPass)
FairSpec == Spec /\ Fairness

----------------------------------------------------------------------------
\* An event that was handled is answered by a fetch that begins after it,
\* however many triggers the worker coalesces, but for two cases that leave it
\* to the periodic pass: a failure, and a worker that had found no topic wanted
\* and gave its slot up without looking for triggers again (scheduleMeshSync,
\* finishMeshSync, handleRemoteMeshEvent).
EventAnswered == owed => worker.dirty \/ worker.pc \in {"top", "fetch"} \/ worker.lapsed

\* When changes, failures and operators rest, a device with a link and wanted
\* topics ends up with a copy that is not behind, although any event may have
\* been lost (connectedDesiredMeshPeers, scheduleMeshSync).
Converges ==
    (<>[][~ Disturbance]_vars) => <>[](up /\ desired # {} => ~ behind)

=============================================================================
