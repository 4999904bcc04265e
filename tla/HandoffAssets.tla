--------------------------- MODULE HandoffAssets ---------------------------
(***************************************************************************)
(* What a handoff hands over, from the source's prepare (handoff_outbox.go)*)
(* to the launch at the target (handoff_application.go): the repository is *)
(* inspected, the history published, the manifest fixed; the target takes  *)
(* its snapshot of the history and prepares its worktree, once for prepare *)
(* and again, before the continuation is created, for the launch.  How the *)
(* two daemons agree on all of this is Handoff's subject.                  *)
(***************************************************************************)
EXTENDS HandoffHistory, HandoffRepository

CONSTANTS
    MaxFaults       \* bound: failed operations, killed commands, crashes, interference

ASSUME AssetsAssumption == MaxFaults \in Nat

VARIABLES
    stage,          \* how far the handoff is
    manifest,
    told,           \* this launch has written its instructions
    agent,          \* the continuation's session exists
    refused,        \* history: a check that could not be made, or that found what an earlier
                    \* preparation left unsafe, was answered with no
    faults          \* faults so far

vars == <<historyVars, repositoryVars, stage, manifest, told, agent, refused, faults>>

Stages == {"inspect", "publish", "validating", "prepared", "launching", "accepted", "rejected"}
AtTarget == {"validating", "prepared", "launching"}

-----------------------------------------------------------------------------
(* Manifests.  Whether the identifiers, texts and times in them are well   *)
(* formed is a choice; a manifest has no artifacts yet.                    *)

NoPatch == NoCommit

Evidence(state, repository) ==
    [state |-> state, revision |-> IF state = "not_run" THEN NoCommit ELSE repository.head]

Manifest(inspected, digest) ==
    [repository |-> [branch |-> inspected.branch, head |-> inspected.head,
                     base |-> inspected.head, tree |-> inspected.tree, clean |-> TRUE,
                     transfer |-> "remote_branch", patch |-> NoPatch],
     history |-> digest]

repositoryValid(r) ==
    \/ r.transfer = "remote_branch" /\ r.patch = NoPatch /\ r.clean
    \/ r.transfer = "stored_patch" /\ r.patch # NoPatch /\ r.patch = r.tree

evidenceValid(v, r) ==
    \/ v.state = "not_run" /\ v.revision = NoCommit
    \/ /\ v.state \in {"passed", "failed"}
       /\ v.revision = IF r.transfer = "stored_patch" THEN r.patch ELSE r.head

ManifestValid(m, evidence, wellFormed) ==
    wellFormed /\ repositoryValid(m.repository) /\ evidenceValid(evidence, m.repository)

NoManifest == Manifest(NoInsp, Mixed)
Queued     == manifest # NoManifest
Repo       == manifest.repository
Ref        == manifest.history

AssetsTypeOK ==
    /\ HistoryTypeOK /\ RepositoryTypeOK
    /\ stage \in Stages /\ told \in BOOLEAN /\ agent \in BOOLEAN
    /\ refused \in BOOLEAN /\ faults \in 0 .. MaxFaults
    /\ Queued <=> stage \in AtTarget \cup {"accepted", "rejected"}
    /\ Queued => repositoryValid(Repo) /\ Repo.branch \in Branches /\ Ref \in Digests

Init ==
    /\ HistoryInit /\ RepositoryInit
    /\ stage = "inspect" /\ manifest = NoManifest /\ told = FALSE /\ agent = FALSE
    /\ refused = FALSE /\ faults = 0

NoFault  == UNCHANGED faults
Fault    == faults < MaxFaults /\ faults' = faults + 1
handoff  == <<stage, manifest, told, agent, refused>>

-----------------------------------------------------------------------------
(* The source's prepare *)

Inspect ==
    /\ stage = "inspect" /\ InspectStep
    /\ NoFault /\ UNCHANGED <<historyVars, handoff>>

Used ==
    /\ stage = "inspect" /\ SourceUse
    /\ NoFault /\ UNCHANGED <<historyVars, handoff>>

Inspected ==
    /\ stage = "inspect" /\ At("done")
    /\ stage' = "publish" /\ wasClean' = {} /\ switched' = FALSE
    /\ NoFault
    /\ UNCHANGED <<historyVars, commits, tips, current, dirty, origin, insp, targetRepo,
                   manifest, told, agent, refused>>

Publish ==
    /\ stage = "publish"
    /\ PublishStep \/ AgentWrites \/ OtherPublishes \/ OtherSyncs
    /\ NoFault /\ UNCHANGED <<repositoryVars, handoff>>

PublishFault ==
    /\ stage = "publish" /\ Fault
    /\ PublishFails
    /\ UNCHANGED <<repositoryVars, handoff>>

(* A power loss also ends the prepare that is under way. *)
SourceFails ==
    /\ stage \in {"publish"} \cup AtTarget /\ Fault
    /\ SourcePowerLoss /\ pub' = IF stage = "publish" THEN Failed ELSE pub
    /\ UNCHANGED <<repositoryVars, handoff>>

(* The operator repeats a prepare that was refused, from the beginning. *)
PrepareAgain ==
    /\ At("refused") \/ pub.step = "error"
    /\ stage' = "inspect" /\ insp' = NoInsp /\ pub' = NoPub
    /\ NoFault
    /\ UNCHANGED <<log, published, borrowed, targetHistory, commits, tips, current, dirty,
                   origin, wasClean, switched, targetRepo, manifest, told, agent, refused>>

(* Validate and QueueSource, and with it what the target is sent. *)
Queue ==
    LET m == Manifest(insp, pub.digest) IN
    /\ stage = "publish" /\ pub.step = "done"
    /\ \E state \in {"not_run", "passed", "failed"}, wellFormed \in BOOLEAN :
        ManifestValid(m, Evidence(state, m.repository), wellFormed)
    /\ manifest' = m
    /\ stage' = "validating" /\ pub' = NoPub /\ insp' = NoInsp
    /\ foreign' = foreign \cup (IF origin[insp.branch] # insp.head THEN {"branch"} ELSE {})
    /\ NoFault
    /\ UNCHANGED <<log, published, borrowed, targetHistory, commits, tips, current, dirty,
                   origin, wasClean, switched, main, heads, cand, work, marker, prep, cut,
                   unclear, lost, told, agent, refused>>

-----------------------------------------------------------------------------
(* The target: resumeTarget and resumeLaunch *)

Idle == snap = NoSnap /\ prep = NoPrep

(* prepare, launch or the reconcile pass takes the handoff up. *)
Attempt ==
    /\ stage \in {"validating", "launching"} /\ Idle
    /\ snap' = [NoSnap EXCEPT !.step = "start"]
    /\ NoFault /\ UNCHANGED <<sourceHistory, synced, snapshot, repositoryVars, handoff>>

Snapshot ==
    /\ Queued /\ SnapStep(Ref)
    /\ NoFault /\ UNCHANGED <<repositoryVars, handoff>>

Arrives ==
    /\ Queued /\ SyncArrives(Ref)
    /\ NoFault /\ UNCHANGED <<repositoryVars, handoff>>

(* The repository follows; waiting for assets and a rejection end it. *)
SnapshotEnds ==
    /\ snap.step \in {"ok", "retryable", "invalid"}
    /\ snap' = NoSnap
    /\ prep' = IF snap.step = "ok" THEN [NoPrep EXCEPT !.step = "choose"] ELSE NoPrep
    /\ stage' = IF snap.step = "invalid" THEN "rejected" ELSE stage
    /\ NoFault
    /\ UNCHANGED <<sourceHistory, synced, snapshot, sourceRepo, main, heads, cand, work,
                   marker, foreign, cut, unclear, lost, manifest, told, agent, refused>>

Prepare ==
    /\ \/ PrepareStep(Repo) /\ UNCHANGED refused
       \/ verifyOwnedRemovalTree /\ refused' = TRUE
    /\ NoFault /\ UNCHANGED <<historyVars, stage, manifest, told, agent>>

TargetFault ==
    /\ Fault
    /\ \/ SnapFails /\ UNCHANGED <<repositoryVars, refused>>
       \/ PrepFault /\ UNCHANGED <<historyVars, refused>>
       \/ RootUnavailable /\ refused' = TRUE /\ UNCHANGED repositoryVars
       \/ PrepRefused /\ refused' = TRUE /\ UNCHANGED historyVars
    /\ UNCHANGED <<stage, manifest, told, agent>>

prepared == <<sourceRepo, main, heads, cand, work, marker, foreign, cut, unclear, lost>>

(* Mutant: after a failure that may pass, the handoff is not let go of. *)
PreparationFailsHeld ==
    /\ prep.step = "deterministic"
    /\ prep' = NoPrep /\ stage' = "rejected"
    /\ NoFault /\ UNCHANGED <<historyVars, prepared, manifest, told, agent, refused>>

(* classifyRepositoryFailure. *)
PreparationFails ==
    /\ prep.step \in {"retryable", "deterministic"}
    /\ prep' = NoPrep
    /\ stage' = IF prep.step = "deterministic" THEN "rejected" ELSE stage
    /\ NoFault /\ UNCHANGED <<historyVars, prepared, manifest, told, agent, refused>>

Prepared ==
    /\ stage = "validating" /\ prep.step = "ok"
    /\ stage' = "prepared" /\ prep' = NoPrep
    /\ NoFault /\ UNCHANGED <<historyVars, prepared, manifest, told, agent, refused>>

Authorize ==
    /\ stage = "prepared"
    /\ stage' = "launching"
    /\ NoFault /\ UNCHANGED <<historyVars, repositoryVars, manifest, told, agent, refused>>

(* Every launch writes the instructions anew, by an atomic rename. *)
publishHandoffLaunchInstructions ==
    /\ stage = "launching" /\ prep.step = "ok" /\ ~told
    /\ told' = TRUE
    /\ NoFault /\ UNCHANGED <<historyVars, repositoryVars, stage, manifest, agent, refused>>

(* The continuation is created in the worktree, or found there. *)
Launch ==
    /\ stage = "launching" /\ told /\ ~agent
    /\ agent' = TRUE
    /\ NoFault /\ UNCHANGED <<historyVars, repositoryVars, stage, manifest, told, refused>>

Accept ==
    /\ stage = "launching" /\ told /\ agent
    /\ stage' = "accepted" /\ prep' = NoPrep /\ told' = FALSE
    /\ NoFault /\ UNCHANGED <<historyVars, prepared, manifest, agent, refused>>

AgentStep ==
    /\ agent /\ AgentWorks
    /\ NoFault /\ UNCHANGED <<historyVars, handoff>>

(* The daemon, or the whole machine, fails; a launch whose instructions    *)
(* cannot be written leaves the same behind, and is taken up again.        *)
TargetFails ==
    /\ stage \in AtTarget /\ Fault
    /\ snap' = NoSnap /\ prep' = NoPrep /\ told' = FALSE
    /\ \E losesName, tears \in BOOLEAN :
        snapshot' = AfterPowerLoss(snapshot, losesName, tears)
    /\ UNCHANGED <<sourceHistory, synced, prepared, stage, manifest, agent, refused>>

(* Somebody else changes what the preparation relies on. *)
OthersAct ==
    /\ stage \in AtTarget /\ Fault
    /\ UserSwitches \/ UserRemoves \/ (OthersPush(Repo.branch) /\ foreign' = foreign \cup {"branch"})
    /\ UNCHANGED <<historyVars, handoff>>

-----------------------------------------------------------------------------
Next ==
    \/ Inspect \/ Used \/ Inspected \/ Publish \/ PublishFault \/ SourceFails
    \/ PrepareAgain \/ Queue
    \/ Attempt \/ Snapshot \/ Arrives \/ SnapshotEnds \/ Prepare \/ TargetFault
    \/ PreparationFails \/ Prepared \/ Authorize
    \/ publishHandoffLaunchInstructions \/ Launch \/ Accept
    \/ AgentStep \/ TargetFails \/ OthersAct

Spec == Init /\ [][Next]_vars

(* The reconcile pass comes back to a handoff that waits, the code runs on, *)
(* and the tool that carries the histories is running.                      *)
Fairness ==
    /\ WF_vars(Attempt) /\ WF_vars(Snapshot) /\ WF_vars(SnapshotEnds) /\ WF_vars(Prepare)
    /\ WF_vars(PreparationFails \/ Prepared)
    /\ WF_vars(publishHandoffLaunchInstructions \/ Launch \/ Accept) /\ WF_vars(Arrives)

FairSpec == Spec /\ Fairness
-----------------------------------------------------------------------------
(* Properties *)

(* A publication holds one version of the log, the one its name says, and  *)
(* never parts of two, or what a power loss left; and a queued manifest    *)
(* names one that is there and stays there, unless it was taken over from  *)
(* a publication whose name was not durable yet (publishSourceHistory).    *)
HistoryExact ==
    /\ \A d \in Digests : Exists(published[d]) => published[d].content = d /\ d \in Versions
    /\ Queued => Exists(published[Ref]) \/ Ref \in borrowed

(* The claims an inspection makes belong together, whatever was edited,    *)
(* committed or pushed meanwhile: the tree is the commit's, and at some    *)
(* moment the checkout was clean on the branch at that commit.  Branches   *)
(* that are checked out between two commands still defeat it: the final    *)
(* reads are as far apart as the first (source.go).                        *)
InspectedCoherent ==
    stage = "inspect" /\ At("done") /\ ~switched =>
        insp.tree = insp.head /\ <<insp.branch, insp.head>> \in wasClean

(* The continuation is created in a complete worktree at the declared      *)
(* commit, next to the exact history, unless somebody else interfered.     *)
LaunchedExact ==
    [][agent' /\ ~agent =>
          \/ foreign # {}
          \/ cand.dir = "complete" /\ cand.push /\ heads[cand.branch] = "good" /\ snapshot.content = Ref]_vars

(* A preparation that takes up what an earlier one left never removes what *)
(* the continuation has done since, but for the marker whose removal       *)
(* failed unnoticed (repository.go, PrepareRepository after a failed add), *)
(* and for a worktree somebody removed under the continuation: the one     *)
(* that is added in its place is the preparation's own again.              *)
WorkNeverRemoved == lost => unclear \/ "worktree" \in foreign

(* Interruptions alone never make the target reject a handoff: crashes,    *)
(* killed and failed commands and a late history are got over at every     *)
(* step.  It rejects when somebody else changed the branches, when the     *)
(* continuation had begun to work before the launch was repeated, when git *)
(* was killed between two writes of one command, when the manifest         *)
(* contradicts itself, or when a check that could not be made counted as   *)
(* one that says no (repository.go, history.go).                           *)
RejectedForCause ==
    stage = "rejected" => foreign # {} \/ work \/ cut \/ Repo.tree # Repo.head \/ refused

(* A handoff the target is validating or launching comes to an end, unless *)
(* an interrupted git left the worktree locked, which a single --force     *)
(* does not remove, or the history was lost with its name.                 *)
AssetsResolve ==
    (stage \in {"validating", "launching"}) ~>
        (stage \in {"prepared", "accepted", "rejected"} \/ cand.dir = "locked" \/ Ref \in borrowed)
=============================================================================
