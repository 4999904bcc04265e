------------------------ MODULE HandoffAssetsProofs ------------------------
(***************************************************************************)
(* What a handoff hands over is exact, for any number of log versions,     *)
(* branches, commits and faults.  The inductive invariant has four parts,  *)
(* one for each of the procedures that run along a handoff: publishing the *)
(* history, inspecting the repository, and at the target the snapshot of   *)
(* the history and the preparation of the worktree.                        *)
(***************************************************************************)
EXTENDS HandoffAssets, TLAPS

(***************************************************************************)
(* Which procedure may be under way at which stage, and what it leaves     *)
(* when it is over.                                                        *)
(***************************************************************************)
Staged ==
    /\ stage # "publish" => pub = NoPub
    /\ stage = "publish" => insp.step = "done"
    /\ stage \notin {"inspect", "publish"} => insp = NoInsp
    /\ snap # NoSnap \/ prep # NoPrep => stage \in {"validating", "launching"}
    /\ snap = NoSnap \/ prep = NoPrep
    /\ snap.step = "idle" => snap = NoSnap
    /\ prep.step = "idle" => prep = NoPrep
    /\ told => stage = "launching" /\ prep.step = "ok"
    /\ agent => stage \in {"launching", "accepted", "rejected"}
    /\ work => agent

(***************************************************************************)
(* The publication.  Every file holds the version its name says, and is    *)
(* synced before it has the name; the name a manifest is given is durable, *)
(* or was borrowed.                                                        *)
(***************************************************************************)
Addressed == {"address", "copied", "saved", "renamed", "verify", "done"}

FilesExact == \A d \in Digests : Exists(published[d]) =>
    published[d].content = d /\ d \in Versions /\ published[d].data

PubProgress ==
    /\ pub.step \in Addressed \cup {"opened", "hashed"} => pub.before \in Versions /\ pub.before <= log
    /\ pub.step = "hashed" /\ log = pub.before => pub.digest = log
    /\ pub.step \in Addressed => pub.digest \in Versions
    /\ pub.step = "saved" => pub.temp = pub.digest
    /\ pub.step = "renamed" => Exists(published[pub.digest])
    /\ pub.step = "verify" => published[pub.digest].name
    /\ pub.step = "done" => published[pub.digest].name \/ pub.digest \in borrowed

Promised == Queued => Ref \in Versions /\ (published[Ref].name \/ Ref \in borrowed)

PublicationInv == FilesExact /\ PubProgress /\ Promised

(***************************************************************************)
(* The inspection.  Commits on a branch only grow, so that a commit which  *)
(* is read twice was there in between; and while the branch stays checked  *)
(* out, a checkout that is clean was recorded as clean.                    *)
(***************************************************************************)
Reading  == InspSteps \ {"idle", "checkout", "refused"}
HeadRead == Reading \ {"branch", "status"}
TreeRead == HeadRead \ {"head"}

Claimed ==
    /\ insp.step \in Reading => insp.branch \in Branches
    /\ insp.step \in HeadRead => insp.head \in Commits
    /\ insp.step \in TreeRead => insp.tree \in Commits

Coherent ==
    /\ insp.step \in Reading \ {"done"} =>
          current = insp.branch /\ (~dirty => <<current, tips[current]>> \in wasClean)
    /\ insp.step \in HeadRead \ {"done"} => insp.head <= tips[current]
    /\ insp.step \in TreeRead \ {"done"} => insp.head <= insp.tree /\ insp.tree <= tips[current]
    /\ insp.step = "status2" /\ tips[current] = insp.head => <<current, insp.head>> \in wasClean
    /\ insp.step \in {"head2", "done"} =>
          insp.tree = insp.head /\ <<insp.branch, insp.head>> \in wasClean

InspectionInv ==
    /\ \A b \in Branches : tips[b] <= commits
    /\ Claimed
    /\ stage = "inspect" /\ ~switched => Coherent

(***************************************************************************)
(* The snapshot: there is none but of the history the manifest names, and  *)
(* the repository is prepared next to it.                                  *)
(***************************************************************************)
SnapshotInv ==
    /\ Exists(snapshot) => snapshot.data /\ Queued /\ snapshot.content = Ref
    /\ snap.step \in {"renamed", "verify", "ok"} => Exists(snapshot)
    /\ snap.step = "invalid" => refused
    /\ prep # NoPrep => Exists(snapshot)

(***************************************************************************)
(* The preparation.  What it leaves at any point, git killed or not, is    *)
(* known to the next attempt: by the marker, unless it is finished.        *)
(***************************************************************************)
Adding   == {"fetch", "branch", "mark", "add"}
Finished == {"configure", "validate", "clear", "ok"}

WorktreeInv ==
    /\ prep.step \in Adding => cand.dir \in {"none", "missing"}
    /\ prep.step \in Finished => cand.dir \in {"none", "complete"}
    /\ prep.step \in {"add", "configure", "validate"} => marker = prep.branch
    /\ prep.step \in {"replay", "recover"} /\ prep.owned => marker = prep.branch
    /\ prep.step = "recover" => prep.owned
    /\ prep.step = "replay" /\ ~prep.owned => marker = "none"
    /\ cand.dir = "dir" => marker = cand.branch
    /\ cand.dir = "missing" => cut \/ refused
    /\ cand.dir = "unlinked" => cut

(* The worktree of a finished preparation. *)
Exact == cand.dir = "complete" /\ cand.push /\ heads[cand.branch] = "good"

(* The branch that is chosen while nobody checks out another one. *)
Choice == IF main = "source" THEN "fallback" ELSE "source"

(* Why a handoff may be rejected when nobody interferes. *)
Excuse == work \/ cut \/ Repo.tree # Repo.head \/ refused

Undisturbed ==
    /\ prep.step \in PrepSteps \ {"choose"} => prep.branch = Choice
    /\ cand.dir # "none" => cand.branch = Choice
    /\ marker \in {"none", Choice}
    /\ heads[Choice] \in {"none", "good"} \/ cut
    /\ Queued => origin[Repo.branch] = Repo.head
    /\ isRegistered /\ marker = "none" => Exact
    /\ prep.step \in {"replay", "recover"} => isRegistered
    /\ prep.step \in {"mark", "add", "configure", "validate"} => heads[Choice] = "good"
    /\ prep.step \in Finished => cand.dir = "complete"
    /\ prep.step \in {"validate", "clear", "ok"} => Exact
    /\ prep.step = "deterministic" \/ stage = "rejected" => Excuse

(* What keeps the continuation's work: its worktree is there, and no       *)
(* marker calls it the preparation's.                                      *)
Kept ==
    /\ prep.step = "clear" => cand.dir = "complete"
    /\ prep.step = "ok" \/ agent => cand.dir = "complete" /\ marker = "none"
    /\ agent => prep.step \notin Adding \cup {"recover", "configure", "validate"}
    /\ agent /\ prep.step = "replay" => ~prep.owned

PreparationInv ==
    /\ WorktreeInv
    /\ foreign = {} => Undisturbed
    /\ unclear \/ "worktree" \in foreign \/ Kept
    /\ WorkNeverRemoved

IInv == AssetsTypeOK /\ Staged /\ PublicationInv /\ InspectionInv /\ SnapshotInv /\ PreparationInv

-----------------------------------------------------------------------------
(* Refusals *)

(* A check that cannot be made, or finds what was left unsafe. *)
Refusal == verifyOwnedRemovalTree \/ PrepRefused

(***************************************************************************)
(* What was refused stays on record.                                       *)
(***************************************************************************)
LEMMA RefusedGrows == [Next]_vars => refused' = refused \/ refused' = TRUE
BY DEF vars, Next, Inspect, Used, Inspected, Publish, PublishFault, SourceFails, PrepareAgain, Queue,
    Attempt, Snapshot, Arrives, SnapshotEnds, Prepare, TargetFault, PreparationFails, Prepared, Authorize,
    publishHandoffLaunchInstructions, Launch, Accept, AgentStep, TargetFails, OthersAct, handoff

-----------------------------------------------------------------------------
(* Files *)

LEMMA NoFileIsFile == NoFile \in Files /\ ~Exists(NoFile) /\ ~NoFile.name /\ ~NoFile.data
BY HistoryAssumption DEF NoFile, Files, Exists, Contents, Torn

(***************************************************************************)
(* A file whose contents were synced is what it was after a power loss, or *)
(* is gone, and it is not gone if its name was durable (syncDirectory).    *)
(***************************************************************************)
LEMMA PowerLoss ==
    ASSUME NEW f \in Files, NEW losesName \in BOOLEAN, NEW tears \in BOOLEAN
    PROVE  /\ AfterPowerLoss(f, losesName, tears) \in Files
           /\ f.name => AfterPowerLoss(f, losesName, tears).name
           /\ f.data => AfterPowerLoss(f, losesName, tears) \in {f, NoFile}
           /\ f = NoFile => AfterPowerLoss(f, losesName, tears) = NoFile
BY NoFileIsFile, HistoryAssumption DEF AfterPowerLoss, Files, NoFile, Contents, Torn

-----------------------------------------------------------------------------
(* The initial states *)

LEMMA InitHolds == Init => IInv
<1> SUFFICES ASSUME Init PROVE IInv
  OBVIOUS
<1>1. HistoryTypeOK
  BY HistoryAssumption, NoFileIsFile DEF Init, HistoryInit, HistoryTypeOK, NoPub, NoSnap, Contents, Digests,
      Versions, Mixed, Torn, PubSteps
<1>2. RepositoryTypeOK
  <2>1. current \in Branches
    BY RepositoryAssumption DEF Init, RepositoryInit
  <2>2. 1 \in Commits
    BY RepositoryAssumption DEF Commits
  <2>3. tips \in [Branches -> Commits] /\ origin \in [Branches -> Commits]
    BY <2>2 DEF Init, RepositoryInit
  <2>4. insp \in [step : InspSteps, branch : Branches \cup {NoCommit},
                 head : Commits \cup {NoCommit}, tree : Commits \cup {NoCommit}]
    BY DEF Init, RepositoryInit, NoInsp, InspSteps
  <2>5. cand \in [dir : Registered \cup {"none", "dir"}, branch : Locals, push : BOOLEAN]
    BY DEF Init, RepositoryInit, NoCand, Registered, Locals
  <2>6. prep \in [step : PrepSteps \cup {"idle", "ok", "retryable", "deterministic"},
                 branch : Locals, owned : BOOLEAN]
    BY DEF Init, RepositoryInit, NoPrep, PrepSteps, Locals
  <2>7. heads \in [Locals -> {"none", "bare", "good", "other"}]
    BY DEF Init, RepositoryInit, Locals
  <2>8. foreign \in SUBSET {"branch", "worktree"}
    BY DEF Init, RepositoryInit
  <2> QED
    BY <2>1, <2>2, <2>3, <2>4, <2>5, <2>6, <2>7, <2>8 DEF Init, RepositoryInit, RepositoryTypeOK
<1>3. ~Queued
  BY DEF Init, Queued
<1>4. AssetsTypeOK
  <2>1. faults \in 0 .. MaxFaults
    BY AssetsAssumption DEF Init
  <2>2. stage = "inspect" /\ told = FALSE /\ agent = FALSE /\ refused = FALSE
    BY DEF Init
  <2> QED
    BY <1>1, <1>2, <1>3, <2>1, <2>2 DEF AssetsTypeOK, Stages, AtTarget
<1>5. Staged
  BY DEF Init, HistoryInit, RepositoryInit, Staged
<1>6. PublicationInv
  BY <1>3 DEF Init, HistoryInit, PublicationInv, FilesExact, PubProgress, Promised, Exists,
      NoPub, Addressed
<1>7. InspectionInv
  BY RepositoryAssumption DEF Init, RepositoryInit, InspectionInv, Claimed, Coherent, NoInsp,
      Reading, HeadRead, TreeRead
<1>8. SnapshotInv
  BY DEF Init, HistoryInit, RepositoryInit, SnapshotInv, Exists, NoSnap
<1>9. PreparationInv
  <2>1. WorktreeInv /\ WorkNeverRemoved
    BY DEF Init, RepositoryInit, WorktreeInv, WorkNeverRemoved, NoPrep, NoCand, Adding, Finished
  <2>2. Kept
    BY DEF Init, RepositoryInit, Kept, NoPrep, NoCand, Adding
  <2>3. ASSUME foreign = {} PROVE Undisturbed
    BY <1>3, <2>3 DEF Init, RepositoryInit, Undisturbed, NoPrep, NoCand, Choice, PrepSteps,
        Finished, isRegistered, Registered, Locals
  <2> QED
    BY <2>1, <2>2, <2>3 DEF PreparationInv
<1> QED
  BY <1>4, <1>5, <1>6, <1>7, <1>8, <1>9 DEF IInv

-----------------------------------------------------------------------------
(* The publication *)

Pubs == [step : PubSteps, before : Digests, digest : Digests, temp : Contents]

(***************************************************************************)
(* A publication that is not under way, or has failed, promises nothing.   *)
(***************************************************************************)
LEMMA PubOver ==
    /\ NoPub \in Pubs /\ Failed \in Pubs
    /\ pub' \in {NoPub, Failed} => PubProgress'
<1>1. /\ NoPub \in Pubs /\ Failed \in Pubs
      /\ NoPub.step = "idle" /\ Failed.step = "error"
  BY HistoryAssumption DEF NoPub, Failed, Pubs, PubSteps, Digests, Versions, Contents, Mixed, Torn
<1> QED
  BY <1>1 DEF PubProgress, Addressed

(***************************************************************************)
(* Making the names durable changes nothing else of the files (FsyncRoot). *)
(***************************************************************************)
LEMMA NamesKept ==
    ASSUME HistoryTypeOK, FilesExact
    PROVE  /\ NamesDurable \in [Digests -> Files]
           /\ \A d \in Digests :
                /\ Exists(published[d]) => NamesDurable[d].name /\ Exists(NamesDurable[d])
                /\ Exists(NamesDurable[d]) => Exists(published[d])
                /\ NamesDurable[d].content = published[d].content
                /\ NamesDurable[d].data = published[d].data
<1> SUFFICES ASSUME NEW d \in Digests
             PROVE  /\ NamesDurable[d] \in Files
                    /\ Exists(published[d]) => NamesDurable[d].name /\ Exists(NamesDurable[d])
                    /\ Exists(NamesDurable[d]) => Exists(published[d])
                    /\ NamesDurable[d].content = published[d].content
                    /\ NamesDurable[d].data = published[d].data
  BY DEF NamesDurable
<1>1. published[d] \in Files
  BY DEF HistoryTypeOK
<1>2. CASE Exists(published[d])
  <2>1. NamesDurable[d] = [published[d] EXCEPT !.name = TRUE]
    BY <1>2 DEF NamesDurable
  <2> QED
    BY <1>1, <1>2, <2>1, NoFileIsFile DEF Files, Exists, FilesExact
<1>3. CASE ~Exists(published[d])
  <2>1. NamesDurable[d] = NoFile
    BY <1>3 DEF NamesDurable
  <2> QED
    BY <1>1, <1>3, <2>1, NoFileIsFile DEF Exists
<1> QED
  BY <1>2, <1>3

(***************************************************************************)
(* A publication that is found at its address is taken over (Reuse).       *)
(***************************************************************************)
LEMMA ReuseHolds ==
    ASSUME HistoryTypeOK, PubProgress, Reuse, pub.digest \in Versions, pub.before \in Versions,
           pub.before <= log, UNCHANGED <<log, published>>
    PROVE  pub' \in Pubs /\ borrowed' \subseteq Digests /\ borrowed \subseteq borrowed' /\ PubProgress'
<1>1. pub.digest \in Digests /\ pub \in Pubs
  BY DEF Digests, HistoryTypeOK, Pubs
<1>2. borrowed' \subseteq Digests /\ borrowed \subseteq borrowed'
  BY <1>1 DEF Reuse, HistoryTypeOK
<1>3. CASE pub' = Failed
  BY <1>2, <1>3, PubOver DEF PubProgress, Addressed, Failed, NoPub
<1>4. CASE pub' = [pub EXCEPT !.step = "done"]
  <2>1. /\ pub' \in Pubs /\ pub'.step = "done" /\ pub'.digest = pub.digest /\ pub'.before = pub.before
    BY <1>1, <1>4 DEF Pubs, PubSteps
  <2>2. published[pub.digest].name \/ pub.digest \in borrowed'
    BY DEF Reuse
  <2> QED
    BY <1>2, <2>1, <2>2 DEF PubProgress, Addressed
<1> QED
  BY <1>3, <1>4 DEF Reuse, SetPub

(***************************************************************************)
(* The steps of PublishSourceHistory, the agent that goes on writing its   *)
(* log, and the publications of other handoffs.                            *)
(***************************************************************************)
LEMMA PublishHolds == IInv /\ Publish => HistoryTypeOK' /\ PublicationInv'
<1> SUFFICES ASSUME IInv, Publish PROVE HistoryTypeOK' /\ PublicationInv'
  OBVIOUS
<1>0. /\ HistoryTypeOK /\ FilesExact /\ PubProgress /\ ~Queued'
      /\ UNCHANGED targetHistory
  <2>1. stage = "publish" /\ UNCHANGED <<manifest, targetHistory>>
    BY DEF Publish, PublishStep, OpenSource, hashSourceHistory, Address, Copy, SyncTemp,
        renameSourceHistoryNoReplace, RenameExists, FsyncRoot, verifyPublishedSourceHistory,
        AgentWrites, OtherPublishes, OtherSyncs, handoff
  <2>2. AssetsTypeOK /\ PublicationInv
    BY DEF IInv
  <2> QED
    BY <2>1, <2>2 DEF AssetsTypeOK, AtTarget, Queued, NoManifest, Manifest, PublicationInv
<1>t. pub \in Pubs /\ log \in Nat /\ log \in Versions
  BY <1>0, HistoryAssumption DEF HistoryTypeOK, Pubs, Versions
<1> SUFFICES /\ log' \in Versions /\ pub' \in Pubs /\ published' \in [Digests -> Files]
             /\ borrowed' \subseteq Digests /\ FilesExact' /\ PubProgress'
  BY <1>0 DEF HistoryTypeOK, targetHistory, PublicationInv, Promised, Pubs
<1> USE <1>0, <1>t
<1>1. CASE AgentWrites
  <2>1. log' \in Versions /\ log' = log + 1 /\ UNCHANGED <<pub, published, borrowed>>
    BY <1>1, HistoryAssumption DEF AgentWrites, Versions
  <2> QED
    BY <2>1, HistoryAssumption DEF HistoryTypeOK, FilesExact, PubProgress, Versions, Addressed
<1>2. CASE OpenSource
  <2>1. /\ pub' \in Pubs /\ pub'.step = "opened" /\ pub'.before = log
        /\ UNCHANGED <<log, published, borrowed>>
    BY <1>2, PubOver DEF OpenSource, SetPub, Pubs, PubSteps, Digests, NoPub
  <2> QED
    BY <2>1 DEF HistoryTypeOK, FilesExact, PubProgress, Addressed
<1>3. CASE hashSourceHistory
  <2>1. PICK d \in Reads(pub.before) : pub' = [pub EXCEPT !.step = "hashed", !.digest = d]
    BY <1>3 DEF hashSourceHistory, SetPub
  <2>2. d \in Digests /\ (log = pub.before => d = log)
    BY <2>1 DEF Reads, Digests
  <2>3. /\ pub' \in Pubs /\ pub'.step = "hashed" /\ pub'.before = pub.before /\ pub'.digest = d
        /\ UNCHANGED <<log, published, borrowed>> /\ pub.step = "opened"
    BY <1>3, <2>1, <2>2 DEF hashSourceHistory, Pubs, PubSteps
  <2> QED
    BY <2>2, <2>3 DEF HistoryTypeOK, FilesExact, PubProgress, Addressed
<1>4. CASE Address
  <2>1. pub.step = "hashed" /\ UNCHANGED <<log, published>>
    BY <1>4 DEF Address
  <2>2. CASE ~unchanged
    BY <1>4, <2>1, <2>2, PubOver DEF Address, SetPub, HistoryTypeOK, FilesExact
  <2>3. CASE unchanged /\ Exists(published[pub.digest])
    <3>1. pub.digest = log /\ pub.before = log
      BY <2>1, <2>3 DEF unchanged, PubProgress
    <3> QED
      BY <1>4, <2>1, <2>3, <3>1, ReuseHolds DEF Address, HistoryTypeOK, FilesExact
  <2>4. CASE unchanged /\ ~Exists(published[pub.digest])
    <3>1. pub.digest = log /\ pub.before = log
      BY <2>1, <2>4 DEF unchanged, PubProgress
    <3>2. pub' \in Pubs /\ pub'.step = "address" /\ pub'.digest = log /\ pub'.before = log /\ UNCHANGED borrowed
      BY <1>4, <2>4, <3>1 DEF Address, SetPub, Pubs, PubSteps
    <3> QED
      BY <2>1, <3>2 DEF HistoryTypeOK, FilesExact, PubProgress, Addressed
  <2> QED
    BY <2>2, <2>3, <2>4
<1>5. CASE Copy
  <2>1. PICK c \in Reads(pub.before) : pub' = [pub EXCEPT !.step = "copied", !.temp = c]
    BY <1>5 DEF Copy, SetPub
  <2>2. c \in Contents
    BY <2>1 DEF Reads, Contents
  <2>3. /\ pub' \in Pubs /\ pub'.step = "copied" /\ pub'.before = pub.before /\ pub'.digest = pub.digest
        /\ UNCHANGED <<log, published, borrowed>> /\ pub.step = "address"
    BY <1>5, <2>1, <2>2 DEF Copy, Pubs, PubSteps
  <2> QED
    BY <2>3 DEF HistoryTypeOK, FilesExact, PubProgress, Addressed
<1>6. CASE SyncTemp
  <2>1. UNCHANGED <<log, published, borrowed>> /\ pub.step = "copied"
    BY <1>6 DEF SyncTemp
  <2>2. CASE pub' = Failed
    BY <2>1, <2>2, PubOver DEF HistoryTypeOK, FilesExact
  <2>3. CASE pub' = [pub EXCEPT !.step = "saved"] /\ pub.temp = pub.digest
    <3>1. /\ pub' \in Pubs /\ pub'.step = "saved" /\ pub'.before = pub.before
          /\ pub'.digest = pub.digest /\ pub'.temp = pub.digest
      BY <2>3 DEF Pubs, PubSteps
    <3> QED
      BY <2>1, <3>1 DEF HistoryTypeOK, FilesExact, PubProgress, Addressed
  <2> QED
    BY <1>6, <2>2, <2>3 DEF SyncTemp, SetPub
<1>7. CASE renameSourceHistoryNoReplace
  <2> DEFINE f == [content |-> pub.temp, data |-> TRUE, name |-> FALSE]
  <2>1. /\ pub' \in Pubs /\ pub'.step = "renamed" /\ pub'.before = pub.before /\ pub'.digest = pub.digest
        /\ UNCHANGED <<log, borrowed>> /\ pub.step = "saved"
        /\ published' = [published EXCEPT ![pub.digest] = f]
    BY <1>7 DEF renameSourceHistoryNoReplace, SetPub, Pubs, PubSteps
  <2>2. /\ pub.digest \in Versions /\ pub.temp = pub.digest /\ pub.digest \in Digests
        /\ f.content = pub.digest /\ f.data /\ f \in Files /\ Exists(f)
    BY <2>1, NoFileIsFile DEF PubProgress, Addressed, Digests, Files, Contents, Exists
  <2> HIDE DEF f
  <2> QED
    BY <2>1, <2>2 DEF HistoryTypeOK, FilesExact, PubProgress, Addressed
<1>8. CASE RenameExists
  <2>1. pub.digest \in Versions /\ pub.before \in Versions /\ pub.before <= log
    BY <1>8 DEF RenameExists, PubProgress, Addressed
  <2> QED
    BY <1>8, <2>1, ReuseHolds DEF RenameExists, HistoryTypeOK, FilesExact
<1>9. CASE FsyncRoot
  <2>1. /\ pub' \in Pubs /\ pub'.step = "verify" /\ pub'.before = pub.before /\ pub'.digest = pub.digest
        /\ UNCHANGED <<log, borrowed>> /\ pub.step = "renamed" /\ published' = NamesDurable
    BY <1>9 DEF FsyncRoot, SetPub, Pubs, PubSteps
  <2>2. pub.digest \in Digests
    BY DEF Pubs
  <2>3. published' \in [Digests -> Files] /\ FilesExact' /\ published'[pub.digest].name
    BY <2>1, <2>2, NamesKept DEF FilesExact, PubProgress
  <2> QED
    BY <2>1, <2>3 DEF HistoryTypeOK, PubProgress, Addressed
<1>10. CASE verifyPublishedSourceHistory
  <2>1. UNCHANGED <<log, published, borrowed>> /\ pub.step = "verify"
    BY <1>10 DEF verifyPublishedSourceHistory
  <2>2. CASE pub' = Failed
    BY <2>1, <2>2, PubOver DEF HistoryTypeOK, FilesExact
  <2>3. CASE pub' = [pub EXCEPT !.step = "done"]
    <3>1. pub' \in Pubs /\ pub'.step = "done" /\ pub'.before = pub.before /\ pub'.digest = pub.digest
      BY <2>3 DEF Pubs, PubSteps
    <3> QED
      BY <2>1, <3>1 DEF HistoryTypeOK, FilesExact, PubProgress, Addressed
  <2> QED
    BY <1>10, <2>2, <2>3 DEF verifyPublishedSourceHistory, SetPub
<1>11. CASE OtherPublishes
  <2> DEFINE f == [content |-> log, data |-> TRUE, name |-> FALSE]
  <2>1. /\ UNCHANGED <<log, pub, borrowed>> /\ published' = [published EXCEPT ![log] = f]
        /\ ~Exists(published[log])
    BY <1>11 DEF OtherPublishes
  <2>2. /\ f.content = log /\ f.data /\ f \in Files /\ Exists(f) /\ log \in Digests
        /\ ~published[log].name
    BY <2>1, NoFileIsFile DEF Digests, Files, Contents, Exists
  <2> HIDE DEF f
  <2>3. published' \in [Digests -> Files] /\ FilesExact'
    BY <2>1, <2>2 DEF HistoryTypeOK, FilesExact
  <2>4. pub.digest \in Digests
    BY DEF Pubs
  <2>5. \A d \in Digests : /\ Exists(published[d]) => Exists(published'[d])
                           /\ published[d].name => published'[d].name
    BY <2>1, <2>2 DEF HistoryTypeOK
  <2> QED
    BY <2>1, <2>3, <2>4, <2>5 DEF HistoryTypeOK, PubProgress
<1>12. CASE OtherSyncs
  <2>1. UNCHANGED <<log, pub, borrowed>> /\ published' = NamesDurable /\ pub.digest \in Digests
    BY <1>12 DEF OtherSyncs, Pubs
  <2>2. published' \in [Digests -> Files] /\ FilesExact'
    BY <2>1, NamesKept DEF FilesExact
  <2>3. \A d \in Digests : /\ Exists(published[d]) => Exists(published'[d])
                           /\ published[d].name => published'[d].name
    BY <2>1, NamesKept, NoFileIsFile DEF Exists
  <2> QED
    BY <2>1, <2>2, <2>3 DEF HistoryTypeOK, PubProgress
<1> QED
  BY <1>1, <1>2, <1>3, <1>4, <1>5, <1>6, <1>7, <1>8, <1>9, <1>10, <1>11, <1>12 DEF Publish, PublishStep

(***************************************************************************)
(* A power loss keeps every synced file, and takes only names that were    *)
(* not durable.                                                            *)
(***************************************************************************)
LEMMA SourcePowerLossHolds ==
    ASSUME HistoryTypeOK, FilesExact, SourcePowerLoss
    PROVE  /\ published' \in [Digests -> Files] /\ FilesExact'
           /\ \A d \in Digests : published[d].name => published'[d].name
<1>1. PICK losesName \in BOOLEAN, tears \in BOOLEAN :
        published' = [d \in Digests |-> AfterPowerLoss(published[d], losesName, tears)]
  BY DEF SourcePowerLoss
<1>2. \A d \in Digests :
        /\ published[d] \in Files
        /\ published'[d] = AfterPowerLoss(published[d], losesName, tears)
  BY <1>1 DEF HistoryTypeOK
<1>3. ASSUME NEW d \in Digests
      PROVE  /\ published'[d] \in Files
             /\ published[d].name => published'[d].name
             /\ Exists(published'[d]) => published'[d] = published[d]
  <2>1. published[d] = NoFile \/ published[d].data
    BY DEF FilesExact, Exists
  <2> QED
    BY <1>2, <2>1, PowerLoss DEF Exists
<1>4. FilesExact'
  BY <1>3 DEF FilesExact
<1> QED
  BY <1>1, <1>2, <1>3, <1>4

(***************************************************************************)
(* Every step keeps the publications exact.                                *)
(***************************************************************************)
LEMMA PublicationHolds ==
    IInv /\ [Next]_vars => /\ log' \in Versions /\ pub' \in Pubs
                           /\ published' \in [Digests -> Files] /\ borrowed' \subseteq Digests
                           /\ PublicationInv'
<1> DEFINE Goal == /\ log' \in Versions /\ pub' \in Pubs
                   /\ published' \in [Digests -> Files] /\ borrowed' \subseteq Digests
                   /\ PublicationInv'
<1> SUFFICES ASSUME IInv, [Next]_vars PROVE Goal
  OBVIOUS
<1>t. HistoryTypeOK /\ FilesExact /\ PubProgress /\ Promised /\ AssetsTypeOK /\ Staged /\ pub \in Pubs
  BY DEF IInv, AssetsTypeOK, PublicationInv, HistoryTypeOK, Pubs
<1>q. ASSUME UNCHANGED <<sourceHistory, manifest>> PROVE Goal
  BY <1>q, <1>t DEF sourceHistory, HistoryTypeOK, PublicationInv, FilesExact, PubProgress, Promised,
      Queued, Ref
<1>1. CASE Publish
  BY <1>1, PublishHolds DEF HistoryTypeOK, Pubs
<1>2. CASE PublishFault
  <2>1. pub' = Failed /\ UNCHANGED <<log, published, borrowed, manifest>>
    BY <1>2 DEF PublishFault, PublishFails, SetPub, handoff
  <2> QED
    BY <2>1, <1>t, PubOver DEF HistoryTypeOK, PublicationInv, FilesExact, Promised, Queued, Ref
<1>3. CASE SourceFails
  <2>1. /\ SourcePowerLoss /\ UNCHANGED <<log, borrowed, manifest>>
        /\ pub' = IF stage = "publish" THEN Failed ELSE pub
    BY <1>3 DEF SourceFails, SourcePowerLoss, handoff
  <2>2. pub' \in {NoPub, Failed}
    BY <1>t, <2>1 DEF Staged
  <2>3. Queued => Ref \in Digests
    BY <1>t DEF AssetsTypeOK
  <2> QED
    BY <1>t, <2>1, <2>2, <2>3, PubOver, SourcePowerLossHolds DEF HistoryTypeOK, PublicationInv, Promised,
        Queued, Ref
<1>4. CASE PrepareAgain
  <2>1. pub' = NoPub /\ UNCHANGED <<log, published, borrowed, manifest>>
    BY <1>4 DEF PrepareAgain
  <2> QED
    BY <2>1, <1>t, PubOver DEF HistoryTypeOK, PublicationInv, FilesExact, Promised, Queued, Ref
<1>5. CASE Queue
  <2>1. /\ pub' = NoPub /\ UNCHANGED <<log, published, borrowed>> /\ pub.step = "done"
        /\ manifest' = Manifest(insp, pub.digest)
    BY <1>5 DEF Queue
  <2>2. Ref' = pub.digest
    BY <2>1 DEF Ref, Manifest
  <2> QED
    BY <2>1, <2>2, <1>t, PubOver DEF HistoryTypeOK, PublicationInv, FilesExact, PubProgress, Promised, Addressed
<1>6. CASE Inspect \/ Used \/ Inspected
  BY <1>6, <1>q DEF Inspect, Used, Inspected, historyVars, sourceHistory, handoff
<1>7. CASE Attempt \/ Snapshot \/ Arrives \/ SnapshotEnds
  BY <1>7, <1>q DEF Attempt, Snapshot, Arrives, SnapshotEnds, SnapStep, SnapStart, openHistorySource,
      SnapPublish, syncDirectory, SnapVerify, SyncArrives, handoff
<1>8. CASE Prepare \/ TargetFault
  BY <1>8, <1>q DEF Prepare, TargetFault, SnapFails, RootUnavailable, historyVars, sourceHistory
<1>9. CASE PreparationFails \/ Prepared \/ Authorize
  BY <1>9, <1>q DEF PreparationFails, Prepared, Authorize, historyVars, sourceHistory
<1>10. CASE publishHandoffLaunchInstructions \/ Launch \/ Accept
  BY <1>10, <1>q DEF publishHandoffLaunchInstructions, Launch, Accept, historyVars, sourceHistory
<1>11. CASE AgentStep \/ TargetFails \/ OthersAct
  BY <1>11, <1>q DEF AgentStep, TargetFails, OthersAct, historyVars, sourceHistory, handoff
<1>12. CASE UNCHANGED vars
  BY <1>12, <1>q DEF vars, historyVars, sourceHistory
<1> QED
  BY <1>1, <1>2, <1>3, <1>4, <1>5, <1>6, <1>7, <1>8, <1>9, <1>10, <1>11, <1>12 DEF Next

-----------------------------------------------------------------------------
(* The inspection *)

Insps == [step : InspSteps, branch : Branches \cup {NoCommit},
          head : Commits \cup {NoCommit}, tree : Commits \cup {NoCommit}]

SourceTypes ==
    /\ commits \in Commits /\ tips \in [Branches -> Commits] /\ current \in Branches
    /\ dirty \in BOOLEAN
    /\ origin \in [Branches -> Commits]
    /\ insp \in Insps
    /\ wasClean \subseteq Branches \X Commits /\ switched \in BOOLEAN

(***************************************************************************)
(* One git command after the other, each refused or remembered.            *)
(***************************************************************************)
LEMMA InspectHolds ==
    ASSUME SourceTypes, InspectionInv, stage = "inspect", stage' = stage, InspectStep
    PROVE  SourceTypes' /\ InspectionInv'
<1>0. /\ UNCHANGED <<commits, tips, current, dirty, origin>>
      /\ tips[current] \in Commits /\ commits \in Nat /\ \A c \in Commits : c \in Nat
  BY RepositoryAssumption DEF InspectStep, sourceCheckoutForSession, InspectBranch, InspectStatus, InspectHead, InspectTree,
      InspectAdvertised, InspectFetched, InspectAgainBranch, InspectAgainStatus, InspectAgainHead,
      InspectAgainTree, Passes, Continue, Becomes, Refused, SourceTypes, Commits
<1> SUFFICES /\ insp' \in Insps /\ wasClean' \subseteq Branches \X Commits /\ switched' \in BOOLEAN
             /\ Claimed' /\ (~switched' => Coherent')
  BY <1>0 DEF SourceTypes, InspectionInv
<1>r. ASSUME Refused
      PROVE  /\ insp' \in Insps /\ wasClean' \subseteq Branches \X Commits /\ switched' \in BOOLEAN
             /\ Claimed' /\ Coherent'
  <2>1. insp' \in Insps /\ insp'.step = "refused" /\ wasClean' = {} /\ switched' = FALSE
    BY <1>r DEF Refused, Becomes, NoInsp, Insps, InspSteps
  <2> QED
    BY <2>1 DEF Claimed, Coherent, Reading, HeadRead, TreeRead
<1>p. ASSUME NEW s \in InspSteps, Passes(s)
      PROVE  /\ insp' \in Insps /\ insp'.step = s /\ UNCHANGED <<wasClean, switched>>
             /\ insp'.branch = insp.branch /\ insp'.head = insp.head /\ insp'.tree = insp.tree
  BY <1>p DEF Passes, Continue, Becomes, SourceTypes, Insps
<1> USE <1>0 DEF At
<1>1. CASE sourceCheckoutForSession
  <2>1. CASE Passes("checkout")
    BY <1>p, <2>1 DEF SourceTypes, InspSteps, Claimed, Coherent, Reading, HeadRead, TreeRead
  <2> QED
    BY <1>1, <1>r, <2>1 DEF sourceCheckoutForSession
<1>2. CASE InspectBranch
  <2>1. insp' \in Insps /\ insp'.step = "branch" /\ insp'.branch = current
    BY <1>2 DEF InspectBranch, Becomes, NoInsp, SourceTypes, Insps, InspSteps
  <2>2. /\ wasClean' \subseteq Branches \X Commits /\ switched' = switched
        /\ ~dirty => <<current, tips[current]>> \in wasClean'
    BY <1>2 DEF InspectBranch, SourceTypes
  <2> QED
    BY <2>1, <2>2 DEF SourceTypes, Claimed, Coherent, Reading, HeadRead, TreeRead
<1>3. CASE InspectStatus
  <2>1. CASE Passes("status") /\ insp.step = "branch"
    BY <1>p, <2>1 DEF InspectionInv, SourceTypes, InspSteps, Claimed, Coherent, Reading, HeadRead, TreeRead
  <2> QED
    BY <1>3, <1>r, <2>1 DEF InspectStatus
<1>4. CASE InspectHead
  <2>1. /\ insp' \in Insps /\ insp'.step = "head" /\ insp'.branch = insp.branch
        /\ insp'.head = tips[current] /\ insp.step = "status" /\ UNCHANGED <<wasClean, switched>>
    BY <1>4 DEF InspectHead, Continue, Becomes, SourceTypes, Insps, InspSteps
  <2>2. insp'.head <= tips'[current'] /\ insp'.head \in Commits
    BY <2>1
  <2> QED
    BY <2>1, <2>2 DEF InspectionInv, SourceTypes, InspSteps, Claimed, Coherent, Reading, HeadRead,
        TreeRead
<1>5. CASE InspectTree
  <2>1. /\ insp' \in Insps /\ insp'.step = "tree" /\ insp'.branch = insp.branch
        /\ insp'.head = insp.head /\ insp'.tree = tips[current]
        /\ insp.step = "head" /\ UNCHANGED <<wasClean, switched>>
    BY <1>5 DEF InspectTree, Continue, Becomes, SourceTypes, Insps, InspSteps
  <2>2. insp'.tree <= tips'[current'] /\ insp'.tree \in Commits
    BY <2>1
  <2> QED
    BY <2>1, <2>2 DEF InspectionInv, SourceTypes, InspSteps, Claimed, Coherent, Reading, HeadRead,
        TreeRead
<1>6. CASE InspectAdvertised
  <2>1. CASE Passes("advertised") /\ insp.step = "tree"
    BY <1>p, <2>1 DEF InspectionInv, SourceTypes, InspSteps, Claimed, Coherent, Reading, HeadRead, TreeRead
  <2> QED
    BY <1>6, <1>r, <2>1 DEF InspectAdvertised
<1>7. CASE InspectFetched
  <2>1. CASE Passes("fetched") /\ insp.step = "advertised"
    BY <1>p, <2>1 DEF InspectionInv, SourceTypes, InspSteps, Claimed, Coherent, Reading, HeadRead, TreeRead
  <2> QED
    BY <1>7, <1>r, <2>1 DEF InspectFetched
<1>8. CASE InspectAgainBranch
  <2>1. CASE Passes("branch2") /\ insp.step = "fetched"
    BY <1>p, <2>1 DEF InspectionInv, SourceTypes, InspSteps, Claimed, Coherent, Reading, HeadRead, TreeRead
  <2> QED
    BY <1>8, <1>r, <2>1 DEF InspectAgainBranch
<1>9. CASE InspectAgainStatus
  <2>1. CASE Passes("status2") /\ insp.step = "branch2" /\ ~dirty
    BY <1>p, <2>1 DEF InspectionInv, SourceTypes, InspSteps, Claimed, Coherent, Reading, HeadRead, TreeRead
  <2> QED
    BY <1>9, <1>r, <2>1 DEF InspectAgainStatus
<1>10. CASE InspectAgainHead
  <2>1. CASE Passes("head2") /\ insp.step = "status2" /\ tips[current] = insp.head
    <3>1. /\ insp' \in Insps /\ insp'.step = "head2" /\ UNCHANGED <<wasClean, switched>>
          /\ insp'.branch = insp.branch /\ insp'.head = insp.head /\ insp'.tree = insp.tree
      BY <1>p, <2>1 DEF InspSteps
    <3>2. insp.head \in Commits /\ insp.tree \in Commits /\ insp.branch \in Branches
      BY <2>1 DEF InspectionInv, Claimed, InspSteps, Reading, HeadRead, TreeRead
    <3>3. ASSUME ~switched
          PROVE  /\ current = insp.branch /\ (~dirty => <<current, tips[current]>> \in wasClean)
                 /\ insp.head <= insp.tree /\ insp.tree <= insp.head
                 /\ <<current, insp.head>> \in wasClean
      BY <2>1, <3>3 DEF InspectionInv, Coherent, InspSteps, Reading, HeadRead, TreeRead
    <3>4. ~switched => insp.tree = insp.head
      BY <3>2, <3>3
    <3> QED
      BY <2>1, <3>1, <3>2, <3>3, <3>4 DEF SourceTypes, Claimed, Coherent, InspSteps, Reading, HeadRead, TreeRead
  <2> QED
    BY <1>10, <1>r, <2>1 DEF InspectAgainHead
<1>11. CASE InspectAgainTree
  <2>1. CASE Passes("done") /\ insp.step = "head2"
    BY <1>p, <2>1 DEF InspectionInv, SourceTypes, InspSteps, Claimed, Coherent, Reading, HeadRead, TreeRead
  <2> QED
    BY <1>11, <1>r, <2>1 DEF InspectAgainTree
<1> QED
  BY <1>1, <1>2, <1>3, <1>4, <1>5, <1>6, <1>7, <1>8, <1>9, <1>10, <1>11 DEF InspectStep

(***************************************************************************)
(* Edits, commits, checkouts and pushes meanwhile.                         *)
(***************************************************************************)
LEMMA UseHolds ==
    ASSUME SourceTypes, InspectionInv, stage = "inspect", stage' = stage, SourceUse
    PROVE  SourceTypes' /\ InspectionInv'
<1>0. /\ insp' = insp /\ insp \in Insps
      /\ tips[current] \in Commits /\ commits \in Nat /\ \A c \in Commits : c \in Nat
  BY RepositoryAssumption DEF SourceUse, Edit, Commit, Checkout, Push, SourceTypes, Commits
<1>1. /\ Claimed' /\ commits' \in Commits /\ tips' \in [Branches -> Commits] /\ current' \in Branches
      /\ dirty' \in BOOLEAN /\ origin' \in [Branches -> Commits]
      /\ \A b \in Branches : tips'[b] <= commits'
  <2>1. CASE Edit
    BY <1>0, <2>1 DEF Edit, SourceTypes, InspectionInv, Claimed
  <2>2. CASE Commit
    <3>1. /\ commits' = commits + 1 /\ tips' = [tips EXCEPT ![current] = commits + 1]
          /\ commits + 1 \in Commits /\ UNCHANGED <<current, origin>> /\ dirty' \in BOOLEAN
      BY <2>2, RepositoryAssumption DEF Commit, SourceTypes, Commits
    <3>2. \A b \in Branches : tips'[b] <= commits'
      <4> SUFFICES ASSUME NEW b \in Branches PROVE tips'[b] <= commits + 1
        BY <3>1
      <4>1. tips[b] \in Nat /\ tips[b] <= commits
        BY <1>0 DEF SourceTypes, InspectionInv
      <4>2. tips'[b] = tips[b] \/ tips'[b] = commits + 1
        BY <3>1 DEF SourceTypes
      <4> QED
        BY <1>0, <4>1, <4>2
    <3> QED
      BY <1>0, <3>1, <3>2 DEF SourceTypes, InspectionInv, Claimed
  <2>3. CASE Checkout
    BY <1>0, <2>3 DEF Checkout, SourceTypes, InspectionInv, Claimed
  <2>4. CASE Push
    BY <1>0, <2>4 DEF Push, SourceTypes, InspectionInv, Claimed
  <2> QED
    BY <2>1, <2>2, <2>3, <2>4 DEF SourceUse
<1>2. /\ wasClean' \subseteq Branches \X Commits /\ wasClean \subseteq wasClean'
      /\ switched' \in BOOLEAN /\ (switched => switched')
  <2>1. CASE Seen
    <3>1. <<current', tips'[current']>> \in Branches \X Commits
      BY <1>1
    <3>2. \/ UNCHANGED <<wasClean, switched>>
          \/ /\ wasClean' \in {wasClean \cup {}, wasClean \cup {<<current', tips'[current']>>}}
             /\ switched' = (switched \/ current' # current)
      BY <2>1 DEF Seen
    <3> QED
      BY <3>1, <3>2 DEF SourceTypes
  <2>2. CASE UNCHANGED <<wasClean, switched>>
    BY <2>2 DEF SourceTypes
  <2> QED
    BY <2>1, <2>2 DEF SourceUse, Edit, Commit, Checkout, Push
<1>3. ASSUME ~switched', insp.step \in Reading \ {"done"}
      PROVE  /\ current' = current /\ current = insp.branch
             /\ ~dirty' => <<current', tips'[current']>> \in wasClean'
             /\ tips'[current] = tips[current] \/ tips'[current] = commits + 1
  <2>1. CASE Push
    BY <1>2, <1>3, <2>1 DEF Push, InspectionInv, Coherent
  <2>2. CASE Seen /\ (Edit \/ Commit \/ Checkout)
    <3>1. /\ current' = current
          /\ ~dirty' => <<current', tips'[current']>> \in wasClean'
      BY <1>3, <2>2 DEF Seen, Reading
    <3>2. tips'[current] = tips[current] \/ tips'[current] = commits + 1
      BY <2>2 DEF Edit, Commit, Checkout, SourceTypes
    <3> QED
      BY <1>2, <1>3, <3>1, <3>2 DEF InspectionInv, Coherent
  <2> QED
    BY <2>1, <2>2 DEF SourceUse, Edit, Commit, Checkout
<1>4. ASSUME ~switched' PROVE Coherent'
  <2>0. Coherent
    BY <1>2, <1>4 DEF InspectionInv
  <2>1. CASE insp.step \notin Reading \ {"done"}
    BY <1>0, <1>2, <2>0, <2>1 DEF Coherent, Reading, HeadRead, TreeRead, InspSteps
  <2>2. CASE insp.step \in Reading \ {"done"}
    <3>1. /\ current' = current /\ current = insp.branch
          /\ ~dirty' => <<current', tips'[current']>> \in wasClean'
          /\ tips'[current] = tips[current] \/ tips'[current] = commits + 1
      BY <1>3, <1>4, <2>2
    <3>2. tips[current] <= tips'[current] /\ tips'[current] \in Nat /\ tips[current] \in Nat
      <4>1. tips'[current] \in Nat /\ tips[current] \in Nat /\ tips[current] <= commits
        BY <1>0, <1>1, <3>1 DEF InspectionInv, SourceTypes
      <4> QED
        BY <1>0, <3>1, <4>1
    <3>3. insp.step \in HeadRead => insp.head \in Nat
      BY <1>0 DEF InspectionInv, Claimed
    <3>4. insp.step \in TreeRead => insp.tree \in Nat
      BY <1>0 DEF InspectionInv, Claimed
    <3>5. insp.step \in HeadRead \ {"done"} => insp.head <= tips'[current]
      BY <2>0, <3>2, <3>3 DEF Coherent
    <3>6. insp.step \in TreeRead \ {"done"} => insp.head <= insp.tree /\ insp.tree <= tips'[current]
      BY <2>0, <3>2, <3>4 DEF Coherent
    <3>7. ASSUME insp.step = "status2", tips'[current] = insp.head
          PROVE  <<current, insp.head>> \in wasClean'
      <4>1. insp.head <= tips[current] /\ insp.head \in Nat /\ tips[current] <= commits
        BY <2>0, <3>3, <3>7 DEF Coherent, HeadRead, Reading, InspSteps, InspectionInv, SourceTypes
      <4>2. tips'[current] = tips[current]
        BY <1>0, <3>1, <3>2, <3>7, <4>1
      <4> QED
        BY <1>2, <2>0, <3>7, <4>2 DEF Coherent
    <3> QED
      BY <1>0, <1>2, <2>0, <2>2, <3>1, <3>5, <3>6, <3>7 DEF Coherent
  <2> QED
    BY <2>1, <2>2
<1> QED
  BY <1>0, <1>1, <1>2, <1>4 DEF SourceTypes, InspectionInv

(***************************************************************************)
(* Every step keeps the inspection coherent.                               *)
(***************************************************************************)
LEMMA InspectionHolds == IInv /\ [Next]_vars => SourceTypes' /\ InspectionInv'
<1> SUFFICES ASSUME IInv, [Next]_vars PROVE SourceTypes' /\ InspectionInv'
  OBVIOUS
<1>t. SourceTypes /\ InspectionInv /\ Staged /\ AssetsTypeOK
  BY DEF IInv, AssetsTypeOK, RepositoryTypeOK, SourceTypes, Insps
<1>q. ASSUME UNCHANGED sourceRepo, stage' # "inspect" \/ stage' = stage
      PROVE  SourceTypes' /\ InspectionInv'
  <2>1. SourceTypes'
    BY <1>q, <1>t DEF SourceTypes, sourceRepo
  <2>2. Claimed' /\ \A b \in Branches : tips'[b] <= commits'
    BY <1>q, <1>t DEF InspectionInv, Claimed, sourceRepo
  <2>3. stage' = "inspect" /\ ~switched' => Coherent'
    BY <1>q, <1>t DEF InspectionInv, Coherent, sourceRepo
  <2> QED
    BY <2>1, <2>2, <2>3 DEF InspectionInv
<1>i. ASSUME insp' = NoInsp, UNCHANGED <<commits, tips, current, dirty, origin, wasClean, switched>>
      PROVE  SourceTypes' /\ InspectionInv'
  <2>1. NoInsp \in Insps /\ NoInsp.step = "idle"
    BY DEF NoInsp, Insps, InspSteps
  <2>2. Claimed' /\ Coherent'
    BY <1>i, <2>1 DEF Claimed, Coherent, Reading, HeadRead, TreeRead
  <2> QED
    BY <1>i, <1>t, <2>1, <2>2 DEF SourceTypes, InspectionInv
<1>1. CASE Inspect
  BY <1>1, <1>t, InspectHolds DEF Inspect, handoff
<1>2. CASE Used
  BY <1>2, <1>t, UseHolds DEF Used, handoff
<1>3. CASE Inspected
  <2>1. /\ UNCHANGED <<commits, tips, current, dirty, origin, insp>>
        /\ wasClean' = {} /\ switched' = FALSE /\ stage' = "publish"
    BY <1>3 DEF Inspected
  <2> QED
    BY <1>t, <2>1 DEF SourceTypes, InspectionInv, Claimed
<1>4. CASE PrepareAgain \/ Queue
  BY <1>4, <1>i DEF PrepareAgain, Queue
<1>5. CASE Publish \/ PublishFault \/ SourceFails
  BY <1>5, <1>q DEF Publish, PublishFault, SourceFails, repositoryVars, handoff
<1>6. CASE Attempt \/ Snapshot \/ Arrives
  BY <1>6, <1>q DEF Attempt, Snapshot, Arrives, repositoryVars, handoff
<1>7. CASE SnapshotEnds
  BY <1>7, <1>q DEF SnapshotEnds
<1>8. CASE Prepare
  BY <1>8, <1>q DEF Prepare, PrepareStep, chooseLocalBranch, Candidate, Replay,
      recoverOwnedRegisteredCandidate, Fetch, LocalBranch, writePreparationMarker, Add,
      configureWorktreePush, Validate, clearPreparationMarker, verifyOwnedRemovalTree
<1>9. CASE TargetFault
  BY <1>9, <1>q DEF TargetFault, PrepFault, PrepFails, RecoverKilled, BranchKilled, AddKilled,
      PrepRefused, CheckFails, CandidateUnseen, repositoryVars
<1>10. CASE PreparationFails \/ Prepared \/ Authorize
  BY <1>10, <1>q DEF PreparationFails, Prepared, Authorize, repositoryVars, prepared
<1>11. CASE publishHandoffLaunchInstructions \/ Launch \/ Accept
  BY <1>11, <1>q DEF publishHandoffLaunchInstructions, Launch, Accept, repositoryVars, prepared
<1>12. CASE AgentStep \/ TargetFails
  BY <1>12, <1>q DEF AgentStep, AgentWorks, TargetFails, prepared, handoff
<1>13. CASE OthersAct
  <2>1. CASE UserSwitches \/ UserRemoves
    BY <1>13, <1>q, <2>1 DEF OthersAct, UserSwitches, UserRemoves, handoff
  <2>2. CASE OthersPush(Repo.branch)
    <3>1. /\ commits' = commits + 1 /\ commits + 1 \in Commits /\ commits \in Nat
          /\ UNCHANGED <<tips, current, dirty, insp, wasClean, switched, stage>>
          /\ origin' = [origin EXCEPT ![Repo.branch] = commits + 1]
      BY <1>13, <1>t, <2>2, RepositoryAssumption DEF OthersAct, OthersPush, handoff, SourceTypes, Commits
    <3>2. \A b \in Branches : tips[b] \in Nat /\ tips[b] <= commits'
      BY <1>t, <3>1, RepositoryAssumption DEF SourceTypes, InspectionInv, Commits
    <3>3. SourceTypes'
      BY <1>t, <3>1 DEF SourceTypes
    <3>4. Claimed' /\ (stage' = "inspect" /\ ~switched' => Coherent')
      BY <1>t, <3>1 DEF InspectionInv, Claimed, Coherent
    <3> QED
      BY <3>1, <3>2, <3>3, <3>4 DEF InspectionInv
  <2> QED
    BY <1>13, <2>1, <2>2 DEF OthersAct
<1>14. CASE UNCHANGED vars
  BY <1>14, <1>q DEF vars, repositoryVars
<1> QED
  BY <1>1, <1>2, <1>3, <1>4, <1>5, <1>6, <1>7, <1>8, <1>9, <1>10, <1>11, <1>12, <1>13, <1>14
     DEF Next

-----------------------------------------------------------------------------
(* Types at the target *)

Cands == [dir : Registered \cup {"none", "dir"}, branch : Locals, push : BOOLEAN]
Preps == [step : PrepSteps \cup {"idle", "ok", "retryable", "deterministic"},
          branch : Locals, owned : BOOLEAN]
Heads == [Locals -> {"none", "bare", "good", "other"}]

TargetTypes ==
    /\ main \in {"source", "other"}
    /\ heads \in Heads
    /\ cand \in Cands
    /\ work \in BOOLEAN /\ marker \in Locals \cup {"none"}
    /\ prep \in Preps
    /\ foreign \in SUBSET {"branch", "worktree"}
    /\ cut \in BOOLEAN /\ unclear \in BOOLEAN /\ lost \in BOOLEAN

LEMMA NoneYet == NoCand \in Cands /\ NoPrep \in Preps /\ NoPrep.step = "idle" /\ NoCand.dir = "none"
BY DEF NoCand, NoPrep, Cands, Preps, Registered, Locals, PrepSteps

(***************************************************************************)
(* A refusal ends the preparation, but for a candidate that is not seen:   *)
(* it is removed, and its registration stays.                              *)
(***************************************************************************)
LEMMA RefusalIs ==
    ASSUME TargetTypes, Refusal
    PROVE  /\ UNCHANGED <<sourceRepo, main, heads, marker, foreign, cut, unclear>>
           /\ prep.step \in PrepSteps /\ prep' \in Preps /\ prep'.branch = prep.branch
           /\ \/ prep'.step = "deterministic" /\ UNCHANGED <<cand, work, lost>>
              \/ /\ prep.step = "candidate" /\ prep'.step = "fetch" /\ marker = prep.branch
                 /\ isRegistered /\ cand' = [cand EXCEPT !.dir = "missing"]
                 /\ lost' = (lost \/ work) /\ work' = FALSE
<1>1. prep \in Preps
  BY DEF TargetTypes
<1>2. CASE CheckFails \/ verifyOwnedRemovalTree
  BY <1>1, <1>2 DEF CheckFails, verifyOwnedRemovalTree, Deterministic, Goes, Step, Preps, PrepSteps,
      branches, history
<1>3. CASE CandidateUnseen
  BY <1>1, <1>3 DEF CandidateUnseen, Deterministic, Goes, Step, Preps, PrepSteps, branches, Owned
<1> QED
  BY <1>2, <1>3 DEF Refusal, PrepRefused

(***************************************************************************)
(* A step of the preparation, or one that fails, ends in another step or   *)
(* in a result, and takes no work for the continuation's.                  *)
(***************************************************************************)
LEMMA PrepareTypes ==
    ASSUME TargetTypes, NEW r, PrepareStep(r) \/ PrepFault \/ Refusal
    PROVE  /\ TargetTypes' /\ UNCHANGED <<main, foreign>>
           /\ prep.step \in PrepSteps /\ prep'.step # "idle" /\ (work' => work)
<1> USE DEF TargetTypes, Step, history, branches
<1>g. ASSUME NEW s \in PrepSteps \cup {"idle", "ok", "retryable", "deterministic"}, Goes(s)
      PROVE  prep' \in Preps /\ prep'.step = s /\ prep'.branch = prep.branch /\ prep'.owned = prep.owned
  BY <1>g DEF Goes, Preps
<1>a. \A d \in Registered \cup {"dir"} : Added(d) \in Cands
  BY DEF Added, Preps, Cands
<1>1. CASE chooseLocalBranch
  <2>1. prep' \in Preps /\ prep'.step = "candidate"
    BY <1>1 DEF chooseLocalBranch, NoPrep, Preps, Cands, Locals, PrepSteps
  <2> QED
    BY <1>1, <2>1 DEF chooseLocalBranch, PrepSteps
<1>2. CASE Candidate
  <2>1. prep' \in Preps /\ prep'.step \in {"fetch", "deterministic", "replay"}
    BY <1>2, <1>g DEF Candidate, recoverOwnedPartialCandidate, Deterministic, Preps, PrepSteps, Owned
  <2>2. cand' \in Cands
    BY <1>2, NoneYet DEF Candidate, recoverOwnedPartialCandidate, Cands, Owned
  <2> QED
    BY <1>2, <2>1, <2>2 DEF Candidate, PrepSteps
<1>3. CASE Replay
  BY <1>3, <1>g DEF Replay, Deterministic, PrepSteps
<1>4. CASE recoverOwnedRegisteredCandidate
  <2>1. lost' \in BOOLEAN /\ work' \in BOOLEAN /\ (work' => work)
    <3>1. UNCHANGED <<lost, work>> \/ (lost' = (lost \/ work) /\ work' = FALSE)
      BY <1>4 DEF recoverOwnedRegisteredCandidate
    <3>2. CASE UNCHANGED <<lost, work>>
      BY <3>2
    <3>3. CASE lost' = (lost \/ work) /\ work' = FALSE
      BY <3>3
    <3> QED
      BY <3>1, <3>2, <3>3
  <2>2. prep' \in Preps /\ prep'.step \in {"retryable", "fetch"} /\ cut' = cut /\ cand' \in Cands
    BY <1>4, <1>g, NoneYet DEF recoverOwnedRegisteredCandidate, Retryable, PrepSteps
  <2> QED
    BY <1>4, <2>1, <2>2 DEF recoverOwnedRegisteredCandidate, PrepSteps
<1>5. CASE Fetch(r)
  BY <1>5, <1>g DEF Fetch, Deterministic, PrepSteps
<1>6. CASE LocalBranch
  <2>1. heads' \in Heads
    BY <1>6 DEF LocalBranch, Heads
  <2> QED
    BY <1>6, <1>g, <2>1 DEF LocalBranch, Deterministic, PrepSteps
<1>7. CASE writePreparationMarker
  BY <1>7, <1>g DEF writePreparationMarker, Deterministic, PrepSteps, Preps
<1>8. CASE Add
  <2>1. cand' \in Cands
    <3>1. Added("complete") \in Cands
      BY <1>a DEF Registered
    <3> QED
      BY <1>8, <3>1 DEF Add, Cands
  <2>2. prep' \in Preps /\ prep'.step \in {"configure", "ok"}
    BY <1>8, <1>g DEF Add, PrepSteps
  <2>3. marker' \in {marker, "none"} /\ unclear' \in {unclear, TRUE}
    BY <1>8 DEF Add
  <2> QED
    BY <1>8, <2>1, <2>2, <2>3 DEF Add, PrepSteps
<1>9. CASE configureWorktreePush
  <2>1. cand' \in Cands
    BY <1>9 DEF configureWorktreePush, Cands
  <2> QED
    BY <1>9, <1>g, <2>1 DEF configureWorktreePush, PrepSteps
<1>10. CASE Validate
  BY <1>10, <1>g DEF Validate, Deterministic, PrepSteps
<1>11. CASE clearPreparationMarker
  BY <1>11, <1>g DEF clearPreparationMarker, PrepSteps
<1>12. CASE PrepFails
  BY <1>12, <1>g DEF PrepFails, Retryable, PrepSteps
<1>16. CASE Refusal
  <2>1. CASE prep'.step = "deterministic" /\ UNCHANGED <<cand, work, lost>>
    BY <1>16, <2>1, RefusalIs
  <2>2. CASE /\ prep'.step = "fetch" /\ cand' = [cand EXCEPT !.dir = "missing"]
             /\ lost' = (lost \/ work) /\ work' = FALSE
    <3>1. cand' \in Cands
      BY <2>2 DEF Cands, Registered
    <3>2. lost' \in BOOLEAN /\ work' \in BOOLEAN /\ (work' => work)
      BY <2>2
    <3> QED
      BY <1>16, <2>2, <3>1, <3>2, RefusalIs
  <2> QED
    BY <1>16, <2>1, <2>2, RefusalIs
<1>13. CASE RecoverKilled
  <2>1. cand' \in Cands
    BY <1>13 DEF RecoverKilled, Cands, Registered
  <2>2. lost' \in BOOLEAN /\ work' = FALSE
    BY <1>13 DEF RecoverKilled
  <2> QED
    <3>1. /\ prep' \in Preps /\ prep'.step = "retryable" /\ cut' = TRUE /\ prep.step = "recover"
          /\ UNCHANGED <<main, heads, marker, foreign, unclear>>
      BY <1>13, <1>g DEF RecoverKilled, Retryable
    <3> QED
      BY <2>1, <2>2, <3>1 DEF PrepSteps
<1>14. CASE BranchKilled
  <2>1. heads' \in Heads
    BY <1>14 DEF BranchKilled, Heads
  <2> QED
    BY <1>14, <1>g, <2>1 DEF BranchKilled, Retryable, PrepSteps
<1>15. CASE AddKilled
  <2>1. cand' \in Cands
    BY <1>15, <1>a, NoneYet DEF AddKilled, LeftByAdd, Registered
  <2>2. cut' \in BOOLEAN
    BY <1>15 DEF AddKilled
  <2> QED
    BY <1>15, <1>g, <2>1, <2>2 DEF AddKilled, Retryable, PrepSteps
<1> QED
  BY <1>1, <1>2, <1>3, <1>4, <1>5, <1>6, <1>7, <1>8, <1>9, <1>10, <1>11, <1>12, <1>13, <1>14, <1>15,
     <1>16 DEF PrepareStep, PrepFault

(***************************************************************************)
(* The other steps of a handoff, and the people at the target.             *)
(***************************************************************************)
LEMMA TargetTypesHold == IInv /\ [Next]_vars => TargetTypes'
<1> SUFFICES ASSUME IInv, [Next]_vars PROVE TargetTypes'
  OBVIOUS
<1>t. TargetTypes
  BY DEF IInv, AssetsTypeOK, RepositoryTypeOK, TargetTypes, Heads, Cands, Preps
<1>q. ASSUME UNCHANGED targetRepo PROVE TargetTypes'
  BY <1>q, <1>t DEF targetRepo, TargetTypes
<1>p. ASSUME UNCHANGED prepared, prep' = NoPrep PROVE TargetTypes'
  BY <1>p, <1>t, NoneYet DEF prepared, TargetTypes
<1>1. CASE Inspect \/ Used
  BY <1>1, <1>q DEF Inspect, Used, InspectStep, sourceCheckoutForSession, InspectBranch, InspectStatus,
      InspectHead, InspectTree, InspectAdvertised, InspectFetched, InspectAgainBranch,
      InspectAgainStatus, InspectAgainHead, InspectAgainTree, Passes, Continue, Becomes, Refused,
      SourceUse, Edit, Commit, Checkout, Push
<1>2. CASE Inspected \/ Publish \/ PublishFault \/ SourceFails \/ PrepareAgain
  BY <1>2, <1>q DEF Inspected, Publish, PublishFault, SourceFails, PrepareAgain, repositoryVars
<1>3. CASE Queue
  <2>1. /\ UNCHANGED <<main, heads, cand, work, marker, prep, cut, unclear, lost>>
        /\ foreign' \in {foreign \cup {}, foreign \cup {"branch"}}
    BY <1>3 DEF Queue
  <2> QED
    BY <1>t, <2>1 DEF TargetTypes
<1>4. CASE Attempt \/ Snapshot \/ Arrives
  BY <1>4, <1>q DEF Attempt, Snapshot, Arrives, repositoryVars
<1>5. CASE SnapshotEnds
  <2>1. /\ UNCHANGED <<main, heads, cand, work, marker, foreign, cut, unclear, lost>>
        /\ prep' = NoPrep \/ prep' = [NoPrep EXCEPT !.step = "choose"]
    BY <1>5 DEF SnapshotEnds
  <2>2. prep' \in Preps
    BY <2>1, NoneYet DEF Preps, PrepSteps
  <2> QED
    BY <1>t, <2>1, <2>2 DEF TargetTypes
<1>6. CASE Prepare
  BY <1>6, <1>t, PrepareTypes DEF Prepare, Refusal
<1>7. CASE TargetFault
  <2>1. CASE PrepFault \/ Refusal
    BY <2>1, <1>t, PrepareTypes
  <2> QED
    BY <1>7, <1>q, <2>1 DEF TargetFault, Refusal, repositoryVars
<1>8. CASE PreparationFails \/ Prepared \/ Accept \/ TargetFails
  BY <1>8, <1>p DEF PreparationFails, Prepared, Accept, TargetFails
<1>9. CASE Authorize \/ publishHandoffLaunchInstructions \/ Launch
  BY <1>9, <1>q DEF Authorize, publishHandoffLaunchInstructions, Launch, repositoryVars
<1>10. CASE AgentStep
  BY <1>10, <1>t DEF AgentStep, AgentWorks, branches, history, TargetTypes
<1>11. CASE OthersAct
  <2>1. CASE UserSwitches
    BY <2>1, <1>t DEF UserSwitches, TargetTypes
  <2>2. CASE UserRemoves
    BY <2>2, <1>t, NoneYet DEF UserRemoves, branches, TargetTypes
  <2>3. CASE OthersPush(Repo.branch) /\ foreign' = foreign \cup {"branch"}
    BY <2>3, <1>t DEF OthersPush, TargetTypes
  <2> QED
    BY <1>11, <2>1, <2>2, <2>3 DEF OthersAct
<1>12. CASE UNCHANGED vars
  BY <1>12, <1>q DEF vars, repositoryVars
<1> QED
  BY <1>1, <1>2, <1>3, <1>4, <1>5, <1>6, <1>7, <1>8, <1>9, <1>10, <1>11, <1>12 DEF Next

-----------------------------------------------------------------------------
(* The stages of a handoff *)

Top ==
    /\ stage \in Stages /\ told \in BOOLEAN /\ agent \in BOOLEAN
    /\ refused \in BOOLEAN /\ faults \in 0 .. MaxFaults
    /\ Queued <=> stage \in AtTarget \cup {"accepted", "rejected"}
    /\ Queued => repositoryValid(Repo) /\ Repo.branch \in Branches /\ Ref \in Digests

LEMMA FaultCounted == faults \in 0 .. MaxFaults /\ (NoFault \/ Fault) => faults' \in 0 .. MaxFaults
BY AssetsAssumption DEF NoFault, Fault

LEMMA StagesHold == IInv /\ [Next]_vars => Top' /\ Staged'
<1> SUFFICES ASSUME IInv, [Next]_vars PROVE Top' /\ Staged'
  OBVIOUS
<1>t. Top /\ Staged /\ TargetTypes /\ PublicationInv /\ InspectionInv
  BY DEF IInv, AssetsTypeOK, Top, RepositoryTypeOK, TargetTypes, Heads, Cands, Preps
<1>f. faults' \in 0 .. MaxFaults
  <2>1. CASE NoFault \/ Fault
    BY <1>t, <2>1, FaultCounted DEF Top
  <2>2. CASE UNCHANGED vars
    BY <1>t, <2>2 DEF vars, Top
  <2> QED
    BY <2>1, <2>2 DEF Next, Inspect, Used, Inspected, Publish, PublishFault, SourceFails, PrepareAgain,
        Queue, Attempt, Snapshot, Arrives, SnapshotEnds, Prepare, TargetFault, PreparationFails,
        Prepared, Authorize, publishHandoffLaunchInstructions, Launch, Accept, AgentStep,
        TargetFails, OthersAct
<1>r. refused' \in BOOLEAN
  BY <1>t, RefusedGrows DEF Top
<1>m. ASSUME manifest' = manifest, stage' \in Stages, told' \in BOOLEAN, agent' \in BOOLEAN,
             stage \in AtTarget \cup {"accepted", "rejected"} <=>
                stage' \in AtTarget \cup {"accepted", "rejected"}
      PROVE  Top'
  BY <1>f, <1>m, <1>r, <1>t DEF Top, Queued, Repo, Ref
<1>q. ASSUME UNCHANGED <<stage, manifest, told, agent, pub, insp, snap, prep>>, work' => work
      PROVE  Top' /\ Staged'
  BY <1>q, <1>t, <1>m DEF Staged, Top
<1>1. CASE Inspect
  <2>1. /\ stage = "inspect"
        /\ UNCHANGED <<stage, manifest, told, agent, pub, snap, prep, work>>
    BY <1>1 DEF Inspect, InspectStep, sourceCheckoutForSession, InspectBranch, InspectStatus,
      InspectHead, InspectTree, InspectAdvertised, InspectFetched, InspectAgainBranch,
      InspectAgainStatus, InspectAgainHead, InspectAgainTree, Passes, Continue, Becomes, Refused,
      targetRepo, historyVars, handoff
  <2> QED
    BY <2>1, <1>t, <1>m DEF Staged, Top
<1>2. CASE Used
  BY <1>2, <1>q DEF Used, SourceUse, Edit, Commit, Checkout, Push, targetRepo, historyVars, handoff
<1>3. CASE Inspected
  <2>1. /\ stage = "inspect" /\ stage' = "publish" /\ insp.step = "done"
        /\ UNCHANGED <<manifest, told, agent, pub, insp, snap, prep, work>>
    BY <1>3 DEF Inspected, At, targetRepo, historyVars
  <2> QED
    BY <2>1, <1>t, <1>m DEF Staged, Top, Stages, AtTarget
<1>4. CASE Publish \/ PublishFault
  <2>1. /\ stage = "publish"
        /\ UNCHANGED <<stage, manifest, told, agent, insp, snap, prep, work>>
    BY <1>4 DEF Publish, PublishStep, OpenSource, hashSourceHistory, Address, Copy, SyncTemp,
        renameSourceHistoryNoReplace, RenameExists, FsyncRoot, verifyPublishedSourceHistory,
        AgentWrites, OtherPublishes, OtherSyncs, PublishFault, PublishFails, handoff, targetHistory,
        repositoryVars, sourceRepo, targetRepo
  <2> QED
    BY <2>1, <1>t, <1>m DEF Staged, Top
<1>5. CASE SourceFails
  <2>1. /\ UNCHANGED <<stage, manifest, told, agent, insp, snap, prep, work>>
        /\ pub' = IF stage = "publish" THEN Failed ELSE pub
    BY <1>5 DEF SourceFails, SourcePowerLoss, handoff, targetHistory, repositoryVars, sourceRepo, targetRepo
  <2> QED
    BY <2>1, <1>t, <1>m DEF Staged, Top
<1>6. CASE PrepareAgain
  <2>1. /\ stage' = "inspect" /\ insp' = NoInsp /\ pub' = NoPub
        /\ UNCHANGED <<manifest, told, agent, snap, prep, work>>
        /\ insp.step = "refused" \/ pub.step = "error"
    BY <1>6 DEF PrepareAgain, At, targetHistory, targetRepo
  <2>2. stage \in {"inspect", "publish"}
    BY <1>t, <2>1 DEF Staged, NoInsp, NoPub
  <2> QED
    BY <2>1, <2>2, <1>t, <1>m DEF Staged, Top, Stages, AtTarget
<1>7. CASE Queue
  <2>1. /\ stage = "publish" /\ stage' = "validating" /\ insp' = NoInsp /\ pub' = NoPub
        /\ manifest' = Manifest(insp, pub.digest) /\ pub.step = "done"
        /\ UNCHANGED <<told, agent, snap, prep, work>>
    BY <1>7 DEF Queue, targetHistory
  <2>2. pub.digest \in Versions /\ insp.branch \in Branches
    BY <1>t, <2>1 DEF PublicationInv, PubProgress, Addressed, Staged, InspectionInv, Claimed, Reading,
        InspSteps
  <2>3. Ref' = pub.digest /\ Repo'.branch = insp.branch /\ repositoryValid(Repo')
    BY <2>1 DEF Ref, Repo, Manifest, repositoryValid
  <2>4. Ref' # NoManifest.history
    BY <2>2, <2>3 DEF NoManifest, Manifest, Versions, Mixed
  <2>5. Queued'
    BY <2>4 DEF Queued, Ref, NoManifest, Manifest, Mixed, NoInsp
  <2>6. Top'
    BY <1>f, <1>r, <1>t, <2>1, <2>2, <2>3, <2>5 DEF Top, Stages, AtTarget, Digests
  <2> QED
    BY <2>1, <2>6, <1>t DEF Staged
<1>8. CASE Attempt
  <2>1. /\ stage \in {"validating", "launching"} /\ snap' = [NoSnap EXCEPT !.step = "start"]
        /\ prep = NoPrep
        /\ UNCHANGED <<stage, manifest, told, agent, pub, insp, prep, work>>
    BY <1>8 DEF Attempt, Idle, sourceHistory, repositoryVars, sourceRepo, targetRepo, handoff
  <2>2. snap'.step = "start" /\ ~told
    BY <2>1, <1>t, NoneYet DEF NoSnap, Staged
  <2> QED
    BY <2>1, <2>2, <1>t, <1>m DEF Staged, Top
<1>9. CASE Snapshot
  <2>1. /\ snap.step \in SnapSteps /\ snap'.step # "idle"
        /\ UNCHANGED <<stage, manifest, told, agent, pub, insp, prep, work>>
    <3>1. snap.step \in SnapSteps /\ snap'.step # "idle"
      BY <1>9 DEF Snapshot, SnapStep, SnapStart, openHistorySource, SnapPublish, syncDirectory, SnapVerify,
          SetSnap, verifyHistorySnapshot, SnapSteps, IInv, AssetsTypeOK, HistoryTypeOK
    <3> QED
      BY <1>9, <3>1 DEF Snapshot, SnapStep, SnapStart, openHistorySource, SnapPublish, syncDirectory, SnapVerify,
        sourceHistory, repositoryVars, sourceRepo, targetRepo, handoff
  <2>2. snap # NoSnap
    BY <2>1 DEF NoSnap, SnapSteps
  <2> QED
    BY <2>1, <2>2, <1>t, <1>m DEF Staged, Top
<1>10. CASE Arrives
  BY <1>10, <1>q DEF Arrives, SyncArrives, sourceHistory, repositoryVars, sourceRepo, targetRepo, handoff
<1>11. CASE SnapshotEnds
  <2>1. /\ snap.step \in {"ok", "retryable", "invalid"} /\ snap' = NoSnap
        /\ prep' = IF snap.step = "ok" THEN [NoPrep EXCEPT !.step = "choose"] ELSE NoPrep
        /\ stage' = IF snap.step = "invalid" THEN "rejected" ELSE stage
        /\ UNCHANGED <<manifest, told, agent, pub, insp, work>>
    BY <1>11 DEF SnapshotEnds, sourceHistory, sourceRepo
  <2>2. /\ snap # NoSnap /\ prep = NoPrep /\ stage \in {"validating", "launching"} /\ ~told
        /\ NoSnap.step = "idle"
    BY <2>1, <1>t, NoneYet DEF NoSnap, Staged
  <2>3. prep'.step = "idle" => prep' = NoPrep
    BY <2>1, NoneYet DEF Preps
  <2>4. stage' \in {"validating", "launching", "rejected"} /\ (prep' # NoPrep => stage' = stage)
    BY <2>1, <2>2
  <2>5. Top'
    BY <2>1, <2>2, <2>4, <1>t, <1>m DEF Top, Stages, AtTarget
  <2> QED
    BY <2>1, <2>2, <2>3, <2>4, <2>5, <1>t DEF Staged
<1>12. CASE Prepare
  <2>1. UNCHANGED <<stage, manifest, told, agent, pub, insp, snap>>
    BY <1>12 DEF Prepare, historyVars, PrepareStep, verifyOwnedRemovalTree, chooseLocalBranch, Candidate, Replay,
      recoverOwnedRegisteredCandidate, Fetch, LocalBranch, writePreparationMarker, Add,
      configureWorktreePush, Validate, clearPreparationMarker, sourceRepo
  <2>2. prep.step \in PrepSteps /\ prep'.step # "idle" /\ (work' => work)
    BY <1>12, <1>t, PrepareTypes DEF Prepare, Refusal
  <2>3. prep # NoPrep
    BY <2>2, NoneYet DEF PrepSteps
  <2> QED
    BY <2>1, <2>2, <2>3, <1>t, <1>m DEF Staged, Top, PrepSteps
<1>13. CASE TargetFault
  <2>0. UNCHANGED <<stage, manifest, told, agent, pub, insp>>
    BY <1>13 DEF TargetFault, historyVars, SnapFails, RootUnavailable, sourceHistory, PrepFault, PrepFails,
        RecoverKilled, BranchKilled, AddKilled, PrepRefused, CheckFails, CandidateUnseen,
        repositoryVars, sourceRepo
  <2>1. CASE (SnapFails \/ RootUnavailable) /\ UNCHANGED repositoryVars
    <3>1. snap.step \in SnapSteps /\ snap'.step # "idle" /\ UNCHANGED <<prep, work>>
      BY <2>1 DEF SnapFails, RootUnavailable, SetSnap, SnapSteps, repositoryVars, targetRepo, IInv, AssetsTypeOK, HistoryTypeOK
    <3>2. snap # NoSnap
      BY <3>1 DEF NoSnap, SnapSteps
    <3> QED
      BY <2>0, <3>1, <3>2, <1>t, <1>m DEF Staged, Top
  <2>2. CASE (PrepFault \/ Refusal) /\ UNCHANGED historyVars
    <3>1. prep.step \in PrepSteps /\ prep'.step # "idle" /\ (work' => work) /\ snap' = snap
      BY <2>2, <1>t, PrepareTypes DEF historyVars
    <3>2. prep # NoPrep
      BY <3>1, NoneYet DEF PrepSteps
    <3> QED
      BY <2>0, <3>1, <3>2, <1>t, <1>m DEF Staged, Top, PrepSteps
  <2> QED
    BY <1>13, <2>1, <2>2 DEF TargetFault, Refusal
<1>14. CASE PreparationFails
  <2>1. /\ prep.step \in {"retryable", "deterministic"} /\ prep' = NoPrep
        /\ stage' = IF prep.step = "deterministic" THEN "rejected" ELSE stage
        /\ UNCHANGED <<manifest, told, agent, pub, insp, snap, work>>
    BY <1>14 DEF PreparationFails, historyVars, prepared, sourceRepo
  <2>2. prep # NoPrep /\ snap = NoSnap /\ stage \in {"validating", "launching"} /\ ~told
    BY <2>1, <1>t, NoneYet DEF Staged
  <2> QED
    BY <2>1, <2>2, <1>t, <1>m, NoneYet DEF Staged, Top, Stages, AtTarget
<1>15. CASE Prepared
  <2>1. /\ stage = "validating" /\ prep.step = "ok" /\ stage' = "prepared" /\ prep' = NoPrep
        /\ UNCHANGED <<manifest, told, agent, pub, insp, snap, work>>
    BY <1>15 DEF Prepared, historyVars, prepared, sourceRepo
  <2>2. prep # NoPrep /\ snap = NoSnap /\ ~told /\ ~agent
    BY <2>1, <1>t, NoneYet DEF Staged
  <2> QED
    BY <2>1, <2>2, <1>t, <1>m, NoneYet DEF Staged, Top, Stages, AtTarget
<1>16. CASE Authorize
  <2>1. /\ stage = "prepared" /\ stage' = "launching"
        /\ UNCHANGED <<manifest, told, agent, pub, insp, snap, prep, work>>
    BY <1>16 DEF Authorize, historyVars, repositoryVars, sourceRepo, targetRepo
  <2> QED
    BY <2>1, <1>t, <1>m DEF Staged, Top, Stages, AtTarget
<1>17. CASE publishHandoffLaunchInstructions
  <2>1. /\ stage = "launching" /\ prep.step = "ok" /\ told' = TRUE
        /\ UNCHANGED <<stage, manifest, agent, pub, insp, snap, prep, work>>
    BY <1>17 DEF publishHandoffLaunchInstructions, historyVars, repositoryVars, sourceRepo, targetRepo
  <2> QED
    BY <2>1, <1>t, <1>m DEF Staged, Top
<1>18. CASE Launch
  <2>1. /\ stage = "launching" /\ agent' = TRUE
        /\ UNCHANGED <<stage, manifest, told, pub, insp, snap, prep, work>>
    BY <1>18 DEF Launch, historyVars, repositoryVars, sourceRepo, targetRepo
  <2> QED
    BY <2>1, <1>t, <1>m DEF Staged, Top
<1>19. CASE Accept
  <2>1. /\ stage = "launching" /\ stage' = "accepted" /\ prep' = NoPrep /\ told' = FALSE /\ told
        /\ UNCHANGED <<manifest, agent, pub, insp, snap, work>>
    BY <1>19 DEF Accept, historyVars, prepared, sourceRepo
  <2>2. snap = NoSnap
    BY <2>1, <1>t, NoneYet DEF Staged
  <2> QED
    BY <2>1, <2>2, <1>t, <1>m, NoneYet DEF Staged, Top, Stages, AtTarget
<1>20. CASE AgentStep
  <2>1. agent /\ UNCHANGED <<stage, manifest, told, agent, pub, insp, snap, prep>>
    BY <1>20 DEF AgentStep, AgentWorks, historyVars, sourceRepo, handoff
  <2> QED
    BY <2>1, <1>t, <1>m DEF Staged, Top
<1>21. CASE TargetFails
  <2>1. /\ stage \in AtTarget /\ snap' = NoSnap /\ prep' = NoPrep /\ told' = FALSE
        /\ UNCHANGED <<stage, manifest, agent, pub, insp, work>>
    BY <1>21 DEF TargetFails, sourceHistory, prepared, sourceRepo
  <2> QED
    BY <2>1, <1>t, <1>m, NoneYet DEF Staged, Top
<1>22. CASE OthersAct
  <2>1. UNCHANGED <<insp, prep, work>>
    BY <1>22 DEF OthersAct, UserSwitches, UserRemoves, OthersPush, sourceRepo
  <2> QED
    BY <1>22, <1>q, <2>1 DEF OthersAct, handoff, historyVars
<1>23. CASE UNCHANGED vars
  BY <1>23, <1>q DEF vars, historyVars, repositoryVars, sourceRepo, targetRepo
<1> QED
  BY <1>1, <1>2, <1>3, <1>4, <1>5, <1>6, <1>7, <1>8, <1>9, <1>10, <1>11, <1>12, <1>13, <1>14, <1>15,
     <1>16, <1>17, <1>18, <1>19, <1>20, <1>21, <1>22, <1>23 DEF Next

-----------------------------------------------------------------------------
(* The snapshot *)

Snaps == [step : {"idle", "start", "open", "copied", "renamed", "verify",
                  "ok", "retryable", "invalid"}, temp : Contents]

SnapTypes ==
    /\ synced \in [Digests -> {"none", "partial", "full"}]
    /\ snapshot \in Files
    /\ snap \in Snaps

(***************************************************************************)
(* The steps of SnapshotHistory for the history the manifest names.        *)
(***************************************************************************)
LEMMA SnapStepHolds ==
    ASSUME SnapTypes, SnapshotInv, Queued, Ref \in Digests, UNCHANGED <<manifest, prep>>,
           refused => refused',
           SnapStep(Ref) \/ SnapFails \/ (RootUnavailable /\ refused')
    PROVE  SnapTypes' /\ SnapshotInv'
<1>0. Ref' = Ref /\ Queued' /\ Ref \in Contents /\ Torn \in Contents /\ synced' = synced
  BY DEF Ref, Queued, Digests, Contents, SnapStep, SnapStart, openHistorySource, SnapPublish,
      syncDirectory, SnapVerify, SnapFails, RootUnavailable
<1>g. ASSUME NEW s \in {"open", "ok", "renamed", "verify", "retryable", "invalid"}, SetSnap(s)
      PROVE  snap' \in Snaps /\ snap'.step = s
  BY <1>g DEF SetSnap, Snaps, SnapTypes
<1>1. CASE SnapStart(Ref)
  <2>1. snapshot' = snapshot /\ (SetSnap("open") \/ (SetSnap("ok") /\ Exists(snapshot)))
    BY <1>1 DEF SnapStart, verifyHistorySnapshot, SnapshotInv
  <2> QED
    BY <1>0, <1>g, <2>1 DEF SnapTypes, SnapshotInv
<1>2. CASE openHistorySource(Ref)
  <2>1. snapshot' = snapshot /\ (SetSnap("retryable") \/ \E c \in Contents : snap' = [step |-> "copied", temp |-> c])
    BY <1>0, <1>2 DEF openHistorySource
  <2>2. snap' \in Snaps /\ snap'.step \in {"retryable", "copied"}
    BY <1>g, <2>1 DEF Snaps
  <2> QED
    BY <1>0, <2>1, <2>2 DEF SnapTypes, SnapshotInv
<1>3. CASE SnapPublish(Ref)
  <2>1. CASE SetSnap("retryable") /\ UNCHANGED snapshot
    BY <1>0, <1>g, <2>1 DEF SnapTypes, SnapshotInv
  <2>2. CASE SetSnap("renamed") /\ snapshot' = [content |-> Ref, data |-> TRUE, name |-> FALSE]
    <3>1. snapshot' \in Files /\ snapshot'.data /\ snapshot'.content = Ref /\ Exists(snapshot')
      BY <1>0, <2>2, NoFileIsFile DEF Files, Exists
    <3> QED
      BY <1>0, <1>g, <2>2, <3>1 DEF SnapTypes, SnapshotInv
  <2> QED
    BY <1>3, <2>1, <2>2 DEF SnapPublish
<1>4. CASE syncDirectory
  <2>1. SetSnap("verify") /\ snapshot' = [snapshot EXCEPT !.name = TRUE] /\ Exists(snapshot)
    BY <1>4 DEF syncDirectory, SnapshotInv
  <2>2. /\ snapshot' \in Files /\ snapshot'.data = snapshot.data /\ snapshot'.content = snapshot.content
        /\ snapshot.data
    BY <2>1 DEF SnapTypes, SnapshotInv, Files
  <2>3. Exists(snapshot')
    BY <2>2, NoFileIsFile DEF Exists
  <2> QED
    BY <1>0, <1>g, <2>1, <2>2, <2>3 DEF SnapTypes, SnapshotInv
<1>5. CASE SnapVerify(Ref)
  <2>1. snapshot' = snapshot /\ SetSnap("ok") /\ Exists(snapshot)
    BY <1>5 DEF SnapVerify, verifyHistorySnapshot, SnapshotInv
  <2> QED
    BY <1>0, <1>g, <2>1 DEF SnapTypes, SnapshotInv
<1>6. CASE SnapFails
  <2>1. snapshot' = snapshot /\ SetSnap("retryable")
    BY <1>6 DEF SnapFails
  <2> QED
    BY <1>0, <1>g, <2>1 DEF SnapTypes, SnapshotInv
<1>7. CASE RootUnavailable /\ refused'
  <2>1. snapshot' = snapshot /\ SetSnap("invalid")
    BY <1>7 DEF RootUnavailable
  <2> QED
    BY <1>0, <1>7, <1>g, <2>1 DEF SnapTypes, SnapshotInv
<1> QED
  BY <1>1, <1>2, <1>3, <1>4, <1>5, <1>6, <1>7 DEF SnapStep

(***************************************************************************)
(* Every step keeps the snapshot the history that was declared.            *)
(***************************************************************************)
LEMMA SnapshotHolds == IInv /\ [Next]_vars => SnapTypes' /\ SnapshotInv'
<1> SUFFICES ASSUME IInv, [Next]_vars PROVE SnapTypes' /\ SnapshotInv'
  OBVIOUS
<1>t. SnapTypes /\ SnapshotInv /\ Staged /\ TargetTypes /\ Top
  BY DEF IInv, AssetsTypeOK, HistoryTypeOK, SnapTypes, Snaps, RepositoryTypeOK, TargetTypes, Heads, Cands,
      Preps, Top
<1>n. NoSnap \in Snaps /\ NoSnap.step = "idle"
  BY DEF NoSnap, Snaps, Contents
<1>r. refused => refused'
  BY RefusedGrows
<1>q. ASSUME UNCHANGED <<synced, snapshot, snap, manifest>>, prep' # NoPrep => prep # NoPrep
      PROVE  SnapTypes' /\ SnapshotInv'
  BY <1>q, <1>r, <1>t DEF SnapTypes, SnapshotInv, Queued, Ref
<1>1. CASE Inspect
  BY <1>1, <1>q DEF Inspect, InspectStep, sourceCheckoutForSession, InspectBranch, InspectStatus,
      InspectHead, InspectTree, InspectAdvertised, InspectFetched, InspectAgainBranch,
      InspectAgainStatus, InspectAgainHead, InspectAgainTree, Passes, Continue, Becomes, Refused,
      targetRepo, historyVars, handoff
<1>2. CASE Used
  BY <1>2, <1>q DEF Used, SourceUse, Edit, Commit, Checkout, Push, targetRepo, historyVars, handoff
<1>3. CASE Inspected \/ PrepareAgain
  BY <1>3, <1>q DEF Inspected, PrepareAgain, historyVars, targetHistory, targetRepo
<1>4. CASE Publish
  BY <1>4, <1>q DEF Publish, PublishStep, OpenSource, hashSourceHistory, Address, Copy, SyncTemp,
        renameSourceHistoryNoReplace, RenameExists, FsyncRoot, verifyPublishedSourceHistory,
        AgentWrites, OtherPublishes, OtherSyncs, handoff, targetHistory, repositoryVars, targetRepo
<1>5. CASE PublishFault \/ SourceFails
  BY <1>5, <1>q DEF PublishFault, PublishFails, SourceFails, SourcePowerLoss, handoff, targetHistory, repositoryVars,
      targetRepo
<1>6. CASE Queue
  <2>1. UNCHANGED <<synced, snapshot, snap, prep>> /\ stage = "publish"
    BY <1>6 DEF Queue, targetHistory
  <2>2. ~Exists(snapshot) /\ prep = NoPrep
    BY <1>t, <2>1 DEF SnapshotInv, Top, AtTarget, Staged
  <2> QED
    BY <1>r, <1>t, <2>1, <2>2 DEF SnapTypes, SnapshotInv
<1>7. CASE Attempt
  <2>1. UNCHANGED <<synced, snapshot, prep, manifest>> /\ snap' = [NoSnap EXCEPT !.step = "start"]
    BY <1>7 DEF Attempt, repositoryVars, targetRepo, handoff
  <2>2. snap' \in Snaps /\ snap'.step = "start"
    BY <1>n, <2>1 DEF Snaps
  <2> QED
    BY <1>r, <1>t, <2>1, <2>2 DEF SnapTypes, SnapshotInv, Queued, Ref
<1>8. CASE Snapshot
  <2>1. UNCHANGED <<manifest, prep>> /\ Queued /\ Ref \in Digests /\ SnapStep(Ref)
    BY <1>8, <1>t DEF Snapshot, handoff, repositoryVars, targetRepo, Top
  <2> QED
    BY <1>r, <1>t, <2>1, SnapStepHolds
<1>9. CASE Arrives
  <2>1. /\ UNCHANGED <<snapshot, snap, prep, manifest>>
        /\ \E v \in {"partial", "full"} : synced' = [synced EXCEPT ![Ref] = v]
    BY <1>9 DEF Arrives, SyncArrives, handoff, repositoryVars, targetRepo
  <2>2. synced' \in [Digests -> {"none", "partial", "full"}]
    BY <1>t, <2>1 DEF SnapTypes
  <2> QED
    BY <1>r, <1>t, <2>1, <2>2 DEF SnapTypes, SnapshotInv, Queued, Ref
<1>10. CASE SnapshotEnds
  <2>1. /\ UNCHANGED <<synced, snapshot, manifest>> /\ snap' = NoSnap
        /\ snap.step # "ok" => prep' = NoPrep
    BY <1>10 DEF SnapshotEnds
  <2> QED
    BY <1>n, <1>t, <2>1 DEF SnapTypes, SnapshotInv, Queued, Ref
<1>11. CASE Prepare
  <2>1. prep # NoPrep
    BY <1>11, <1>t, PrepareTypes, NoneYet DEF Prepare, Refusal, PrepSteps
  <2> QED
    BY <1>11, <1>q, <2>1 DEF Prepare, historyVars
<1>12. CASE TargetFault
  <2>1. CASE (SnapFails \/ (RootUnavailable /\ refused')) /\ UNCHANGED repositoryVars
    <3>1. UNCHANGED <<manifest, prep>> /\ snap # NoSnap
      BY <1>12, <2>1, <1>n DEF TargetFault, repositoryVars, targetRepo, SnapFails, RootUnavailable, SnapSteps
    <3>2. Queued /\ Ref \in Digests
      BY <1>t, <3>1 DEF Staged, Top, AtTarget
    <3> QED
      BY <1>r, <1>t, <2>1, <3>1, <3>2, SnapStepHolds
  <2>2. CASE (PrepFault \/ Refusal) /\ UNCHANGED historyVars
    <3>1. prep # NoPrep
      BY <2>2, <1>t, PrepareTypes, NoneYet DEF PrepSteps
    <3> QED
      BY <1>12, <1>q, <2>2, <3>1 DEF TargetFault, historyVars
  <2> QED
    BY <1>12, <2>1, <2>2 DEF TargetFault, Refusal
<1>13. CASE PreparationFails \/ Prepared \/ Accept
  BY <1>13, <1>q DEF PreparationFails, Prepared, Accept, historyVars
<1>14. CASE Authorize \/ publishHandoffLaunchInstructions \/ Launch
  BY <1>14, <1>q DEF Authorize, publishHandoffLaunchInstructions, Launch, historyVars, repositoryVars, targetRepo
<1>15. CASE AgentStep
  BY <1>15, <1>q DEF AgentStep, AgentWorks, historyVars, handoff
<1>16. CASE TargetFails
  <2>1. UNCHANGED <<synced, manifest>> /\ snap' = NoSnap /\ prep' = NoPrep
    BY <1>16 DEF TargetFails
  <2>2. PICK losesName \in BOOLEAN, tears \in BOOLEAN : snapshot' = AfterPowerLoss(snapshot, losesName, tears)
    BY <1>16 DEF TargetFails
  <2>3. snapshot = NoFile \/ snapshot.data
    BY <1>t DEF SnapshotInv, Exists
  <2>4. snapshot' \in Files /\ snapshot' \in {snapshot, NoFile}
    BY <1>t, <2>2, <2>3, PowerLoss DEF SnapTypes
  <2> QED
    BY <1>n, <1>t, <2>1, <2>4 DEF SnapTypes, SnapshotInv, Queued, Ref, Exists
<1>17. CASE OthersAct
  BY <1>17, <1>q DEF OthersAct, UserSwitches, UserRemoves, OthersPush, historyVars, handoff
<1>18. CASE UNCHANGED vars
  BY <1>18, <1>q DEF vars, historyVars, repositoryVars, targetRepo
<1> QED
  BY <1>1, <1>2, <1>3, <1>4, <1>5, <1>6, <1>7, <1>8, <1>9, <1>10, <1>11, <1>12, <1>13, <1>14, <1>15,
     <1>16, <1>17, <1>18 DEF Next

-----------------------------------------------------------------------------
(* The preparation *)

(***************************************************************************)
(* What is found at the candidate's path decides what follows.             *)
(***************************************************************************)
LEMMA CandidateFound ==
    ASSUME TargetTypes, Candidate
    PROVE  /\ UNCHANGED <<main, heads, work, marker, foreign, cut, unclear, lost>>
           /\ prep.step = "candidate" /\ prep'.branch = prep.branch
           /\ \/ prep'.step = "fetch" /\ cand' = cand /\ cand.dir \in {"none", "missing"}
              \/ prep'.step = "fetch" /\ cand' = NoCand /\ cand.dir = "dir"
              \/ /\ prep'.step = "deterministic" /\ cand' = cand
                 /\ cand.dir = "dir" /\ marker # prep.branch
              \/ /\ prep'.step = "deterministic" /\ cand' = cand
                 /\ isRegistered /\ (marker \notin {"none", prep.branch} \/ cand.dir = "unlinked")
              \/ /\ prep'.step = "replay" /\ isRegistered /\ marker \in {"none", prep.branch}
                 /\ prep'.owned = (marker = prep.branch)
                 /\ cand'.dir = cand.dir /\ cand'.branch = cand.branch /\ (cand.push => cand'.push)
<1>0. prep \in Preps /\ cand \in Cands
  BY DEF TargetTypes
<1>1. /\ UNCHANGED <<main, heads, work, marker, foreign, cut, unclear, lost>>
      /\ prep.step = "candidate"
  BY DEF Candidate, Step, branches, history
<1>2. CASE cand.dir \in {"none", "missing"} /\ Goes("fetch") /\ UNCHANGED cand
  BY <1>0, <1>1, <1>2 DEF Goes, Preps
<1>3. CASE cand.dir = "dir" /\ recoverOwnedPartialCandidate
  BY <1>0, <1>1, <1>3 DEF recoverOwnedPartialCandidate, Deterministic, Owned, Goes, Preps
<1>4. CASE /\ isRegistered /\ cand.dir # "missing"
           /\ Conflict \/ cand.dir = "unlinked"
           /\ Deterministic /\ UNCHANGED cand
  BY <1>0, <1>1, <1>4 DEF Deterministic, Conflict, Goes, Preps
<1>5. CASE /\ isRegistered /\ ~Conflict
           /\ prep' = [prep EXCEPT !.step = "replay", !.owned = Owned]
           /\ cand' = [cand EXCEPT !.push = cand.push \/ Owned]
  BY <1>0, <1>1, <1>5 DEF Conflict, Owned, Preps, Cands
<1> QED
  BY <1>2, <1>3, <1>4, <1>5 DEF Candidate

(***************************************************************************)
(* What a killed git leaves carries the name of the branch, or is nothing. *)
(***************************************************************************)
LEMMA LeftByAddIs ==
    ASSUME TargetTypes, AddKilled
    PROVE  /\ UNCHANGED <<main, heads, work, marker, foreign, unclear, lost>>
           /\ prep.step = "add" /\ prep'.step = "retryable" /\ (cut => cut')
           /\ cand'.dir = "unlinked" => cut'
           /\ \/ cand' = NoCand
              \/ /\ cand'.dir \in {"dir", "unlinked", "locked", "partial", "complete"}
                 /\ cand'.branch = prep.branch
<1>1. /\ UNCHANGED <<main, heads, work, marker, foreign, unclear, lost>>
      /\ prep.step = "add" /\ (cut => cut') /\ (cand'.dir = "unlinked" => cut')
  BY DEF AddKilled, Step, branches
<1>2. prep'.step = "retryable"
  BY DEF AddKilled, Retryable, Goes, TargetTypes, Preps
<1>3. \/ cand' = NoCand
      \/ \E d \in {"dir", "unlinked", "locked", "partial", "complete"} : cand' = Added(d)
  BY DEF AddKilled, LeftByAdd
<1> QED
  BY <1>1, <1>2, <1>3 DEF Added

(***************************************************************************)
(* What the proofs about a step of the preparation take from the stages:   *)
(* it belongs to a handoff that is not rejected, and there is no work but  *)
(* of a continuation.                                                      *)
(***************************************************************************)
Preparing ==
    /\ TargetTypes /\ TargetTypes' /\ PreparationInv /\ Queued /\ (work => agent)
    /\ stage # "rejected" /\ UNCHANGED <<stage, manifest, agent, origin>>
    /\ refused => refused'

LEMMA PrepareWorktree ==
    ASSUME Preparing, PrepareStep(Repo) \/ PrepFault \/ (Refusal /\ refused')
    PROVE  WorktreeInv'
<1> USE DEF Preparing, PreparationInv, TargetTypes, Heads, Cands, Preps, Locals, Registered, PrepSteps,
      Step, history, branches, isRegistered
<1>1. CASE chooseLocalBranch
  BY <1>1 DEF chooseLocalBranch, NoPrep, WorktreeInv, Adding, Finished
<1>2. CASE Candidate
  BY <1>2, CandidateFound DEF NoCand, WorktreeInv, Adding, Finished
<1>3. CASE Replay
  BY <1>3 DEF Replay, validReplay, Deterministic, Goes, WorktreeInv, Adding, Finished
<1>4. CASE recoverOwnedRegisteredCandidate
  BY <1>4 DEF recoverOwnedRegisteredCandidate, Retryable, Goes, NoCand, WorktreeInv, Adding, Finished
<1>5. CASE Fetch(Repo)
  BY <1>5 DEF Fetch, claimsHold, Deterministic, Goes, WorktreeInv, Adding, Finished
<1>6. CASE LocalBranch
  BY <1>6 DEF LocalBranch, checkedOut, Deterministic, Goes, WorktreeInv, Adding, Finished
<1>7. CASE writePreparationMarker
  BY <1>7 DEF writePreparationMarker, Conflict, Deterministic, Goes, WorktreeInv, Adding, Finished
<1>8. CASE Add
  BY <1>8 DEF Add, Added, Goes, WorktreeInv, Adding, Finished
<1>9. CASE configureWorktreePush
  BY <1>9 DEF configureWorktreePush, Goes, WorktreeInv, Adding, Finished
<1>10. CASE Validate
  BY <1>10 DEF Validate, validReplay, Deterministic, Goes, WorktreeInv, Adding, Finished
<1>11. CASE clearPreparationMarker
  BY <1>11 DEF clearPreparationMarker, Goes, WorktreeInv, Adding, Finished
<1>12. CASE PrepFails
  BY <1>12 DEF PrepFails, Retryable, Goes, WorktreeInv, Adding, Finished
<1>13. CASE RecoverKilled
  BY <1>13 DEF RecoverKilled, Retryable, Goes, WorktreeInv, Adding, Finished
<1>14. CASE BranchKilled
  BY <1>14 DEF BranchKilled, checkedOut, Retryable, Goes, WorktreeInv, Adding, Finished
<1>15. CASE AddKilled
  BY <1>15, LeftByAddIs DEF NoCand, WorktreeInv, Adding, Finished
<1>16. CASE Refusal /\ refused'
  BY <1>16, RefusalIs DEF WorktreeInv, Adding, Finished
<1> QED
  BY <1>1, <1>2, <1>3, <1>4, <1>5, <1>6, <1>7, <1>8, <1>9, <1>10, <1>11, <1>12, <1>13, <1>14, <1>15,
     <1>16 DEF PrepareStep, PrepFault

LEMMA PrepareUndisturbed ==
    ASSUME Preparing, PrepareStep(Repo) \/ PrepFault \/ (Refusal /\ refused')
    PROVE  foreign' = {} => Undisturbed'
<1> USE DEF Preparing, PreparationInv, TargetTypes, Heads, Cands, Preps, Locals, Registered, PrepSteps,
      Step, history, branches, isRegistered
<1>1. CASE chooseLocalBranch
  BY <1>1 DEF chooseLocalBranch, NoPrep, WorktreeInv, Undisturbed, Exact, Choice, Excuse, Queued, Repo, Adding, Finished
<1>2. CASE Candidate
  BY <1>2, CandidateFound DEF NoCand, WorktreeInv, Undisturbed, Exact, Choice, Excuse, Queued, Repo, Adding, Finished
<1>3. CASE Replay
  BY <1>3 DEF Replay, validReplay, Deterministic, Goes, WorktreeInv, Undisturbed, Exact, Choice, Excuse, Queued, Repo, Adding, Finished
<1>4. CASE recoverOwnedRegisteredCandidate
  BY <1>4 DEF recoverOwnedRegisteredCandidate, Retryable, Goes, NoCand, WorktreeInv, Undisturbed, Exact, Choice, Excuse, Queued, Repo, Adding, Finished
<1>5. CASE Fetch(Repo)
  BY <1>5 DEF Fetch, claimsHold, Deterministic, Goes, WorktreeInv, Undisturbed, Exact, Choice, Excuse, Queued, Repo, Adding, Finished
<1>6. CASE LocalBranch
  BY <1>6 DEF LocalBranch, checkedOut, Deterministic, Goes, WorktreeInv, Undisturbed, Exact, Choice, Excuse, Queued, Repo, Adding, Finished
<1>7. CASE writePreparationMarker
  BY <1>7 DEF writePreparationMarker, Conflict, Deterministic, Goes, WorktreeInv, Undisturbed, Exact, Choice, Excuse, Queued, Repo, Adding, Finished
<1>8. CASE Add
  BY <1>8 DEF Add, Added, Goes, WorktreeInv, Undisturbed, Exact, Choice, Excuse, Queued, Repo, Adding, Finished
<1>9. CASE configureWorktreePush
  BY <1>9 DEF configureWorktreePush, Goes, WorktreeInv, Undisturbed, Exact, Choice, Excuse, Queued, Repo, Adding, Finished
<1>10. CASE Validate
  BY <1>10 DEF Validate, validReplay, Deterministic, Goes, WorktreeInv, Undisturbed, Exact, Choice, Excuse, Queued, Repo, Adding, Finished
<1>11. CASE clearPreparationMarker
  BY <1>11 DEF clearPreparationMarker, Goes, WorktreeInv, Undisturbed, Exact, Choice, Excuse, Queued, Repo, Adding, Finished
<1>12. CASE PrepFails
  BY <1>12 DEF PrepFails, Retryable, Goes, WorktreeInv, Undisturbed, Exact, Choice, Excuse, Queued, Repo, Adding, Finished
<1>13. CASE RecoverKilled
  BY <1>13 DEF RecoverKilled, Retryable, Goes, WorktreeInv, Undisturbed, Exact, Choice, Excuse, Queued, Repo, Adding, Finished
<1>14. CASE BranchKilled
  BY <1>14 DEF BranchKilled, checkedOut, Retryable, Goes, WorktreeInv, Undisturbed, Exact, Choice, Excuse, Queued, Repo, Adding, Finished
<1>15. CASE AddKilled
  BY <1>15, LeftByAddIs DEF NoCand, WorktreeInv, Undisturbed, Exact, Choice, Excuse, Queued, Repo, Adding, Finished
<1>16. CASE Refusal /\ refused'
  BY <1>16, RefusalIs DEF WorktreeInv, Undisturbed, Exact, Choice, Excuse, Queued, Repo, Adding, Finished
<1> QED
  BY <1>1, <1>2, <1>3, <1>4, <1>5, <1>6, <1>7, <1>8, <1>9, <1>10, <1>11, <1>12, <1>13, <1>14, <1>15,
     <1>16 DEF PrepareStep, PrepFault

LEMMA PrepareKept ==
    ASSUME Preparing, PrepareStep(Repo) \/ PrepFault \/ (Refusal /\ refused')
    PROVE  unclear' \/ "worktree" \in foreign' \/ Kept'
<1> USE DEF Preparing, PreparationInv, TargetTypes, Heads, Cands, Preps, Locals, Registered, PrepSteps,
      Step, history, branches, isRegistered
<1>1. CASE chooseLocalBranch
  BY <1>1 DEF chooseLocalBranch, NoPrep, WorktreeInv, Kept, Adding, Finished
<1>2. CASE Candidate
  BY <1>2, CandidateFound DEF NoCand, WorktreeInv, Kept, Adding, Finished
<1>3. CASE Replay
  BY <1>3 DEF Replay, validReplay, Deterministic, Goes, WorktreeInv, Kept, Adding, Finished
<1>4. CASE recoverOwnedRegisteredCandidate
  BY <1>4 DEF recoverOwnedRegisteredCandidate, Retryable, Goes, NoCand, WorktreeInv, Kept, Adding, Finished
<1>5. CASE Fetch(Repo)
  BY <1>5 DEF Fetch, claimsHold, Deterministic, Goes, WorktreeInv, Kept, Adding, Finished
<1>6. CASE LocalBranch
  BY <1>6 DEF LocalBranch, checkedOut, Deterministic, Goes, WorktreeInv, Kept, Adding, Finished
<1>7. CASE writePreparationMarker
  BY <1>7 DEF writePreparationMarker, Conflict, Deterministic, Goes, WorktreeInv, Kept, Adding, Finished
<1>8. CASE Add
  BY <1>8 DEF Add, Added, Goes, WorktreeInv, Kept, Adding, Finished
<1>9. CASE configureWorktreePush
  BY <1>9 DEF configureWorktreePush, Goes, WorktreeInv, Kept, Adding, Finished
<1>10. CASE Validate
  BY <1>10 DEF Validate, validReplay, Deterministic, Goes, WorktreeInv, Kept, Adding, Finished
<1>11. CASE clearPreparationMarker
  BY <1>11 DEF clearPreparationMarker, Goes, WorktreeInv, Kept, Adding, Finished
<1>12. CASE PrepFails
  BY <1>12 DEF PrepFails, Retryable, Goes, WorktreeInv, Kept, Adding, Finished
<1>13. CASE RecoverKilled
  BY <1>13 DEF RecoverKilled, Retryable, Goes, WorktreeInv, Kept, Adding, Finished
<1>14. CASE BranchKilled
  BY <1>14 DEF BranchKilled, checkedOut, Retryable, Goes, WorktreeInv, Kept, Adding, Finished
<1>15. CASE AddKilled
  BY <1>15, LeftByAddIs DEF NoCand, WorktreeInv, Kept, Adding, Finished
<1>16. CASE Refusal /\ refused'
  BY <1>16, RefusalIs DEF WorktreeInv, Kept, Adding, Finished
<1> QED
  BY <1>1, <1>2, <1>3, <1>4, <1>5, <1>6, <1>7, <1>8, <1>9, <1>10, <1>11, <1>12, <1>13, <1>14, <1>15,
     <1>16 DEF PrepareStep, PrepFault

LEMMA PrepareNotLost ==
    ASSUME Preparing, PrepareStep(Repo) \/ PrepFault \/ (Refusal /\ refused')
    PROVE  WorkNeverRemoved'
<1> USE DEF Preparing, PreparationInv, TargetTypes, Heads, Cands, Preps, Locals, Registered, PrepSteps,
      Step, history, branches, isRegistered
<1>1. CASE chooseLocalBranch
  BY <1>1 DEF chooseLocalBranch, NoPrep, Kept, WorkNeverRemoved
<1>2. CASE Candidate
  BY <1>2, CandidateFound DEF NoCand, Kept, WorkNeverRemoved
<1>3. CASE Replay
  BY <1>3 DEF Replay, validReplay, Deterministic, Goes, Kept, WorkNeverRemoved
<1>4. CASE recoverOwnedRegisteredCandidate
  BY <1>4 DEF recoverOwnedRegisteredCandidate, Retryable, Goes, NoCand, Kept, WorkNeverRemoved
<1>5. CASE Fetch(Repo)
  BY <1>5 DEF Fetch, claimsHold, Deterministic, Goes, Kept, WorkNeverRemoved
<1>6. CASE LocalBranch
  BY <1>6 DEF LocalBranch, checkedOut, Deterministic, Goes, Kept, WorkNeverRemoved
<1>7. CASE writePreparationMarker
  BY <1>7 DEF writePreparationMarker, Conflict, Deterministic, Goes, Kept, WorkNeverRemoved
<1>8. CASE Add
  BY <1>8 DEF Add, Added, Goes, Kept, WorkNeverRemoved
<1>9. CASE configureWorktreePush
  BY <1>9 DEF configureWorktreePush, Goes, Kept, WorkNeverRemoved
<1>10. CASE Validate
  BY <1>10 DEF Validate, validReplay, Deterministic, Goes, Kept, WorkNeverRemoved
<1>11. CASE clearPreparationMarker
  BY <1>11 DEF clearPreparationMarker, Goes, Kept, WorkNeverRemoved
<1>12. CASE PrepFails
  BY <1>12 DEF PrepFails, Retryable, Goes, Kept, WorkNeverRemoved
<1>13. CASE RecoverKilled
  BY <1>13 DEF RecoverKilled, Retryable, Goes, Kept, WorkNeverRemoved
<1>14. CASE BranchKilled
  BY <1>14 DEF BranchKilled, checkedOut, Retryable, Goes, Kept, WorkNeverRemoved
<1>15. CASE AddKilled
  BY <1>15, LeftByAddIs DEF NoCand, Kept, WorkNeverRemoved
<1>16. CASE Refusal /\ refused'
  BY <1>16, RefusalIs DEF Kept, WorkNeverRemoved
<1> QED
  BY <1>1, <1>2, <1>3, <1>4, <1>5, <1>6, <1>7, <1>8, <1>9, <1>10, <1>11, <1>12, <1>13, <1>14, <1>15,
     <1>16 DEF PrepareStep, PrepFault

(***************************************************************************)
(* Every step keeps what the preparation relies on.                        *)
(***************************************************************************)
LEMMA PreparationHolds == IInv /\ [Next]_vars => PreparationInv'
<1> SUFFICES ASSUME IInv, [Next]_vars PROVE PreparationInv'
  OBVIOUS
<1>t. /\ PreparationInv /\ Staged /\ Top /\ TargetTypes /\ SnapshotInv
      /\ TargetTypes'
  BY TargetTypesHold DEF IInv, AssetsTypeOK, RepositoryTypeOK, TargetTypes, Heads, Cands, Preps, Top
<1>r. refused => refused'
  BY RefusedGrows
<1>q. ASSUME UNCHANGED <<targetRepo, origin, agent, manifest>>, stage' = "rejected" => stage = "rejected"
      PROVE  PreparationInv'
  <2>1. WorktreeInv' /\ WorkNeverRemoved'
    BY <1>r, <1>q, <1>t DEF targetRepo, PreparationInv, WorktreeInv, WorkNeverRemoved
  <2>2. foreign' = {} => Undisturbed'
    BY <1>r, <1>q, <1>t DEF targetRepo, PreparationInv, Undisturbed, Choice, Exact, Excuse, isRegistered, Queued, Repo
  <2>3. unclear' \/ "worktree" \in foreign' \/ Kept'
    BY <1>r, <1>q, <1>t DEF targetRepo, PreparationInv, Kept
  <2> QED
    BY <2>1, <2>2, <2>3 DEF PreparationInv
<1>p. ASSUME UNCHANGED <<prepared, agent, manifest>>,
             prep' = NoPrep \/ prep' = [NoPrep EXCEPT !.step = "choose"],
             stage' = "rejected" => stage = "rejected" \/ prep.step = "deterministic" \/ refused
      PROVE  PreparationInv'
  <2>0. /\ UNCHANGED <<main, heads, cand, work, marker, foreign, cut, unclear, lost, origin>>
        /\ prep'.step \in {"idle", "choose"}
    BY <1>p, NoneYet DEF prepared, sourceRepo, Preps
  <2>1. WorktreeInv' /\ WorkNeverRemoved'
    BY <1>r, <1>t, <2>0 DEF PreparationInv, WorktreeInv, WorkNeverRemoved, Adding, Finished
  <2>2. foreign' = {} => Undisturbed'
    BY <1>r, <1>p, <1>t, <2>0 DEF PreparationInv, Undisturbed, Choice, Exact, Excuse, isRegistered, Queued, Repo,
        Finished, PrepSteps
  <2>3. unclear' \/ "worktree" \in foreign' \/ Kept'
    BY <1>r, <1>p, <1>t, <2>0 DEF PreparationInv, Kept, Adding
  <2> QED
    BY <2>1, <2>2, <2>3 DEF PreparationInv
<1>s. ASSUME PrepareStep(Repo) \/ PrepFault \/ (Refusal /\ refused'),
             UNCHANGED <<stage, manifest, agent>>, UNCHANGED sourceRepo
      PROVE  PreparationInv'
  <2>1. prep # NoPrep
    BY <1>s, <1>t, PrepareTypes, NoneYet DEF PrepSteps
  <2>2. Preparing
    BY <1>r, <1>s, <1>t, <2>1 DEF Preparing, Staged, Top, AtTarget, sourceRepo
  <2> QED
    BY <1>s, <2>2, PrepareWorktree, PrepareUndisturbed, PrepareKept, PrepareNotLost DEF PreparationInv
<1>1. CASE Inspect \/ Used
  <2>1. UNCHANGED <<targetRepo, agent, manifest, stage>> /\ stage = "inspect"
    BY <1>1 DEF Inspect, Used, InspectStep, sourceCheckoutForSession, InspectBranch, InspectStatus,
      InspectHead, InspectTree, InspectAdvertised, InspectFetched, InspectAgainBranch,
      InspectAgainStatus, InspectAgainHead, InspectAgainTree, Passes, Continue, Becomes, Refused,
      SourceUse, Edit, Commit, Checkout, Push, handoff
  <2>2. ~Queued /\ ~Queued'
    BY <1>r, <1>t, <2>1 DEF Top, AtTarget, Queued
  <2>3. WorktreeInv' /\ WorkNeverRemoved'
    BY <1>r, <2>1, <1>t DEF targetRepo, PreparationInv, WorktreeInv, WorkNeverRemoved
  <2>4. foreign' = {} => Undisturbed'
    BY <1>r, <2>1, <2>2, <1>t DEF targetRepo, PreparationInv, Undisturbed, Choice, Exact, Excuse, isRegistered, Repo
  <2>5. unclear' \/ "worktree" \in foreign' \/ Kept'
    BY <1>r, <2>1, <1>t DEF targetRepo, PreparationInv, Kept
  <2> QED
    BY <2>3, <2>4, <2>5 DEF PreparationInv
<1>2. CASE Inspected \/ PrepareAgain
  BY <1>2, <1>q DEF Inspected, PrepareAgain
<1>3. CASE Publish \/ PublishFault \/ SourceFails
  BY <1>3, <1>q DEF Publish, PublishFault, SourceFails, repositoryVars, sourceRepo, handoff
<1>4. CASE Queue
  <2>1. /\ UNCHANGED <<main, heads, cand, work, marker, prep, cut, unclear, lost, origin, agent>>
        /\ stage' = "validating" /\ stage = "publish"
        /\ manifest' = Manifest(insp, pub.digest)
        /\ foreign' = foreign \cup (IF origin[insp.branch] # insp.head THEN {"branch"} ELSE {})
    BY <1>4 DEF Queue
  <2>2. prep.step = "idle"
    BY <1>t, <2>1, NoneYet DEF Staged
  <2>3. /\ foreign' = {} => foreign = {} /\ origin[Repo'.branch] = Repo'.head
        /\ "worktree" \in foreign => "worktree" \in foreign'
    BY <2>1 DEF Repo, Manifest
  <2>4. WorktreeInv' /\ WorkNeverRemoved'
    BY <1>r, <1>t, <2>1, <2>3 DEF PreparationInv, WorktreeInv, WorkNeverRemoved
  <2>5. foreign' = {} => Undisturbed'
    BY <1>r, <1>t, <2>1, <2>2, <2>3 DEF PreparationInv, Undisturbed, Choice, Exact, Excuse, isRegistered,
        Finished, PrepSteps
  <2>6. unclear' \/ "worktree" \in foreign' \/ Kept'
    BY <1>r, <1>t, <2>1, <2>3 DEF PreparationInv, Kept
  <2> QED
    BY <2>4, <2>5, <2>6 DEF PreparationInv
<1>5. CASE Attempt \/ Snapshot \/ Arrives
  BY <1>5, <1>q DEF Attempt, Snapshot, Arrives, repositoryVars, sourceRepo, handoff
<1>6. CASE SnapshotEnds
  <2>1. snap.step = "invalid" => refused
    BY <1>t DEF SnapshotInv
  <2> QED
    BY <1>6, <1>p, <2>1 DEF SnapshotEnds, prepared
<1>7. CASE Prepare
  <2>1. UNCHANGED sourceRepo
    BY <1>7 DEF Prepare, PrepareStep, chooseLocalBranch, Candidate, Replay, recoverOwnedRegisteredCandidate,
      Fetch, LocalBranch, writePreparationMarker, Add, configureWorktreePush, Validate,
      clearPreparationMarker, verifyOwnedRemovalTree
  <2> QED
    BY <1>7, <1>s, <2>1 DEF Prepare, Refusal
<1>8. CASE TargetFault
  <2>1. CASE PrepFault
    <3>1. UNCHANGED sourceRepo
      BY <2>1 DEF PrepFault, PrepFails, RecoverKilled, BranchKilled, AddKilled
    <3> QED
      BY <1>8, <1>s, <2>1, <3>1 DEF TargetFault
  <2>2. CASE PrepRefused /\ refused'
    <3>1. UNCHANGED sourceRepo
      BY <2>2 DEF PrepRefused, CheckFails, CandidateUnseen
    <3> QED
      BY <1>8, <1>s, <2>2, <3>1 DEF TargetFault, Refusal
  <2> QED
    BY <1>8, <1>q, <2>1, <2>2 DEF TargetFault, repositoryVars, sourceRepo
<1>9. CASE PreparationFails \/ Prepared \/ Accept \/ TargetFails
  BY <1>9, <1>p DEF PreparationFails, Prepared, Accept, TargetFails
<1>10. CASE Authorize \/ publishHandoffLaunchInstructions
  BY <1>10, <1>q DEF Authorize, publishHandoffLaunchInstructions, repositoryVars, sourceRepo
<1>11. CASE Launch
  <2>1. /\ UNCHANGED <<main, heads, cand, work, marker, prep, foreign, cut, unclear, lost, origin, manifest, stage>>
        /\ told
    BY <1>11 DEF Launch, repositoryVars, sourceRepo, targetRepo
  <2>2. prep.step = "ok"
    BY <1>r, <1>t, <2>1 DEF Staged
  <2>3. WorktreeInv' /\ WorkNeverRemoved'
    BY <1>r, <1>t, <2>1 DEF PreparationInv, WorktreeInv, WorkNeverRemoved
  <2>4. foreign' = {} => Undisturbed'
    BY <1>r, <1>t, <2>1 DEF PreparationInv, Undisturbed, Choice, Exact, Excuse, isRegistered, Queued, Repo
  <2>5. unclear' \/ "worktree" \in foreign' \/ Kept'
    BY <1>r, <1>t, <2>1, <2>2 DEF PreparationInv, Kept, Adding
  <2> QED
    BY <2>3, <2>4, <2>5 DEF PreparationInv
<1>12. CASE AgentStep
  <2>1. /\ UNCHANGED <<main, heads, cand, marker, prep, foreign, cut, unclear, lost, origin, manifest, stage, agent>>
        /\ work' = TRUE
    BY <1>12 DEF AgentStep, AgentWorks, sourceRepo, branches, history, handoff
  <2>2. WorktreeInv' /\ WorkNeverRemoved'
    BY <1>r, <1>t, <2>1 DEF PreparationInv, WorktreeInv, WorkNeverRemoved
  <2>3. foreign' = {} => Undisturbed'
    BY <1>r, <1>t, <2>1 DEF PreparationInv, Undisturbed, Choice, Exact, Excuse, isRegistered, Queued, Repo
  <2>4. unclear' \/ "worktree" \in foreign' \/ Kept'
    BY <1>r, <1>t, <2>1 DEF PreparationInv, Kept
  <2> QED
    BY <2>2, <2>3, <2>4 DEF PreparationInv
<1>13. CASE OthersAct
  <2>0. UNCHANGED <<stage, manifest, agent, prep, work, marker, cut, unclear, lost>> /\ foreign \subseteq foreign'
    BY <1>13 DEF OthersAct, UserSwitches, UserRemoves, OthersPush, handoff
  <2>1. foreign' # {}
    BY <1>13 DEF OthersAct, UserSwitches, UserRemoves
  <2>2. WorkNeverRemoved'
    BY <1>r, <1>t, <2>0 DEF PreparationInv, WorkNeverRemoved
  <2>3. CASE UserRemoves
    <3>1. cand' = NoCand /\ cand.dir = "complete" /\ "worktree" \in foreign'
      BY <2>3 DEF UserRemoves
    <3>2. WorktreeInv'
      BY <1>r, <1>t, <2>0, <3>1, NoneYet DEF PreparationInv, WorktreeInv
    <3> QED
      BY <2>1, <2>2, <3>1, <3>2 DEF PreparationInv
  <2>4. CASE UserSwitches \/ OthersPush(Repo.branch)
    <3>1. cand' = cand
      BY <2>4 DEF UserSwitches, OthersPush
    <3>2. WorktreeInv' /\ (unclear' \/ "worktree" \in foreign' \/ Kept')
      BY <1>r, <1>t, <2>0, <3>1 DEF PreparationInv, WorktreeInv, Kept
    <3> QED
      BY <2>1, <2>2, <3>2 DEF PreparationInv
  <2> QED
    BY <1>13, <2>3, <2>4 DEF OthersAct
<1>14. CASE UNCHANGED vars
  BY <1>14, <1>q DEF vars, repositoryVars, sourceRepo
<1> QED
  BY <1>1, <1>2, <1>3, <1>4, <1>5, <1>6, <1>7, <1>8, <1>9, <1>10, <1>11, <1>12, <1>13, <1>14 DEF Next

-----------------------------------------------------------------------------
(* Theorems *)

LEMMA NextHolds == IInv /\ [Next]_vars => IInv'
<1> SUFFICES ASSUME IInv, [Next]_vars PROVE IInv'
  OBVIOUS
<1>1. /\ log' \in Versions /\ pub' \in Pubs
      /\ published' \in [Digests -> Files] /\ borrowed' \subseteq Digests /\ PublicationInv'
  BY PublicationHolds
<1>2. SourceTypes' /\ InspectionInv'
  BY InspectionHolds
<1>3. TargetTypes'
  BY TargetTypesHold
<1>4. SnapTypes' /\ SnapshotInv'
  BY SnapshotHolds
<1>5. Top' /\ Staged'
  BY StagesHold
<1>6. PreparationInv'
  BY PreparationHolds
<1>7. HistoryTypeOK'
  BY <1>1, <1>4 DEF HistoryTypeOK, Pubs, SnapTypes, Snaps
<1>8. RepositoryTypeOK'
  BY <1>2, <1>3 DEF RepositoryTypeOK, SourceTypes, Insps, TargetTypes, Heads, Cands, Preps
<1>9. AssetsTypeOK'
  BY <1>5, <1>7, <1>8 DEF AssetsTypeOK, Top
<1> QED
  BY <1>1, <1>2, <1>4, <1>5, <1>6, <1>9 DEF IInv

(***************************************************************************)
(* The inductive invariant holds in every behaviour.                       *)
(***************************************************************************)
THEOREM Invariance == Spec => []IInv
BY InitHolds, NextHolds, PTL DEF Spec

(***************************************************************************)
(* Every variable keeps its type, and a handoff has a valid manifest       *)
(* exactly from the time it is queued (QueueSource).                       *)
(***************************************************************************)
THEOREM TypeCorrect == Spec => []AssetsTypeOK
<1>1. IInv => AssetsTypeOK
  BY DEF IInv
<1> QED
  BY <1>1, Invariance, PTL

(***************************************************************************)
(* A publication holds the version its name says, and what a manifest      *)
(* names is there, but for a borrowed name, for any number of versions and *)
(* power losses (publishSourceHistory).                                    *)
(***************************************************************************)
THEOREM HistoryIsExact == Spec => []HistoryExact
<1>1. IInv => HistoryExact
  <2> SUFFICES ASSUME IInv PROVE HistoryExact
    OBVIOUS
  <2>1. \A d \in Digests : Exists(published[d]) => published[d].content = d /\ d \in Versions
    BY DEF IInv, PublicationInv, FilesExact
  <2>2. Queued => Exists(published[Ref]) \/ Ref \in borrowed
    BY NoFileIsFile DEF IInv, PublicationInv, Promised, Exists
  <2> QED
    BY <2>1, <2>2 DEF HistoryExact
<1> QED
  BY <1>1, Invariance, PTL

(***************************************************************************)
(* An inspection's claims belong together, for any branches and any number *)
(* of commits made meanwhile, unless another branch was checked out        *)
(* (InspectSourceRepository).                                              *)
(***************************************************************************)
THEOREM InspectionIsCoherent == Spec => []InspectedCoherent
<1>1. IInv => InspectedCoherent
  BY DEF IInv, InspectionInv, Coherent, InspectedCoherent, At
<1> QED
  BY <1>1, Invariance, PTL

(***************************************************************************)
(* A preparation never removes the continuation's work, however often it   *)
(* is cut off and repeated, but for a marker left unnoticed or a worktree  *)
(* somebody removed (recoverOwnedRegisteredCandidate).                     *)
(***************************************************************************)
THEOREM WorkIsKept == Spec => []WorkNeverRemoved
<1>1. IInv => WorkNeverRemoved
  BY DEF IInv, PreparationInv
<1> QED
  BY <1>1, Invariance, PTL

(***************************************************************************)
(* No number of crashes, killed commands and failures the code retries     *)
(* makes the target reject a handoff; a check that could not be made does  *)
(* (classifyRepositoryFailure, PrepareRepository, SnapshotHistory).        *)
(***************************************************************************)
THEOREM RejectionHasCause == Spec => []RejectedForCause
<1>1. IInv => RejectedForCause
  BY DEF IInv, PreparationInv, Undisturbed, Excuse, RejectedForCause
<1> QED
  BY <1>1, Invariance, PTL

(***************************************************************************)
(* The continuation is created in a complete worktree at the declared      *)
(* commit, next to the exact history, whatever preceded it, unless         *)
(* somebody else interfered (resumeLaunch).                                *)
(***************************************************************************)
THEOREM LaunchIsExact == Spec => LaunchedExact
<1>1. IInv /\ [Next]_vars =>
        [agent' /\ ~agent =>
            \/ foreign # {}
            \/ /\ cand.dir = "complete" /\ cand.push /\ heads[cand.branch] = "good"
               /\ snapshot.content = Ref]_vars
  <2> SUFFICES ASSUME IInv, Next, agent', ~agent, foreign = {}
               PROVE  Exact /\ snapshot.content = Ref
    BY DEF Exact
  <2>1. told
    BY DEF Next, Inspect, Used, Inspected, Publish, PublishFault, SourceFails, PrepareAgain,
        Queue, Attempt, Snapshot, Arrives, SnapshotEnds, Prepare, TargetFault, PreparationFails,
        Prepared, Authorize, publishHandoffLaunchInstructions, Launch, Accept, AgentStep,
        TargetFails, OthersAct, handoff
  <2>2. prep.step = "ok" /\ prep # NoPrep
    BY <2>1, NoneYet DEF IInv, Staged
  <2>3. Exact
    BY <2>2 DEF IInv, PreparationInv, Undisturbed
  <2>4. snapshot.content = Ref
    BY <2>2 DEF IInv, SnapshotInv
  <2> QED
    BY <2>3, <2>4
<1> QED
  BY <1>1, Invariance, PTL DEF Spec, LaunchedExact
=============================================================================
