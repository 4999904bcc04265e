------------------------- MODULE HandoffRepository -------------------------
(***************************************************************************)
(* The repository of a handoff.  The source inspects the checkout of a     *)
(* session while the agent and others go on using it (source.go); the      *)
(* target prepares a worktree at exactly the declared commit and, when the *)
(* preparation was cut off at any point, takes up or takes away what the   *)
(* earlier one left (repository.go).  What git itself does, and leaves     *)
(* behind when it is killed, is modelled from how the code uses it.        *)
(***************************************************************************)
EXTENDS Naturals

CONSTANTS
    Branches,       \* branches of the source's checkout
    MaxCommit,      \* bound: commits made
    NoCommit

ASSUME RepositoryAssumption == MaxCommit \in Nat \ {0} /\ Branches # {}

VARIABLES
    commits,        \* commits made so far, by anybody
    tips,           \* branch -> commit, in the source's checkout
    current,        \* its branch
    dirty,          \* it has uncommitted changes
    origin,         \* branch -> commit, at origin
    insp,           \* the source's InspectSourceRepository
    wasClean,       \* history: where the checkout was clean during the inspection
    switched,       \* history: another branch was checked out during the inspection
    main,           \* the branch of the target's own checkout, "source" or another
    heads,          \* the two branches a continuation may use, in the target's repository
    cand,           \* the worktree of the handoff
    work,           \* it holds work of the continuation
    marker,         \* the preparation marker, by the branch it names
    prep,           \* the target's PrepareRepository
    foreign,        \* history: what the preparation relies on and somebody else changed
    cut,            \* history: git was killed between two writes of one command
    unclear,        \* history: the marker of a finished preparation was left
    lost            \* history: work of the continuation was removed

sourceRepo == <<commits, tips, current, dirty, origin, insp, wasClean, switched>>
targetRepo == <<main, heads, cand, work, marker, prep, foreign, cut, unclear, lost>>
repositoryVars == <<sourceRepo, targetRepo>>

Commits  == 1 .. MaxCommit
NoInsp   == [step |-> "idle", branch |-> NoCommit, head |-> NoCommit, tree |-> NoCommit]
InspSteps == {"idle", "checkout", "branch", "status", "head", "tree", "advertised", "fetched",
              "branch2", "status2", "head2", "done", "refused"}
Locals   == {"source", "fallback"}
Registered == {"unlinked", "locked", "partial", "complete", "missing"}
NoCand   == [dir |-> "none", branch |-> "source", push |-> FALSE]
NoPrep   == [step |-> "idle", branch |-> "source", owned |-> FALSE]
PrepSteps == {"choose", "candidate", "replay", "recover", "fetch", "branch", "mark",
              "add", "configure", "validate", "clear"}

RepositoryTypeOK ==
    /\ commits \in Commits /\ tips \in [Branches -> Commits] /\ current \in Branches
    /\ dirty \in BOOLEAN
    /\ origin \in [Branches -> Commits]
    /\ insp \in [step : InspSteps, branch : Branches \cup {NoCommit},
                 head : Commits \cup {NoCommit}, tree : Commits \cup {NoCommit}]
    /\ wasClean \subseteq Branches \X Commits /\ switched \in BOOLEAN
    /\ main \in {"source", "other"}
    /\ heads \in [Locals -> {"none", "bare", "good", "other"}]
    /\ cand \in [dir : Registered \cup {"none", "dir"}, branch : Locals, push : BOOLEAN]
    /\ work \in BOOLEAN /\ marker \in Locals \cup {"none"}
    /\ prep \in [step : PrepSteps \cup {"idle", "ok", "retryable", "deterministic"},
                 branch : Locals, owned : BOOLEAN]
    /\ foreign \in SUBSET {"branch", "worktree"} /\ cut \in BOOLEAN /\ unclear \in BOOLEAN /\ lost \in BOOLEAN

(* The source's checkout begins on one of its branches, all of them pushed. *)
(* The target may know the branch already: at the right commit or another  *)
(* one, checked out or not; a branch at another commit that is not checked *)
(* out is taken for a conflict, never avoided.                             *)
RepositoryInit ==
    /\ commits = 1 /\ tips = [b \in Branches |-> 1] /\ dirty = FALSE
    /\ current = CHOOSE b \in Branches : TRUE
    /\ origin = [b \in Branches |-> 1]
    /\ insp = NoInsp /\ wasClean = {} /\ switched = FALSE
    /\ main \in {"source", "other"}
    /\ heads \in [Locals -> {"none", "good", "other"}] /\ heads["fallback"] = "none"
    /\ main = "source" => heads["source"] # "none"
    /\ cand = NoCand /\ work = FALSE /\ marker = "none" /\ prep = NoPrep
    /\ foreign = IF main = "other" /\ heads["source"] = "other" THEN {"branch"} ELSE {}
    /\ cut = FALSE /\ unclear = FALSE /\ lost = FALSE

-----------------------------------------------------------------------------
(* The source's checkout, in use *)

(* What an inspection under way could have seen. *)
Seen ==
    IF insp.step \in {"idle", "checkout", "done", "refused"} THEN UNCHANGED <<wasClean, switched>>
    ELSE /\ wasClean' = wasClean \cup (IF dirty' THEN {} ELSE {<<current', tips'[current']>>})
         /\ switched' = (switched \/ current' # current)

Edit ==
    /\ dirty' = ~dirty                      \* an edit, or its reverse
    /\ UNCHANGED <<tips, current>> /\ Seen
    /\ UNCHANGED <<commits, origin, insp, targetRepo>>

Commit ==
    /\ dirty /\ commits < MaxCommit
    /\ commits' = commits + 1
    /\ tips' = [tips EXCEPT ![current] = commits + 1]
    /\ dirty' \in BOOLEAN                   \* all of the changes, or some
    /\ UNCHANGED current /\ Seen
    /\ UNCHANGED <<origin, insp, targetRepo>>

Checkout ==
    /\ ~dirty
    /\ current' \in Branches
    /\ UNCHANGED <<dirty, tips>> /\ Seen
    /\ UNCHANGED <<commits, origin, insp, targetRepo>>

Push ==
    /\ origin' = [origin EXCEPT ![current] = tips[current]]
    /\ UNCHANGED <<commits, tips, current, dirty, insp, wasClean, switched, targetRepo>>

(* Somebody else's commit on a branch at origin. *)
OthersPush(b) ==
    /\ commits < MaxCommit
    /\ commits' = commits + 1
    /\ origin' = [origin EXCEPT ![b] = commits + 1]
    /\ UNCHANGED <<tips, current, dirty, insp, wasClean, switched, main, heads, cand, work,
                   marker, prep, cut, unclear, lost>>

-----------------------------------------------------------------------------
(* InspectSourceRepository: one git command a step *)

At(s) == insp.step = s
Becomes(r) ==
    /\ insp' = r
    /\ UNCHANGED <<commits, tips, current, dirty, origin, targetRepo>>
Continue(r) == Becomes(r) /\ UNCHANGED <<wasClean, switched>>
Passes(s)   == Continue([insp EXCEPT !.step = s])
Refused     == Becomes([NoInsp EXCEPT !.step = "refused"]) /\ wasClean' = {} /\ switched' = FALSE

(* The session's directory is in a checkout of the project, or one of its  *)
(* registered worktrees, or the prepare is refused.                        *)
sourceCheckoutForSession ==
    /\ At("idle")
    /\ Passes("checkout") \/ Refused

InspectBranch ==
    /\ At("checkout")
    /\ Becomes([NoInsp EXCEPT !.step = "branch", !.branch = current])
    /\ wasClean' = (IF dirty THEN {} ELSE {<<current, tips[current]>>})
    /\ UNCHANGED switched

InspectStatus == At("branch") /\ IF dirty THEN Refused ELSE Passes("status")

InspectHead ==
    /\ At("status")
    /\ Continue([insp EXCEPT !.step = "head", !.head = tips[current]])

(* A commit determines its tree. *)
InspectTree ==
    /\ At("head")
    /\ Continue([insp EXCEPT !.step = "tree", !.tree = tips[current]])

(* ls-remote: origin must have the branch at the same commit ... *)
InspectAdvertised ==
    /\ At("tree")
    /\ IF origin[insp.branch] # insp.head THEN Refused ELSE Passes("advertised")

(* ... and still have it when it is fetched to a private ref. *)
InspectFetched ==
    /\ At("advertised")
    /\ IF origin[insp.branch] # insp.head THEN Refused ELSE Passes("fetched")

(* Every mutable local claim is read again. *)
InspectAgainBranch ==
    /\ At("fetched")
    /\ IF current # insp.branch THEN Refused ELSE Passes("branch2")

InspectAgainStatus == At("branch2") /\ IF dirty THEN Refused ELSE Passes("status2")

(* Mutant: the commit is not read again. *)
InspectAgainHeadNot ==
    /\ At("status2")
    /\ Passes("head2")

InspectAgainHead ==
    /\ At("status2")
    /\ IF tips[current] # insp.head THEN Refused ELSE Passes("head2")

InspectAgainTree ==
    /\ At("head2")
    /\ IF tips[current] # insp.tree THEN Refused ELSE Passes("done")

InspectStep ==
    \/ sourceCheckoutForSession \/ InspectBranch \/ InspectStatus \/ InspectHead \/ InspectTree
    \/ InspectAdvertised \/ InspectFetched
    \/ InspectAgainBranch \/ InspectAgainStatus \/ InspectAgainHead \/ InspectAgainTree

SourceUse == Edit \/ Commit \/ Checkout \/ Push

-----------------------------------------------------------------------------
(* PrepareRepository, at the target, for a manifest that names the branch  *)
(* and the commit.  A step's result is ok, or one of the two error codes:  *)
(* the caller retries the one and rejects the handoff for the other.       *)

Step(s)      == prep.step = s
Goes(s)      == prep' = [prep EXCEPT !.step = s]
Deterministic == Goes("deterministic")
Retryable    == Goes("retryable")
history      == <<foreign, cut, unclear, lost>>
branches     == <<main, heads>>

isRegistered == cand.dir \in Registered

(* A worktree that has been registered decides; otherwise the source's own *)
(* branch name, unless it is checked out here.                             *)
chooseLocalBranch ==
    /\ Step("choose")
    /\ prep' = [NoPrep EXCEPT !.step = "candidate",
                    !.branch = IF isRegistered THEN cand.branch
                               ELSE IF main = "source" THEN "fallback" ELSE "source"]
    /\ UNCHANGED <<sourceRepo, branches, cand, work, marker, history>>

(* verifyPreparationMarker: a marker of other contents is a conflict. *)
Owned     == marker = prep.branch
Conflict  == marker \notin {"none", prep.branch}

(* A directory git does not know is removed if the marker says it is ours. *)
recoverOwnedPartialCandidate ==
    IF Owned THEN Goes("fetch") /\ cand' = NoCand ELSE Deterministic /\ UNCHANGED cand

(* What is found at the candidate's path: a known worktree of ours is      *)
(* configured and tried.                                                   *)
Candidate ==
    /\ Step("candidate")
    /\ \/ cand.dir \in {"none", "missing"} /\ Goes("fetch") /\ UNCHANGED cand
       \/ cand.dir = "dir" /\ recoverOwnedPartialCandidate
       \/ /\ isRegistered /\ cand.dir # "missing"
          /\ IF Conflict \/ cand.dir = "unlinked" THEN Deterministic /\ UNCHANGED cand
             ELSE /\ prep' = [prep EXCEPT !.step = "replay", !.owned = Owned]
                  /\ cand' = [cand EXCEPT !.push = cand.push \/ Owned]
    /\ UNCHANGED <<sourceRepo, branches, work, marker, history>>

(* Mutant: a registered worktree on the branch is taken for a complete one. *)
validReplayRegistered ==
    /\ cand.dir \in {"partial", "complete"} /\ cand.branch = prep.branch /\ cand.push
    /\ heads[cand.branch] = "good" /\ ~work

(* validateRepositoryReplay: exactly the declared commit on the branch,    *)
(* with its upstream and its push policy, and nothing changed.             *)
validReplay ==
    /\ cand.dir = "complete" /\ cand.branch = prep.branch /\ cand.push
    /\ heads[cand.branch] = "good" /\ ~work

Replay ==
    /\ Step("replay")
    /\ IF validReplay THEN Goes("clear")
       ELSE IF prep.owned THEN Goes("recover") ELSE Deterministic
    /\ UNCHANGED <<sourceRepo, branches, cand, work, marker, history>>

(* git worktree remove --force: git refuses while the worktree is locked,  *)
(* as it is while it is being added; killed half-way it leaves the         *)
(* registration of a directory that is gone.                               *)
recoverOwnedRegisteredCandidate ==
    /\ Step("recover")
    /\ \/ cand.dir = "locked" /\ Retryable /\ UNCHANGED <<cand, work, lost, cut>>
       \/ /\ cand.dir # "locked"
          /\ lost' = (lost \/ work) /\ work' = FALSE
          /\ Goes("fetch") /\ cand' = NoCand /\ UNCHANGED cut
    /\ UNCHANGED <<sourceRepo, branches, marker, foreign, unclear>>

RecoverKilled ==
    /\ Step("recover") /\ cand.dir # "locked"
    /\ lost' = (lost \/ work) /\ work' = FALSE
    /\ Retryable /\ cand' = [cand EXCEPT !.dir = "missing"] /\ cut' = TRUE
    /\ UNCHANGED <<sourceRepo, branches, marker, foreign, unclear>>

(* validateRepositoryCommitClaims: the commit has the tree the manifest says. *)
claimsHold(repository) == repository.tree = repository.head

(* The branch must still be where the manifest says. *)
Fetch(repository) ==
    /\ Step("fetch")
    /\ IF origin[repository.branch] = repository.head /\ claimsHold(repository)
       THEN Goes("branch") ELSE Deterministic
    /\ UNCHANGED <<sourceRepo, branches, cand, work, marker, history>>

checkedOut == (main = "source" /\ prep.branch = "source") \/ (isRegistered /\ cand.branch = prep.branch)

LocalBranch ==
    /\ Step("branch")
    /\ IF heads[prep.branch] \in {"bare", "other"} \/ checkedOut
       THEN Deterministic /\ UNCHANGED heads
       ELSE Goes("mark") /\ heads' = [heads EXCEPT ![prep.branch] = "good"]
    /\ UNCHANGED <<sourceRepo, main, cand, work, marker, history>>

(* git branch --track is killed before it has recorded the upstream. *)
BranchKilled ==
    /\ Step("branch") /\ heads[prep.branch] = "none" /\ ~checkedOut
    /\ heads' = [heads EXCEPT ![prep.branch] = "bare"]
    /\ Retryable /\ cut' = TRUE
    /\ UNCHANGED <<sourceRepo, main, cand, work, marker, foreign, unclear, lost>>

(* Mutant: the worktree is added first, and marked only if that failed. *)
writePreparationMarkerLate ==
    /\ Step("mark")
    /\ Goes("add")
    /\ UNCHANGED <<sourceRepo, branches, cand, work, marker, history>>

writePreparationMarker ==
    /\ Step("mark")
    /\ IF Conflict THEN Deterministic /\ UNCHANGED marker
       ELSE Goes("add") /\ marker' = prep.branch
    /\ UNCHANGED <<sourceRepo, branches, cand, work, history>>

Added(dir) == [dir |-> dir, branch |-> prep.branch, push |-> FALSE]

(* Outside, a hook may fail when the worktree is complete: it is then      *)
(* configured and validated, and an error of clearing the marker ignored.  *)
Add ==
    /\ Step("add")
    /\ \/ Goes("configure") /\ cand' = Added("complete") /\ UNCHANGED <<marker, unclear>>
       \/ /\ heads[prep.branch] = "good"
          /\ Goes("ok") /\ cand' = [Added("complete") EXCEPT !.push = TRUE]
          /\ \/ marker' = "none" /\ UNCHANGED unclear
             \/ UNCHANGED marker /\ unclear' = TRUE
    /\ UNCHANGED <<sourceRepo, branches, work, foreign, cut, lost>>

(* What git leaves of a worktree it was adding. *)
LeftByAdd == {NoCand} \cup {Added(d) : d \in {"dir", "unlinked", "locked", "partial", "complete"}}

AddKilled ==
    /\ Step("add") /\ Retryable
    /\ cand' \in LeftByAdd
    /\ cut' = (cut \/ cand'.dir = "unlinked")
    /\ UNCHANGED <<sourceRepo, branches, work, marker, foreign, unclear, lost>>

configureWorktreePush ==
    /\ Step("configure")
    /\ Goes("validate") /\ cand' = [cand EXCEPT !.push = TRUE]
    /\ UNCHANGED <<sourceRepo, branches, work, marker, history>>

Validate ==
    /\ Step("validate")
    /\ IF validReplay THEN Goes("clear") ELSE Deterministic
    /\ UNCHANGED <<sourceRepo, branches, cand, work, marker, history>>

(* Mutant: the marker stays where it is. *)
clearPreparationMarkerNot ==
    /\ Step("clear")
    /\ Goes("ok")
    /\ UNCHANGED <<sourceRepo, branches, cand, work, marker, history>>

clearPreparationMarker ==
    /\ Step("clear")
    /\ Goes("ok") /\ marker' = "none"
    /\ UNCHANGED <<sourceRepo, branches, cand, work, history>>

(* A git command or file operation fails, and the handoff waits; but any   *)
(* failure of a replay the marker calls ours takes the worktree away.      *)
PrepFails ==
    /\ prep.step \in PrepSteps
    /\ IF Step("replay") /\ prep.owned THEN Goes("recover") ELSE Retryable
    /\ UNCHANGED <<sourceRepo, branches, cand, work, marker, history>>

(* A command fails whose failure is taken for its answer: the origin, the  *)
(* common directory, HEAD, the base commit, the branch, the push policy.   *)
CheckFails ==
    /\ \/ prep.step \in {"choose", "recover", "fetch", "configure", "validate"}
       \/ Step("candidate") /\ isRegistered /\ Owned
       \/ Step("replay") /\ ~prep.owned
    /\ Deterministic
    /\ UNCHANGED <<sourceRepo, branches, cand, work, marker, history>>

(* registeredWorktree passes over an entry whose path it cannot resolve:   *)
(* the candidate then counts as a directory git does not know.             *)
CandidateUnseen ==
    /\ Step("candidate") /\ isRegistered /\ cand.dir # "missing"
    /\ IF Owned
       THEN /\ lost' = (lost \/ work) /\ work' = FALSE
            /\ Goes("fetch") /\ cand' = [cand EXCEPT !.dir = "missing"]
       ELSE Deterministic /\ UNCHANGED <<cand, work, lost>>
    /\ UNCHANGED <<sourceRepo, branches, marker, foreign, cut, unclear>>

(* verifyOwnedRemovalTree: what is left of an earlier preparation is not   *)
(* removed if others may write to it, as after a umask that lets the group.*)
verifyOwnedRemovalTree ==
    /\ Step("recover") \/ (Step("candidate") /\ Owned /\ cand.dir \notin {"none", "missing"})
    /\ Deterministic
    /\ UNCHANGED <<sourceRepo, branches, cand, work, marker, history>>

PrepareStep(repository) ==
    \/ chooseLocalBranch \/ Candidate \/ Replay \/ recoverOwnedRegisteredCandidate
    \/ Fetch(repository) \/ LocalBranch \/ writePreparationMarker \/ Add
    \/ configureWorktreePush \/ Validate \/ clearPreparationMarker

PrepFault == PrepFails \/ RecoverKilled \/ BranchKilled \/ AddKilled
PrepRefused == CheckFails \/ CandidateUnseen

(* The people at the target: they check branches out and worktrees in. *)
UserSwitches ==
    /\ main' \in {"source", "other"} \ {main}
    /\ main' = "source" => heads["source"] # "none" /\ ~(isRegistered /\ cand.branch = "source")
    /\ foreign' = foreign \cup {"branch"}
    /\ UNCHANGED <<sourceRepo, heads, cand, work, marker, prep, cut, unclear, lost>>

UserRemoves ==
    /\ cand.dir = "complete" /\ ~work
    /\ cand' = NoCand /\ foreign' = foreign \cup {"worktree"}
    /\ UNCHANGED <<sourceRepo, branches, work, marker, prep, cut, unclear, lost>>

(* The continuation edits and commits. *)
AgentWorks ==
    /\ cand.dir = "complete" /\ ~work
    /\ work' = TRUE
    /\ UNCHANGED <<sourceRepo, branches, cand, marker, prep, history>>
=============================================================================
