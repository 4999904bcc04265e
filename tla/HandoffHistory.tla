--------------------------- MODULE HandoffHistory ---------------------------
(***************************************************************************)
(* The session history of a handoff on its way: the source publishes one   *)
(* exact version of a log that the agent goes on writing, under a name     *)
(* made of its digest (source_history.go); a synchronisation tool outside  *)
(* the program carries the file over; the target copies it into private    *)
(* state (history.go).  Files have what a power loss can take away: their  *)
(* contents until they are synced, and their name until its directory is.  *)
(***************************************************************************)
EXTENDS Naturals

CONSTANTS
    MaxVersion      \* bound: versions of the log the agent writes

ASSUME HistoryAssumption == MaxVersion \in Nat \ {0}

VARIABLES
    log,            \* the version the session's log is at
    pub,            \* the publication under way
    published,      \* the files of the source's history root, by address
    borrowed,       \* history: the addresses taken over before their name was durable
    synced,         \* the same files in the target's history root
    snapshot,       \* history.md in the target's private state
    snap            \* the target's SnapshotHistory

historyVars == <<log, pub, published, borrowed, synced, snapshot, snap>>
sourceHistory == <<log, pub, published, borrowed>>
targetHistory == <<synced, snapshot, snap>>

Versions == 1 .. MaxVersion
Mixed    == 0                       \* parts of two versions
Torn     == MaxVersion + 1          \* what a power loss leaves of unsynced contents
Contents == Versions \cup {Mixed, Torn}
Digests  == Versions \cup {Mixed}   \* an address is the digest of contents once read
NoFile   == [content |-> Torn, data |-> FALSE, name |-> FALSE]
Files    == [content : Contents, data : BOOLEAN, name : BOOLEAN]
PubSteps == {"idle", "opened", "hashed", "address", "copied", "saved", "renamed",
             "verify", "done", "error"}
NoPub    == [step |-> "idle", before |-> Mixed, digest |-> Mixed, temp |-> Torn]
Failed   == [NoPub EXCEPT !.step = "error"]   \* retryable or invalid: the prepare is refused
NoSnap   == [step |-> "idle", temp |-> Torn]

Exists(f) == f # NoFile

HistoryTypeOK ==
    /\ log \in Versions
    /\ pub \in [step : PubSteps, before : Digests, digest : Digests, temp : Contents]
    /\ published \in [Digests -> Files]
    /\ borrowed \subseteq Digests
    /\ synced \in [Digests -> {"none", "partial", "full"}]
    /\ snapshot \in Files
    /\ snap \in [step : {"idle", "start", "open", "copied", "renamed", "verify",
                         "ok", "retryable", "invalid"}, temp : Contents]

HistoryInit ==
    /\ log = 1
    /\ pub = NoPub
    /\ published = [d \in Digests |-> NoFile] /\ borrowed = {}
    /\ synced = [d \in Digests |-> "none"]
    /\ snapshot = NoFile /\ snap = NoSnap

(* What a power loss leaves of a file, if it reaches the name or the contents. *)
AfterPowerLoss(f, losesName, tears) ==
    IF losesName /\ ~f.name THEN NoFile
    ELSE IF tears /\ ~f.data THEN [f EXCEPT !.content = Torn] ELSE f

-----------------------------------------------------------------------------
(* The source: PublishSourceHistory *)

SetPub(r) == pub' = r

(* The agent's next turn rewrites its log. *)
AgentWrites ==
    /\ log < MaxVersion
    /\ log' = log + 1
    /\ UNCHANGED <<pub, published, borrowed, targetHistory>>

OpenSource ==
    /\ pub.step = "idle"
    /\ SetPub([NoPub EXCEPT !.step = "opened", !.before = log])
    /\ UNCHANGED <<log, published, borrowed, targetHistory>>

(* A read that the agent's writing overtakes may see parts of both. *)
Reads(before) == IF log = before THEN {log} ELSE {log, Mixed}

hashSourceHistory ==
    /\ pub.step = "opened"
    /\ \E d \in Reads(pub.before) :
        SetPub([pub EXCEPT !.step = "hashed", !.digest = d])
    /\ UNCHANGED <<log, published, borrowed, targetHistory>>

(* Mutant: the file is not looked at again. *)
unchangedAlways == TRUE

(* verifySourceHistoryUnchanged: same file, same size, same mtime. *)
unchanged == log = pub.before

(* A publication found at its address is used as it is, once it is verified; *)
(* its directory entry need not be durable.                                  *)
Reuse ==
    LET d == pub.digest IN
    /\ SetPub(IF published[d].content = d THEN [pub EXCEPT !.step = "done"] ELSE Failed)
    /\ borrowed' = borrowed \cup (IF published[d].name THEN {} ELSE {d})

Address ==
    /\ pub.step = "hashed"
    /\ IF ~unchanged THEN SetPub(Failed) /\ UNCHANGED borrowed
       ELSE IF Exists(published[pub.digest]) THEN Reuse
       ELSE SetPub([pub EXCEPT !.step = "address"]) /\ UNCHANGED borrowed
    /\ UNCHANGED <<log, published, targetHistory>>

(* The second pass, into a temporary file. *)
Copy ==
    /\ pub.step = "address"
    /\ \E c \in Reads(pub.before) :
        SetPub([pub EXCEPT !.step = "copied", !.temp = c])
    /\ UNCHANGED <<log, published, borrowed, targetHistory>>

SyncTemp ==
    /\ pub.step = "copied"
    /\ SetPub(IF pub.temp = pub.digest /\ unchanged
                 THEN [pub EXCEPT !.step = "saved"] ELSE Failed)
    /\ UNCHANGED <<log, published, borrowed, targetHistory>>

(* The file has its name; the directory entry is not durable yet. *)
renameSourceHistoryNoReplace ==
    LET d == pub.digest IN
    /\ pub.step = "saved" /\ ~Exists(published[d])
    /\ published' = [published EXCEPT ![d] =
                        [content |-> pub.temp, data |-> TRUE, name |-> FALSE]]
    /\ SetPub([pub EXCEPT !.step = "renamed"])
    /\ UNCHANGED <<log, borrowed, targetHistory>>

(* Another publication was faster. *)
RenameExists ==
    /\ pub.step = "saved" /\ Exists(published[pub.digest])
    /\ Reuse
    /\ UNCHANGED <<log, published, targetHistory>>

NamesDurable == [d \in Digests |->
    IF Exists(published[d]) THEN [published[d] EXCEPT !.name = TRUE] ELSE NoFile]

FsyncRoot ==
    /\ pub.step = "renamed"
    /\ published' = NamesDurable
    /\ SetPub([pub EXCEPT !.step = "verify"])
    /\ UNCHANGED <<log, borrowed, targetHistory>>

verifyPublishedSourceHistory ==
    LET f == published[pub.digest] IN
    /\ pub.step = "verify"
    /\ SetPub(IF Exists(f) /\ f.content = pub.digest
                 THEN [pub EXCEPT !.step = "done"] ELSE Failed)
    /\ UNCHANGED <<log, published, borrowed, targetHistory>>

(* The same log published for another handoff: by now it has its address,  *)
(* but not yet a durable name.                                             *)
OtherPublishes ==
    /\ ~Exists(published[log])
    /\ published' = [published EXCEPT ![log] = [content |-> log, data |-> TRUE, name |-> FALSE]]
    /\ UNCHANGED <<log, pub, borrowed, targetHistory>>

OtherSyncs ==
    /\ published' = NamesDurable
    /\ UNCHANGED <<log, pub, borrowed, targetHistory>>

(* A step fails, or the daemon does: the prepare is an error to its caller. *)
PublishFails ==
    /\ pub.step \notin {"idle", "done", "error"}
    /\ SetPub(Failed)
    /\ UNCHANGED <<log, published, borrowed, targetHistory>>

SourcePowerLoss ==
    /\ \E losesName, tears \in BOOLEAN :
        published' = [d \in Digests |-> AfterPowerLoss(published[d], losesName, tears)]
    /\ UNCHANGED <<log, borrowed, targetHistory>>

PublishStep ==
    \/ OpenSource \/ hashSourceHistory \/ Address \/ Copy \/ SyncTemp
    \/ renameSourceHistoryNoReplace \/ RenameExists \/ FsyncRoot
    \/ verifyPublishedSourceHistory

-----------------------------------------------------------------------------
(* Between the devices: the tool writes the file in place, in its own time. *)
SyncArrives(d) ==
    /\ Exists(published[d])
    /\ \/ synced[d] = "none" /\ synced' = [synced EXCEPT ![d] = "partial"]
       \/ synced[d] = "partial" /\ synced' = [synced EXCEPT ![d] = "full"]
    /\ UNCHANGED <<sourceHistory, snapshot, snap>>

-----------------------------------------------------------------------------
(* The target: SnapshotHistory of the file with digest ref *)

SetSnap(s) == snap' = [snap EXCEPT !.step = s]

(* verifyHistorySnapshot: a snapshot of anything else is a conflict. *)
verifyHistorySnapshot(ref) == IF snapshot.content = ref THEN "ok" ELSE "invalid"

(* The lock is free: preparations of one handoff follow one another. *)
SnapStart(ref) ==
    /\ snap.step = "start"
    /\ SetSnap(IF Exists(snapshot) THEN verifyHistorySnapshot(ref) ELSE "open")
    /\ UNCHANGED <<sourceHistory, synced, snapshot>>

(* A partial file need not be shorter than the whole one. *)
openHistorySource(ref) ==
    /\ snap.step = "open"
    /\ \/ synced[ref] # "full" /\ SetSnap("retryable")
       \/ synced[ref] # "none"
          /\ snap' = [step |-> "copied", temp |-> IF synced[ref] = "full" THEN ref ELSE Torn]
    /\ UNCHANGED <<sourceHistory, synced, snapshot>>

(* The digest decides; then the copy is synced and renamed. *)
SnapPublish(ref) ==
    /\ snap.step = "copied"
    /\ IF snap.temp # ref THEN SetSnap("retryable") /\ UNCHANGED snapshot
       ELSE /\ SetSnap("renamed")
            /\ snapshot' = [content |-> snap.temp, data |-> TRUE, name |-> FALSE]
    /\ UNCHANGED <<sourceHistory, synced>>

syncDirectory ==
    /\ snap.step = "renamed"
    /\ SetSnap("verify")
    /\ snapshot' = [snapshot EXCEPT !.name = TRUE]
    /\ UNCHANGED <<sourceHistory, synced>>

SnapVerify(ref) ==
    /\ snap.step = "verify"
    /\ SetSnap(verifyHistorySnapshot(ref))
    /\ UNCHANGED <<sourceHistory, synced, snapshot>>

SnapSteps == {"start", "open", "copied", "renamed", "verify"}

(* Storage fails: the caller waits for assets... *)
SnapFails ==
    /\ snap.step \in SnapSteps
    /\ SetSnap("retryable")
    /\ UNCHANGED <<sourceHistory, synced, snapshot>>

(* ...but not when the private root cannot be looked at: openPrivateHistoryRoot. *)
RootUnavailable ==
    /\ snap.step = "start"
    /\ SetSnap("invalid")
    /\ UNCHANGED <<sourceHistory, synced, snapshot>>

SnapStep(ref) ==
    SnapStart(ref) \/ openHistorySource(ref) \/ SnapPublish(ref) \/ syncDirectory \/ SnapVerify(ref)
=============================================================================
