---------------------------- MODULE HandoffRecord ----------------------------
(***************************************************************************)
(* The durable records of one handoff and what the store does to them      *)
(* (internal/handoff/record.go and store.go).  A record keeps what the     *)
(* protocol tells apart: its state, its retry deadline, the continuation   *)
(* it is bound to, the acknowledgement and, at the source, the retirement  *)
(* request.  Failure texts, timestamps and attempt counters are left out;  *)
(* a deadline is "later" until the clock passes it and "due" afterwards.   *)
(* The immutable manifest and its digest are implicit: there is one.       *)
(***************************************************************************)
EXTENDS Naturals

CONSTANTS
    Sessions,    \* session ids the target daemon can allocate
    NoSession,   \* the nil target locator
    Acks,        \* acknowledgements (they differ in acknowledged_at)
    NoAck        \* the nil acknowledgement

ASSUME SessionsAssumption == NoSession \notin Sessions
ASSUME AcksAssumption == NoAck \notin Acks

SourceState ==
    {"queued", "preparing_remote", "remote_prepared", "launching_remote",
     "accepted", "retry_wait", "launch_retry_wait", "failed"}

TargetState ==
    {"received", "validating", "prepared", "waiting_assets", "launching",
     "launch_waiting_assets", "accepted", "rejected"}

\* "absent" is the state of a record that has not been written yet.
Absent == "absent"

RetryDeadline == {"none", "later", "due"}
RetirementState == {"none", "pending", "retired"}
RetirementMode == {"none", "immediate", "after_turn_end"}

SourceRecord ==
    [state : SourceState \cup {Absent}, retry : RetryDeadline,
     locator : Sessions \cup {NoSession}, loaded : Acks \cup {NoAck},
     retirement : RetirementState, mode : RetirementMode, baseline : Nat]

TargetRecord ==
    [state : TargetState \cup {Absent}, retry : RetryDeadline,
     locator : Sessions \cup {NoSession}, loaded : Acks \cup {NoAck}]

NoSource ==
    [state |-> Absent, retry |-> "none", locator |-> NoSession, loaded |-> NoAck,
     retirement |-> "none", mode |-> "none", baseline |-> 0]

NoTarget ==
    [state |-> Absent, retry |-> "none", locator |-> NoSession, loaded |-> NoAck]

SourceRetryStates == {"retry_wait", "launch_retry_wait"}
TargetRetryStates == {"waiting_assets", "launch_waiting_assets"}
TargetLocatorStates == {"launching", "launch_waiting_assets", "accepted"}

-----------------------------------------------------------------------------
(* Transition tables.  The protocol modules do not take them as guards:     *)
(* that no step asks the store for an illegal transition is a property.     *)

legalSourceTransition(from, next) ==
    \/ from = "queued"            /\ next \in {"preparing_remote", "failed"}
    \/ from = "preparing_remote"  /\ next \in {"remote_prepared", "retry_wait", "failed"}
    \/ from = "remote_prepared"   /\ next \in {"launching_remote", "retry_wait", "failed"}
    \/ from = "launching_remote"  /\ next \in {"accepted", "launch_retry_wait", "failed"}
    \/ from = "retry_wait"        /\ next \in {"preparing_remote", "failed"}
    \/ from = "launch_retry_wait" /\ next \in {"launching_remote", "failed"}

legalTargetTransition(from, next) ==
    \/ from = "received"              /\ next \in {"validating", "rejected"}
    \/ from = "validating"            /\ next \in {"prepared", "waiting_assets", "rejected"}
    \/ from = "waiting_assets"        /\ next \in {"validating", "rejected"}
    \/ from = "prepared"              /\ next \in {"launching", "rejected"}
    \/ from = "launching"             /\ next \in {"accepted", "launch_waiting_assets", "rejected"}
    \/ from = "launch_waiting_assets" /\ next \in {"launching", "rejected"}

-----------------------------------------------------------------------------
(* What the store refuses to write or to read back.                         *)

ValidSource(r) ==
    /\ (r.state \in SourceRetryStates) <=> (r.retry # "none")
    /\ (r.state = "accepted") <=> (r.locator # NoSession)
    /\ r.loaded # NoAck => r.state = "accepted"
    /\ r.retirement # "none" => r.state = "accepted" /\ r.loaded # NoAck
    /\ (r.retirement = "none") <=> (r.mode = "none")

ValidTarget(r) ==
    /\ (r.state \in TargetRetryStates) <=> (r.retry # "none")
    /\ r.locator # NoSession => r.state \in TargetLocatorStates
    /\ r.state = "accepted" => r.locator # NoSession
    /\ r.loaded # NoAck => r.state = "accepted"

-----------------------------------------------------------------------------
(* Store operations, as functions from the record read to the one written.  *)

QueueSource == [NoSource EXCEPT !.state = "queued"]

ReceiveTarget(r) == IF r.state = Absent THEN [r EXCEPT !.state = "received"] ELSE r

TransitionSource(r, next, locator) ==
    [r EXCEPT !.state = next,
              !.retry = IF next \in SourceRetryStates THEN "later" ELSE "none",
              !.locator = IF next = "accepted" THEN locator ELSE NoSession]

\* Mutant: a rejected record keeps its locator.
TransitionTargetKeepsLocator(r, next) ==
    [r EXCEPT !.state = next,
              !.retry = IF next \in TargetRetryStates THEN "later" ELSE "none"]

\* Mutant: waiting forgets the recorded continuation.
TransitionTargetForgetsLocator(r, next) ==
    [r EXCEPT !.state = next,
              !.retry = IF next \in TargetRetryStates THEN "later" ELSE "none",
              !.locator = IF next = "accepted" THEN @ ELSE NoSession]

TransitionTarget(r, next) ==
    [r EXCEPT !.state = next,
              !.retry = IF next \in TargetRetryStates THEN "later" ELSE "none",
              !.locator = IF next \in TargetLocatorStates THEN @ ELSE NoSession]

RecordTargetLaunchLocator(r, s) ==
    IF r.locator = NoSession THEN [r EXCEPT !.locator = s] ELSE r

AcknowledgeTarget(r, a) == [r EXCEPT !.loaded = a]

RecordSourceContextLoaded(r, a) ==
    IF r.loaded = NoAck THEN [r EXCEPT !.loaded = a] ELSE r

RequestSourceRetirement(r, mode, turns) ==
    [r EXCEPT !.retirement = "pending", !.mode = mode, !.baseline = turns]

CompleteSourceRetirement(r) == [r EXCEPT !.retirement = "retired"]

\* Mutant: an attempt interrupted by a restart is not picked up again.
RunnableSourceSkipsPreparing(r) ==
    \/ r.state \in {"queued", "launching_remote"}
    \/ r.state \in SourceRetryStates /\ r.retry = "due"
    \/ r.state = "accepted" /\ r.retirement = "pending"

\* Mutant: pending retirements are not picked up.
RunnableSourceSkipsRetirement(r) ==
    \/ r.state \in {"queued", "preparing_remote", "launching_remote"}
    \/ r.state \in SourceRetryStates /\ r.retry = "due"

\* The records a reconcile pass picks up after a restart; remote_prepared and
\* prepared are deliberately absent.
RunnableSource(r) ==
    \/ r.state \in {"queued", "preparing_remote", "launching_remote"}
    \/ r.state \in SourceRetryStates /\ r.retry = "due"
    \/ r.state = "accepted" /\ r.retirement = "pending"

\* Mutant: an interrupted launch is not picked up again.
RecoverableTargetSkipsLaunching(r) ==
    \/ r.state \in {"received", "validating"}
    \/ r.state \in TargetRetryStates /\ r.retry = "due"

RecoverableTarget(r) ==
    \/ r.state \in {"received", "validating", "launching"}
    \/ r.state \in TargetRetryStates /\ r.retry = "due"
=============================================================================
