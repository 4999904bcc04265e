---------------------------- MODULE HandoffProofs ----------------------------
(***************************************************************************)
(* Proofs about Handoff for every set of sessions and acknowledgements and  *)
(* every bound: type correctness, the safety invariants the runs check, the *)
(* transition tables, the two promises that outlast a restart and a failure *)
(* (Durable, Settled), and that Handoff implements HandoffSpec.             *)
(***************************************************************************)
EXTENDS Handoff, TLAPS

(* The inductive invariant.  None of the safety properties is inductive by   *)
(* itself: a step is only harmless because of what the holder of a lock, a   *)
(* reply on its way or a saved marker implies about the other side.          *)

\* What the source operation in progress says about the source record.
SourceLock ==
    /\ op = "prepare" => source.state = "preparing_remote"
    /\ op = "launch" => source.state = "launching_remote"
    /\ op = "verify" => source.state = "accepted"
    /\ op \in {"retire", "closing", "closed"} => source.retirement # "none"

\* What the target operation in progress says about the target record and
\* the session it works on.
TargetLock ==
    /\ work.op = "none" => work = NoWork
    /\ work.op = "prepare" =>
          work.pc \in {"resume", "check"} /\ target.state # Absent
    /\ work.op = "prepare" /\ work.pc = "check" => target.state = "validating"
    /\ work.op = "launch" => target.state = "launching"
    /\ work.op = "launch" /\ work.pc \in {"persist", "record"} =>
          work.session \in Sessions /\ target.locator = NoSession
    /\ work.op = "launch" /\ work.pc \in {"poll", "deliver", "confirm", "commit", "accept"} =>
          work.session \in Sessions /\ target.locator = work.session
    /\ work.op = "launch" /\ work.pc \in {"commit", "accept"} => sent[work.session] > 0

\* The launch marker, in memory or on disk, is evidence of a delivered
\* prompt; acceptance and acknowledgement rest on it.
Evidence ==
    /\ \A s \in Sessions : sess[s].cmd = "launch" => sent[s] > 0
    /\ \A s \in Sessions : saved[s].cmd = "launch" => sent[s] > 0
    /\ target.state = "accepted" => target.locator \in Sessions /\ sent[target.locator] > 0
    /\ target.loaded # NoAck => target.state = "accepted"
    /\ ackers # {} => target.state = "accepted"

\* Only the recorded continuation was prompted, as long as it is recorded.
Exclusive ==
    /\ OneContinuation
    /\ \A s \in Sessions : sent[s] > 0 => target.locator = s \/ target.state = "rejected"

\* Before the grant nothing that belongs to a launch exists anywhere.
Authority ==
    ~granted =>
        /\ source.state \notin {"launching_remote", "launch_retry_wait", "accepted"}
        /\ \A r \in reqs : r.method # "launch"
        /\ target.state \notin LaunchStates
        /\ spawned = {}
        /\ \A s \in Sessions : sent[s] = 0

\* What a reply on its way says about the target record, now and later.
Answers ==
    /\ reply.state = "accepted" =>
          target.state = "accepted" /\ reply.locator = target.locator
    /\ reply.locator # NoSession => reply.state = "accepted"
    /\ reply.loaded # NoAck => target.loaded # NoAck

\* What the source record says about the target record.
Agreement ==
    /\ source.state = "accepted" =>
          target.state = "accepted" /\ source.locator = target.locator
    /\ source.loaded # NoAck => target.loaded # NoAck
    /\ closed # "no" => source.retirement # "none" /\ local.state # "live"

IInv ==
    /\ TypeOK
    /\ RecordsValid
    /\ SourceLock
    /\ TargetLock
    /\ Evidence
    /\ Exclusive
    /\ Authority
    /\ Answers
    /\ Agreement

-----------------------------------------------------------------------------
(* Type correctness.                                                        *)

LEMMA SourceRecordTypes ==
    ASSUME NEW r \in SourceRecord
    PROVE  /\ QueueSource \in SourceRecord
           /\ \A next \in SourceState, l \in Sessions \cup {NoSession} :
                 TransitionSource(r, next, l) \in SourceRecord
           /\ \A a \in Acks \cup {NoAck} : RecordSourceContextLoaded(r, a) \in SourceRecord
           /\ \A mode \in RetirementMode, n \in Nat :
                 RequestSourceRetirement(r, mode, n) \in SourceRecord
           /\ CompleteSourceRetirement(r) \in SourceRecord
           /\ [r EXCEPT !.retry = "due"] \in SourceRecord
<1> USE DEF SourceRecord, SourceState, RetryDeadline, RetirementState, RetirementMode, Absent
<1>1. QueueSource \in SourceRecord
  BY DEF QueueSource, NoSource
<1>2. ASSUME NEW next \in SourceState, NEW l \in Sessions \cup {NoSession}
      PROVE  TransitionSource(r, next, l) \in SourceRecord
  <2> DEFINE deadline == IF next \in SourceRetryStates THEN "later" ELSE "none"
             locator == IF next = "accepted" THEN l ELSE NoSession
  <2>1. deadline \in RetryDeadline /\ locator \in Sessions \cup {NoSession}
    BY <1>2
  <2>2. next \in SourceState \cup {Absent}
    BY <1>2
  <2>3. TransitionSource(r, next, l)
          = [r EXCEPT !.state = next, !.retry = deadline, !.locator = locator]
    BY DEF TransitionSource
  <2> HIDE DEF deadline, locator, SourceState, RetryDeadline
  <2> QED
    BY <2>1, <2>2, <2>3
<1>3. ASSUME NEW a \in Acks \cup {NoAck}
      PROVE  RecordSourceContextLoaded(r, a) \in SourceRecord
  BY DEF RecordSourceContextLoaded
<1>4. ASSUME NEW mode \in RetirementMode, NEW n \in Nat
      PROVE  RequestSourceRetirement(r, mode, n) \in SourceRecord
  BY DEF RequestSourceRetirement
<1>5. CompleteSourceRetirement(r) \in SourceRecord /\ [r EXCEPT !.retry = "due"] \in SourceRecord
  BY DEF CompleteSourceRetirement
<1> QED
  BY <1>1, <1>2, <1>3, <1>4, <1>5

LEMMA TargetRecordTypes ==
    ASSUME NEW r \in TargetRecord
    PROVE  /\ ReceiveTarget(r) \in TargetRecord
           /\ \A next \in TargetState : TransitionTarget(r, next) \in TargetRecord
           /\ \A s \in Sessions \cup {NoSession} : RecordTargetLaunchLocator(r, s) \in TargetRecord
           /\ \A a \in Acks : AcknowledgeTarget(r, a) \in TargetRecord
           /\ handoffStatusDTO(r) \in Reply
           /\ [r EXCEPT !.retry = "due"] \in TargetRecord
<1> USE DEF TargetRecord, TargetState, RetryDeadline, Absent
<1>1. ReceiveTarget(r) \in TargetRecord
  BY DEF ReceiveTarget
<1>2. ASSUME NEW next \in TargetState PROVE TransitionTarget(r, next) \in TargetRecord
  BY DEF TransitionTarget, TargetRetryStates, TargetLocatorStates
<1>3. ASSUME NEW s \in Sessions \cup {NoSession}
      PROVE  RecordTargetLaunchLocator(r, s) \in TargetRecord
  BY DEF RecordTargetLaunchLocator
<1>4. ASSUME NEW a \in Acks PROVE AcknowledgeTarget(r, a) \in TargetRecord
  BY DEF AcknowledgeTarget
<1>5. handoffStatusDTO(r) \in Reply
  BY DEF handoffStatusDTO, Reply, ReplyKinds
<1>6. [r EXCEPT !.retry = "due"] \in TargetRecord
  OBVIOUS
<1> QED
  BY <1>1, <1>2, <1>3, <1>4, <1>5, <1>6

LEMMA CallType ==
    ASSUME ChannelTypeOK, NEW m \in Methods, Call(m)
    PROVE  ChannelTypeOK'
<1>1. [method |-> m, live |-> TRUE] \in Request
  BY DEF Request
<1>2. reqs' \subseteq Request /\ serving' \in BOOLEAN
  BY <1>1 DEF ChannelTypeOK, Call
<1>3. reply' \in Reply
  BY DEF Call, Reply, ReplyKinds, NoReply, Absent
<1> QED
  BY <1>2, <1>3 DEF ChannelTypeOK

LEMMA AbandonType ==
    ASSUME ChannelTypeOK, Abandon
    PROVE  ChannelTypeOK'
<1>1. reqs' \subseteq Request
  BY DEF ChannelTypeOK, Abandon, Request
<1>2. serving' \in BOOLEAN /\ reply' \in Reply
  BY DEF Abandon, Reply, ReplyKinds, NoReply, Absent
<1> QED
  BY <1>1, <1>2 DEF ChannelTypeOK

LEMMA NoReplyType == NoReply \in Reply
  BY DEF NoReply, Reply, ReplyKinds, Absent

LEMMA ErrorReplyType ==
    ASSUME NEW code \in {"permission_denied", "invalid_request", "unrecognized", "internal"}
    PROVE  ErrorReply(code) \in Reply
  BY DEF ErrorReply, NoReply, Reply, ReplyKinds, Absent

\* Every record the source writes after a response has the type of a record.
LEMMA SourceWritesType ==
    ASSUME SourceTypeOK, ChannelTypeOK, NEW r \in SourceRecord, SourceWrites(r)
    PROVE  SourceTypeOK' /\ ChannelTypeOK'
  BY NoReplyType DEF SourceWrites, SourceTypeOK, ChannelTypeOK, Ops

LEMMA SourceStepType ==
    ASSUME SourceTypeOK, ChannelTypeOK, SourceNext
    PROVE  SourceTypeOK' /\ ChannelTypeOK'
<1> USE DEF SourceTypeOK
<1>0. source \in SourceRecord /\ source.locator \in Sessions \cup {NoSession}
  BY DEF SourceRecord
<1>1. CASE SourcePrepare
  BY <1>0, <1>1, SourceRecordTypes DEF SourcePrepare, channelVars, ChannelTypeOK
<1>2. ASSUME NEW force \in BOOLEAN, attempt(force) \/ attemptLaunch(force)
      PROVE  SourceTypeOK' /\ ChannelTypeOK'
  <2>1. source' \in SourceRecord
    BY <1>0, <1>2, SourceRecordTypes DEF attempt, attemptLaunch, SourceState
  <2>2. ChannelTypeOK'
    BY <1>2, CallType DEF attempt, attemptLaunch, Methods
  <2> QED
    BY <1>2, <2>1, <2>2 DEF attempt, attemptLaunch, Ops
<1>3. CASE SourceLaunch
  <2>1. source' \in SourceRecord
    BY <1>0, <1>3, SourceRecordTypes DEF SourceLaunch, SourceState
  <2>2. ChannelTypeOK'
    BY <1>3, CallType DEF SourceLaunch, Methods
  <2> QED
    BY <1>3, <2>1, <2>2 DEF SourceLaunch, Ops
<1>4. CASE SourceVerify
  BY <1>4, CallType DEF SourceVerify, Methods, Ops
<1>5. CASE SourceRetryDue
  BY <1>0, <1>5, SourceRecordTypes DEF SourceRetryDue, channelVars, ChannelTypeOK
<1>6. CASE PrepareReply
  <2>1. \E r \in SourceRecord : SourceWrites(r)
    BY <1>0, <1>6, SourceRecordTypes
       DEF PrepareReply, transitionRetry, transitionFailed, SourceState
  <2> QED
    BY <2>1, SourceWritesType
<1>7. CASE LaunchReply
  <2>1. reply.locator \in Sessions \cup {NoSession}
    BY DEF ChannelTypeOK, Reply
  <2>2. \E r \in SourceRecord : SourceWrites(r)
    BY <1>0, <1>7, <2>1, SourceRecordTypes
       DEF LaunchReply, transitionLaunchRetry, transitionFailed, SourceState
  <2> QED
    BY <2>2, SourceWritesType
<1>8. CASE VerifyReply
  <2>1. reply.loaded \in Acks \cup {NoAck}
    BY DEF ChannelTypeOK, Reply
  <2>2. \E r \in SourceRecord : SourceWrites(r)
    BY <1>0, <1>8, <2>1, SourceRecordTypes DEF VerifyReply
  <2> QED
    BY <2>2, SourceWritesType
<1>9. CASE CallFails
  <2>1. source' \in SourceRecord
    BY <1>0, <1>9, SourceRecordTypes DEF CallFails, SourceState
  <2>2. ChannelTypeOK'
    BY <1>9, AbandonType DEF CallFails
  <2> QED
    BY <1>9, <2>1, <2>2 DEF CallFails, Ops
<1>10. CASE SourceWriteFails
  BY <1>0, <1>10, SourceWritesType DEF SourceWriteFails
<1>11. ASSUME NEW mode \in {"immediate", "after_turn_end"}, Retire(mode)
       PROVE  SourceTypeOK' /\ ChannelTypeOK'
  <2>1. local.turns \in Nat
    BY DEF Local
  <2>2. source' \in SourceRecord
    <3>1. mode \in RetirementMode
      BY DEF RetirementMode
    <3>2. RequestSourceRetirement(source, mode, local.turns) \in SourceRecord
      BY <1>0, <2>1, <3>1, SourceRecordTypes
    <3> QED
      BY <1>0, <1>11, <3>2 DEF Retire
  <2>3. local' \in Local
    BY <1>11 DEF Retire, Local
  <2> QED
    BY <1>11, <2>2, <2>3 DEF Retire, Ops, channelVars, ChannelTypeOK
<1>12. CASE RetirePending
  BY <1>0, <1>12, SourceRecordTypes DEF RetirePending, Ops, channelVars, ChannelTypeOK
<1>13. CASE CloseSource
  <2>1. local' \in Local
    BY <1>13 DEF CloseSource, Local
  <2> QED
    BY <1>13, <2>1 DEF CloseSource, Ops, channelVars, ChannelTypeOK
<1>14. CASE ConfirmClosed
  BY <1>0, <1>14, SourceRecordTypes DEF ConfirmClosed, Ops, channelVars, ChannelTypeOK
<1>15. CASE PromptSubmit \/ TurnEnd \/ LocalExits
  <2>1. \A b \in BOOLEAN : [local EXCEPT !.busy = FALSE, !.ended = b] \in Local
    BY DEF Local
  <2>2. local' \in Local
    <3>1. CASE PromptSubmit
      <4>1. local.turns + 1 \in Nat
        BY DEF Local
      <4>2. \A n \in Nat : [local EXCEPT !.turns = n, !.busy = TRUE] \in Local
        BY DEF Local
      <4> QED
        BY <3>1, <4>1, <4>2 DEF PromptSubmit, LocalChanges
    <3>2. CASE TurnEnd
      <4>1. (source.retirement # "none") \in BOOLEAN
        OBVIOUS
      <4>2. local' = [local EXCEPT !.busy = FALSE, !.ended = source.retirement # "none"]
        BY <3>2, Zenon DEF TurnEnd, LocalChanges
      <4> QED
        BY <2>1, <4>1, <4>2, Zenon
    <3>3. CASE LocalExits
      BY <3>3 DEF LocalExits, LocalChanges, Local
    <3> QED
      BY <1>15, <3>1, <3>2, <3>3
  <2> QED
    BY <1>15, <2>2 DEF PromptSubmit, TurnEnd, LocalExits, LocalChanges, channelVars, ChannelTypeOK
<1>16. CASE SourceCrash
  <2>1. local' \in Local
    BY <1>16 DEF SourceCrash, Local
  <2>2. ChannelTypeOK'
    BY <1>16, AbandonType DEF SourceCrash
  <2> QED
    BY <1>16, <2>1, <2>2 DEF SourceCrash, Ops
<1>17. CASE SourceReconcile
  BY <1>2, <1>17 DEF SourceReconcile, Ops, channelVars, ChannelTypeOK
<1>18. CASE SourceRetry
  BY <1>2, <1>18 DEF SourceRetry
<1> QED
  BY <1>1, <1>3, <1>4, <1>5, <1>6, <1>7, <1>8, <1>9, <1>10, <1>11, <1>12, <1>13, <1>14,
     <1>15, <1>16, <1>17, <1>18 DEF SourceNext

LEMMA TakeType ==
    ASSUME ChannelTypeOK, NEW r, Take(r)
    PROVE  reqs' \subseteq Request
  BY DEF ChannelTypeOK, Take

LEMMA AnswerType ==
    ASSUME ChannelTypeOK, NEW x \in Reply, Answer(x)
    PROVE  serving' \in BOOLEAN /\ reply' \in Reply
  BY DEF ChannelTypeOK, Answer

LEMMA FinishType ==
    ASSUME ChannelTypeOK, NEW r \in TargetRecord, Finish(r)
    PROVE  target' \in TargetRecord /\ work' \in Work /\ serving' \in BOOLEAN /\ reply' \in Reply
<1>1. target' \in TargetRecord /\ work' \in Work
  BY DEF Finish, Work, NoWork
<1>2. Answer(handoffStatusDTO(r))
  BY DEF Finish
<1>3. handoffStatusDTO(r) \in Reply
  BY TargetRecordTypes
<1> QED
  BY <1>1, <1>2, <1>3, AnswerType

LEMMA GotoType ==
    ASSUME ChannelTypeOK, work \in Work, NEW pc \in WorkSteps, Goto(pc)
    PROVE  work' \in Work /\ serving' \in BOOLEAN /\ reply' \in Reply
  BY DEF Goto, Work, ChannelTypeOK

LEMMA SnapshotType ==
    ASSUME NEW table \in [Sessions -> Session]
    PROVE  Snapshot(table) \in [Sessions -> Session]
<1>1. ASSUME NEW s \in Sessions
      PROVE  Snapshot(table)[s] \in Session
  BY DEF Snapshot, Session, NoSess, SessionState, Command
<1> QED
  BY <1>1 DEF Snapshot

LEMMA RestoredType ==
    ASSUME saved \in [Sessions -> Session], NEW seen
    PROVE  Restored(seen) \in [Sessions -> Session]
<1>1. ASSUME NEW s \in Sessions
      PROVE  Restored(seen)[s] \in Session
  BY DEF Restored, Session, NoSess, SessionState, Command
<1> QED
  BY <1>1 DEF Restored

\* The per-ID lock with the launch or the prepare handler on it.
LEMMA WorkType ==
    ASSUME work \in Work
    PROVE  /\ NoWork \in Work
           /\ [NoWork EXCEPT !.op = "prepare", !.pc = "resume"] \in Work
           /\ [NoWork EXCEPT !.op = "launch", !.pc = "revalidate"] \in Work
           /\ \A pc \in WorkSteps, s \in Sessions :
                 [work EXCEPT !.pc = pc, !.session = s] \in Work
  BY DEF Work, NoWork, WorkSteps

LEMMA TargetStepType ==
    ASSUME TargetTypeOK, ChannelTypeOK, TargetNext
    PROVE  TargetTypeOK' /\ ChannelTypeOK'
<1> DEFINE WorkTyped == work' \in Work
           SessionsTyped == /\ sess' \in [Sessions -> Session]
                            /\ saved' \in [Sessions -> Session]
                            /\ panes' \subseteq Sessions
                            /\ spawned' \subseteq Sessions
                            /\ sent' \in [Sessions -> 0 .. MaxPrompts]
                            /\ declared' \subseteq Sessions
           AckersTyped == ackers' \subseteq Acks
           RecordTyped == target' \in TargetRecord
<1>0. /\ target \in TargetRecord
      /\ target.state \in TargetState \cup {Absent}
      /\ target.locator \in Sessions \cup {NoSession}
      /\ work \in Work
      /\ \A r \in reqs : r.live \in BOOLEAN
  BY DEF TargetTypeOK, TargetRecord, ChannelTypeOK, Request
<1>a. ASSUME UNCHANGED sessionVars PROVE SessionsTyped
  BY <1>a DEF TargetTypeOK, sessionVars
<1>b. ASSUME UNCHANGED channelVars PROVE ChannelTypeOK'
  BY <1>b DEF ChannelTypeOK, channelVars
<1>c. ASSUME UNCHANGED ackers PROVE AckersTyped
  BY <1>c DEF TargetTypeOK
<1>d. ASSUME UNCHANGED reqs PROVE reqs' \subseteq Request
  BY <1>d DEF ChannelTypeOK
<1>e. ASSUME WorkTyped, RecordTyped, SessionsTyped, AckersTyped PROVE TargetTypeOK'
  BY <1>e DEF TargetTypeOK
<1>f. ASSUME NEW r, Take(r), UNCHANGED <<serving, targetVars>>, reply' \in Reply
      PROVE  TargetTypeOK' /\ ChannelTypeOK'
  BY <1>f, TakeType DEF TargetTypeOK, targetVars, ChannelTypeOK
<1>g. /\ TransitionTarget(target, "validating") \in TargetRecord
      /\ TransitionTarget(target, "prepared") \in TargetRecord
      /\ TransitionTarget(target, "waiting_assets") \in TargetRecord
      /\ TransitionTarget(target, "launching") \in TargetRecord
      /\ TransitionTarget(target, "launch_waiting_assets") \in TargetRecord
      /\ TransitionTarget(target, "accepted") \in TargetRecord
      /\ TransitionTarget(target, "rejected") \in TargetRecord
  BY <1>0, TargetRecordTypes DEF TargetState
<1>1. ASSUME NEW r \in reqs, PrepareBegin(r)
      PROVE  TargetTypeOK' /\ ChannelTypeOK'
  <2>1. RecordTyped /\ WorkTyped
    BY <1>0, <1>1, TargetRecordTypes, WorkType DEF PrepareBegin
  <2>2. ChannelTypeOK'
    BY <1>0, <1>1, TakeType DEF PrepareBegin, ChannelTypeOK
  <2> QED
    BY <1>1, <1>a, <1>c, <1>e, <2>1, <2>2 DEF PrepareBegin
<1>2. ASSUME NEW r \in reqs, LaunchBegin(r)
      PROVE  TargetTypeOK' /\ ChannelTypeOK'
  <2>1. RecordTyped /\ WorkTyped
    BY <1>0, <1>2, <1>g, WorkType DEF LaunchBegin
  <2>2. handoffStatusDTO(target) \in Reply /\ ErrorReply("invalid_request") \in Reply
    BY <1>0, TargetRecordTypes, ErrorReplyType
  <2>3. reqs' \subseteq Request
    BY <1>2, TakeType DEF LaunchBegin
  <2>4. serving' \in BOOLEAN /\ reply' \in Reply
    BY <1>0, <1>2, <2>2 DEF LaunchBegin, ChannelTypeOK
  <2> QED
    BY <1>2, <1>a, <1>c, <1>e, <2>1, <2>3, <2>4 DEF LaunchBegin, ChannelTypeOK
<1>3. ASSUME NEW r \in reqs, Verify(r)
      PROVE  TargetTypeOK' /\ ChannelTypeOK'
  <2>1. [kind |-> "verification", state |-> "accepted",
         locator |-> target.locator, loaded |-> target.loaded] \in Reply
    BY <1>0 DEF TargetRecord, Reply, ReplyKinds, TargetState
  <2>2. ErrorReply("invalid_request") \in Reply
    BY ErrorReplyType
  <2>3. reply' \in Reply
    BY <1>3, <2>1, <2>2 DEF Verify, ChannelTypeOK
  <2> QED
    BY <1>3, <1>f, <2>3 DEF Verify
<1>4. ASSUME NEW r \in reqs, RequestDenied(r) \/ LaunchUnread(r)
      PROVE  TargetTypeOK' /\ ChannelTypeOK'
  <2>1. reply' \in Reply
    BY <1>4, ErrorReplyType DEF RequestDenied, LaunchUnread, ChannelTypeOK
  <2> QED
    BY <1>4, <1>f, <2>1 DEF RequestDenied, LaunchUnread
<1>h. ASSUME NEW n \in TargetRecord, Finish(n), UNCHANGED <<reqs, sessionVars, ackers>>
      PROVE  TargetTypeOK' /\ ChannelTypeOK'
  BY <1>h, <1>a, <1>c, <1>d, <1>e, FinishType DEF ChannelTypeOK
<1>i. ASSUME NEW pc \in WorkSteps, Goto(pc), RecordTyped, UNCHANGED <<reqs, sessionVars, ackers>>
      PROVE  TargetTypeOK' /\ ChannelTypeOK'
  BY <1>0, <1>i, <1>a, <1>c, <1>d, <1>e, GotoType DEF ChannelTypeOK
<1>5. CASE PrepareResume
  BY <1>0, <1>5, <1>g, <1>h, <1>i DEF PrepareResume, WorkSteps
<1>6. CASE PrepareVerdict \/ PrepareWaits
  BY <1>6, <1>g, <1>h DEF PrepareVerdict, PrepareWaits, reject, waitForAssets
<1>7. CASE LaunchRevalidate
  BY <1>0, <1>7, <1>g, <1>h, <1>i DEF LaunchRevalidate, reject, waitForLaunch, WorkSteps
<1>8. CASE LaunchReuse
  <2>1. CASE reject
    BY <1>8, <2>1, <1>g, <1>h DEF LaunchReuse, reject
  <2>2. CASE ~reject
    <3>1. target.locator \in Sessions
      BY <1>0, <1>8 DEF LaunchReuse
    <3>2. WorkTyped /\ RecordTyped
      BY <1>0, <1>8, <2>2, <3>1, WorkType DEF LaunchReuse, WorkSteps
    <3>3. ChannelTypeOK'
      BY <1>8, <2>2 DEF LaunchReuse, ChannelTypeOK
    <3> QED
      BY <1>8, <1>a, <1>c, <1>e, <3>2, <3>3 DEF LaunchReuse
  <2> QED
    BY <2>1, <2>2
<1>9. CASE LaunchCreateFails
  BY <1>9, <1>g, <1>h DEF LaunchCreateFails, waitForLaunch
<1>10. ASSUME NEW s \in Sessions, LaunchFind(s)
       PROVE  TargetTypeOK' /\ ChannelTypeOK'
  <2>1. WorkTyped /\ RecordTyped
    BY <1>0, <1>10, WorkType DEF LaunchFind, WorkSteps
  <2> QED
    BY <1>10, <1>a, <1>b, <1>c, <1>e, <2>1 DEF LaunchFind
<1>11. ASSUME NEW s \in Sessions, LaunchCreate(s)
       PROVE  TargetTypeOK' /\ ChannelTypeOK'
  <2>1. WorkTyped /\ RecordTyped
    BY <1>0, <1>11, WorkType DEF LaunchCreate, WorkSteps
  <2>2. sess' \in [Sessions -> Session]
    BY <1>11 DEF LaunchCreate, TargetTypeOK, Session, SessionState, Command
  <2>3. saved' \in [Sessions -> Session]
    BY <1>11, <2>2, SnapshotType DEF LaunchCreate, TargetTypeOK
  <2>4. SessionsTyped
    BY <1>11, <2>2, <2>3 DEF LaunchCreate, TargetTypeOK
  <2> QED
    BY <1>11, <1>b, <1>c, <1>e, <2>1, <2>4 DEF LaunchCreate
<1>12. CASE LaunchPersist \/ LaunchCommit
  <2>1. WorkTyped /\ RecordTyped /\ serving' \in BOOLEAN /\ reply' \in Reply
    BY <1>0, <1>12, <1>g, FinishType, GotoType DEF LaunchPersist, LaunchCommit, waitForLaunch, WorkSteps
  <2>2. saved' \in [Sessions -> Session]
    BY <1>12, SnapshotType DEF LaunchPersist, LaunchCommit, TargetTypeOK
  <2>3. SessionsTyped
    BY <1>12, <2>2 DEF LaunchPersist, LaunchCommit, TargetTypeOK
  <2> QED
    BY <1>12, <1>c, <1>d, <1>e, <2>1, <2>3 DEF LaunchPersist, LaunchCommit, ChannelTypeOK
<1>13. CASE LaunchRecordLocator
  <2>1. work.session \in Sessions \cup {NoSession}
    BY <1>0 DEF Work
  <2>2. RecordTyped
    BY <1>0, <1>13, <2>1, TargetRecordTypes DEF LaunchRecordLocator
  <2> QED
    BY <1>13, <1>i, <2>2 DEF LaunchRecordLocator, WorkSteps
<1>14. CASE LaunchPoll
  BY <1>0, <1>14, <1>g, <1>h, <1>i DEF LaunchPoll, reject, WorkSteps
<1>16. CASE LaunchConfirm
  BY <1>0, <1>16, <1>g, <1>h, <1>i DEF LaunchConfirm, reject, WorkSteps
<1>17. CASE LaunchAccept
  BY <1>17, <1>g, <1>h DEF LaunchAccept
<1>18. CASE LaunchDeliver
  <2>1. WorkTyped /\ RecordTyped /\ serving' \in BOOLEAN /\ reply' \in Reply
    <3>1. CASE Goto("confirm") /\ UNCHANGED target
      BY <1>0, <3>1, GotoType DEF WorkSteps
    <3>2. CASE waitForLaunch
      BY <3>2, <1>g, FinishType DEF waitForLaunch
    <3>3. CASE work' = NoWork /\ Answer(ErrorReply("internal")) /\ UNCHANGED target
      BY <1>0, <3>3, AnswerType, ErrorReplyType, WorkType
    <3> QED
      BY <1>18, <3>1, <3>2, <3>3 DEF LaunchDeliver
  <2>2. sess' \in [Sessions -> Session]
    <3>1. CASE work.session \in Sessions
      <4>1. [state |-> "working", cmd |-> "launch"] \in Session
        BY DEF Session, SessionState, Command
      <4>2. [sess EXCEPT ![work.session].state = "stuck"] \in [Sessions -> Session]
        BY <3>1 DEF TargetTypeOK, Session, SessionState
      <4>3. [sess EXCEPT ![work.session] = [state |-> "working", cmd |-> "launch"]] \in [Sessions -> Session]
        BY <3>1, <4>1 DEF TargetTypeOK
      <4> QED
        BY <1>18, <4>2, <4>3 DEF LaunchDeliver
    <3>2. CASE work.session \notin Sessions
      BY <1>18, <3>2 DEF LaunchDeliver, TargetTypeOK
    <3> QED
      BY <3>1, <3>2
  <2>3. sent' \in [Sessions -> 0 .. MaxPrompts]
    <3>1. ASSUME Submit(work.session)
          PROVE  sent' \in [Sessions -> 0 .. MaxPrompts]
      BY <3>1, MaxPromptsAssumption DEF Submit, TargetTypeOK
    <3>2. ASSUME UNCHANGED sent
          PROVE  sent' \in [Sessions -> 0 .. MaxPrompts]
      BY <3>2 DEF TargetTypeOK
    <3> QED
      BY <1>18, <3>1, <3>2 DEF LaunchDeliver
  <2>4. SessionsTyped
    BY <1>18, <2>2, <2>3 DEF LaunchDeliver, TargetTypeOK
  <2> QED
    BY <1>18, <1>c, <1>d, <1>e, <2>1, <2>4 DEF LaunchDeliver, ChannelTypeOK
<1>19. CASE WorkAborts
  <2>1. WorkTyped /\ RecordTyped /\ serving' \in BOOLEAN /\ reply' \in Reply
    BY <1>0, <1>19, AnswerType, ErrorReplyType, WorkType DEF WorkAborts
  <2> QED
    BY <1>19, <1>a, <1>c, <1>d, <1>e, <2>1 DEF WorkAborts, ChannelTypeOK
<1>20. CASE Reconcile
  <2>1. WorkTyped /\ RecordTyped
    BY <1>0, <1>20, <1>g, WorkType DEF Reconcile
  <2> QED
    BY <1>20, <1>a, <1>b, <1>c, <1>e, <2>1 DEF Reconcile
<1>21. CASE TargetRetryDue
  <2>1. WorkTyped /\ RecordTyped
    BY <1>0, <1>21, TargetRecordTypes DEF TargetRetryDue
  <2> QED
    BY <1>21, <1>a, <1>b, <1>c, <1>e, <2>1 DEF TargetRetryDue
<1>22. ASSUME NEW a \in Acks, AckRead(a) \/ AckWrite(a)
       PROVE  TargetTypeOK' /\ ChannelTypeOK'
  <2>1. WorkTyped /\ RecordTyped
    BY <1>0, <1>22, TargetRecordTypes DEF AckRead, AckWrite
  <2>2. AckersTyped
    BY <1>22 DEF AckRead, AckWrite, TargetTypeOK
  <2> QED
    BY <1>22, <1>a, <1>b, <1>e, <2>1, <2>2 DEF AckRead, AckWrite
<1>j. ASSUME NEW s \in Sessions, NEW state \in SessionState, SetSess(s, state)
      PROVE  TargetTypeOK' /\ ChannelTypeOK'
  <2>1. sess' \in [Sessions -> Session]
    BY <1>j DEF SetSess, TargetTypeOK, Session
  <2> QED
    BY <1>0, <1>j, <1>b, <2>1 DEF SetSess, TargetTypeOK
<1>23. ASSUME NEW s \in Sessions, HandshakeEnds(s) \/ MonitorTick(s) \/ OtherPromptFails(s)
       PROVE  TargetTypeOK' /\ ChannelTypeOK'
  <2>1. ASSUME PaneNotFound(s) PROVE TargetTypeOK' /\ ChannelTypeOK'
    <3>1. sess' \in [Sessions -> Session]
      BY <2>1 DEF PaneNotFound, TargetTypeOK, Session, SessionState
    <3> QED
      BY <1>0, <1>b, <2>1, <3>1 DEF PaneNotFound, TargetTypeOK
  <2> QED
    BY <1>23, <1>j, <2>1 DEF HandshakeEnds, MonitorTick, OtherPromptFails, SessionState
<1>24. ASSUME NEW s \in Sessions, PaneExits(s)
       PROVE  TargetTypeOK' /\ ChannelTypeOK'
  BY <1>24, <1>b DEF PaneExits, TargetTypeOK
<1>25. ASSUME NEW s \in Sessions, OtherPrompt(s)
       PROVE  TargetTypeOK' /\ ChannelTypeOK'
  <2>1. sess' \in [Sessions -> Session]
    BY <1>25 DEF OtherPrompt, TargetTypeOK, Session, SessionState, Command
  <2> QED
    BY <1>25, <1>b, <2>1 DEF OtherPrompt, TargetTypeOK
<1>26. CASE PersistSessions
  <2>1. saved' \in [Sessions -> Session]
    BY <1>26, SnapshotType DEF PersistSessions, TargetTypeOK
  <2> QED
    BY <1>26, <1>b, <2>1 DEF PersistSessions, TargetTypeOK
<1>27. CASE TargetCrash
  <2>1. sess' \in [Sessions -> Session] /\ WorkTyped
    BY <1>0, <1>27, RestoredType, WorkType DEF TargetCrash, TargetTypeOK
  <2>2. ChannelTypeOK'
    BY <1>27 DEF TargetCrash, ChannelTypeOK
  <2> QED
    BY <1>27, <2>1, <2>2 DEF TargetCrash, TargetTypeOK
<1> QED
  BY <1>1, <1>2, <1>3, <1>4, <1>5, <1>6, <1>7, <1>8, <1>9, <1>10, <1>11, <1>12, <1>13, <1>14,
     <1>16, <1>17, <1>18, <1>19, <1>20, <1>21, <1>22, <1>23, <1>24, <1>25, <1>26, <1>27
     DEF TargetNext

LEMMA InitType == Init => TypeOK
<1> SUFFICES ASSUME Init PROVE TypeOK
  OBVIOUS
<1>1. ChannelTypeOK
  BY NoReplyType DEF Init, ChannelInit, ChannelTypeOK
<1>2. SourceTypeOK
  BY DEF Init, SourceInit, SourceTypeOK, NoSource, SourceRecord, RetryDeadline,
         RetirementState, RetirementMode, Ops, Local, Absent
<1>3. NoTarget \in TargetRecord /\ NoWork \in Work /\ NoSess \in Session
  BY DEF NoTarget, TargetRecord, RetryDeadline, Absent, NoWork, Work, NoSess,
         Session, SessionState, Command
<1>4. TargetTypeOK
  BY <1>3, MaxPromptsAssumption DEF Init, TargetInit, TargetTypeOK
<1> QED
  BY <1>1, <1>2, <1>4 DEF TypeOK

LEMMA NextType == TypeOK /\ [Next]_vars => TypeOK'
<1> SUFFICES ASSUME TypeOK, [Next]_vars PROVE TypeOK'
  OBVIOUS
<1> USE DEF TypeOK
<1>1. CASE SourceNext /\ UNCHANGED targetVars
  BY <1>1, SourceStepType DEF TargetTypeOK, targetVars
<1>2. CASE TargetNext /\ UNCHANGED sourceVars
  BY <1>2, TargetStepType DEF SourceTypeOK, sourceVars
<1>3. CASE (\E r \in reqs : RequestLost(r)) /\ UNCHANGED <<sourceVars, targetVars>>
  <2>1. ChannelTypeOK'
    BY <1>3, TakeType DEF RequestLost, ChannelTypeOK
  <2> QED
    BY <1>3, <2>1 DEF SourceTypeOK, sourceVars, TargetTypeOK, targetVars
<1>4. CASE UNCHANGED vars
  BY <1>4 DEF vars, channelVars, sourceVars, targetVars, ChannelTypeOK, SourceTypeOK, TargetTypeOK
<1> QED
  BY <1>1, <1>2, <1>3, <1>4 DEF Next

\* Every variable of the two daemons and of the path between them keeps its
\* type in every reachable state, whatever the sessions and bounds.
THEOREM TypeCorrect == Spec => []TypeOK
  BY InitType, NextType, PTL DEF Spec

-----------------------------------------------------------------------------
(* The inductive invariant.                                                 *)

LEMMA InitInv == Init => IInv
<1> SUFFICES ASSUME Init PROVE IInv
  OBVIOUS
<1> USE DEF Init, ChannelInit, SourceInit, TargetInit
<1>1. TypeOK
  BY InitType
<1>2. RecordsValid
  BY DEF RecordsValid, ValidSource, ValidTarget, NoSource, NoTarget, Absent,
         SourceRetryStates, TargetRetryStates, TargetLocatorStates
<1>3. SourceLock /\ TargetLock
  BY DEF SourceLock, TargetLock, NoWork
<1>4. Evidence /\ Exclusive
  <2>1. \A s \in Sessions : sess[s].cmd = "none" /\ saved[s].cmd = "none" /\ sent[s] = 0
    <3>1. NoSess.cmd = "none"
      BY DEF NoSess
    <3>2. \A s \in Sessions : sess[s] = NoSess /\ saved[s] = NoSess /\ sent[s] = 0
      OBVIOUS
    <3> QED
      BY <3>1, <3>2
  <2>2. target.state = "absent" /\ target.loaded = NoAck /\ ackers = {}
    BY DEF NoTarget, Absent
  <2> HIDE DEF Init, ChannelInit, SourceInit, TargetInit
  <2>3. ASSUME NEW s \in Sessions PROVE ~(sent[s] > 0)
    <3>1. sent[s] = 0
      BY <2>1
    <3> QED
      BY <3>1
  <2>4. Evidence
    BY <2>1, <2>2 DEF Evidence
  <2>5. Exclusive
    BY <2>3 DEF Exclusive, OneContinuation
  <2> QED
    BY <2>4, <2>5
<1>5. Authority
  BY DEF Authority, NoSource, NoTarget, Absent, LaunchStates
<1>6. Answers /\ Agreement
  BY DEF Answers, Agreement, NoReply, NoSource, Absent
<1> QED
  BY <1>1, <1>2, <1>3, <1>4, <1>5, <1>6 DEF IInv

\* A call leaves the requests that are not its own as they are, and there is
\* no response yet.
LEMMA CallEffect ==
    ASSUME NEW m \in Methods, Call(m)
    PROVE  /\ \A r \in reqs' : r.method # m => r \in reqs
           /\ reply' = NoReply
  BY DEF Call

LEMMA AbandonEffect ==
    ASSUME ChannelTypeOK, Abandon
    PROVE  /\ \A r \in reqs' : \E q \in reqs : q.method = r.method
           /\ reply' = NoReply
<1>1. ASSUME NEW r \in reqs'
      PROVE  \E q \in reqs : q.method = r.method
  <2>1. \A q \in reqs : q \in Request
    BY DEF ChannelTypeOK
  <2> QED
    BY <1>1, <2>1 DEF Abandon, Request
<1> QED
  BY <1>1 DEF Abandon

\* The invariant as far as a step of the source can disturb it.
LEMMA SourceStepInv ==
    ASSUME IInv, SourceNext, UNCHANGED targetVars
    PROVE  ValidSource(source)' /\ SourceLock' /\ Authority' /\ Answers' /\ Agreement'
<1> USE DEF IInv
<1>0. /\ source \in SourceRecord
      /\ ValidSource(source)
      /\ target' = target /\ spawned' = spawned /\ sent' = sent
  BY DEF TypeOK, SourceTypeOK, RecordsValid, targetVars
<1>n. NoReply.state # "accepted" /\ NoReply.locator = NoSession /\ NoReply.loaded = NoAck
  BY DEF NoReply, Absent
<1>1. CASE SourcePrepare
  <2>1. source' = QueueSource /\ op' = op /\ granted' = granted /\ closed' = closed
        /\ reqs' = reqs /\ reply' = reply /\ local' = local
    BY <1>1 DEF SourcePrepare, channelVars
  <2>2. source.retirement = "none" /\ source.state = "absent"
    BY <1>0, <1>1 DEF SourcePrepare, ValidSource, Absent
  <2>3. ValidSource(source)'
    BY <2>1 DEF ValidSource, QueueSource, NoSource, SourceRetryStates
  <2>4. SourceLock' /\ Agreement'
    BY <1>0, <2>1, <2>2 DEF SourceLock, QueueSource, NoSource, Agreement
  <2>5. Authority' /\ Answers'
    BY <1>0, <2>1 DEF Authority, Answers, QueueSource, NoSource, LaunchStates
  <2> QED
    BY <2>3, <2>4, <2>5
<1>2. ASSUME NEW force \in BOOLEAN, attempt(force)
      PROVE  ValidSource(source)' /\ SourceLock' /\ Authority' /\ Answers' /\ Agreement'
  <2>1. /\ source'.state = "preparing_remote" /\ source'.retry = "none"
        /\ source'.locator = NoSession
        /\ source'.loaded = source.loaded /\ source'.mode = source.mode
        /\ source'.retirement = source.retirement
    BY <1>0, <1>2 DEF attempt, TransitionSource, SourceRecord, ValidSource, SourceRetryStates
  <2>2. source.state \in {"queued", "retry_wait", "preparing_remote"}
    BY <1>2 DEF attempt
  <2>3. ValidSource(source)'
    BY <1>0, <2>1, <2>2 DEF ValidSource, SourceRetryStates
  <2>4. op' = "prepare" /\ granted' = granted /\ closed' = closed /\ local' = local
    BY <1>2 DEF attempt
  <2>5. SourceLock'
    BY <2>1, <2>4 DEF SourceLock
  <2>6. (\A r \in reqs' : r.method # "prepare" => r \in reqs) /\ reply' = NoReply
    BY <1>2, CallEffect DEF attempt, Methods
  <2>7. Authority'
    BY <1>0, <2>1, <2>4, <2>6 DEF Authority
  <2>8. Answers'
    BY <1>0, <1>n, <2>6 DEF Answers
  <2>9. Agreement'
    BY <1>0, <2>1, <2>4 DEF Agreement
  <2> QED
    BY <2>3, <2>5, <2>7, <2>8, <2>9
<1>3. ASSUME \/ SourceLaunch
             \/ \E force \in BOOLEAN : attemptLaunch(force)
      PROVE  ValidSource(source)' /\ SourceLock' /\ Authority' /\ Answers' /\ Agreement'
  <2>1. source.state \in {"remote_prepared", "launching_remote", "launch_retry_wait"}
    BY <1>3 DEF attemptLaunch, SourceLaunch
  <2>2. /\ source'.state = "launching_remote" /\ source'.retry = "none"
        /\ source'.locator = NoSession
        /\ source'.loaded = source.loaded /\ source'.mode = source.mode
        /\ source'.retirement = source.retirement
    BY <1>0, <1>3 DEF attemptLaunch, SourceLaunch, TransitionSource, SourceRecord, ValidSource, SourceRetryStates
  <2>3. ValidSource(source)'
    BY <1>0, <2>1, <2>2 DEF ValidSource, SourceRetryStates
  <2>4. op' = "launch" /\ closed' = closed /\ local' = local /\ reply' = NoReply
    BY <1>3, CallEffect DEF attemptLaunch, SourceLaunch, Methods
  <2>5. SourceLock' /\ Agreement' /\ Answers'
    BY <1>0, <1>n, <2>2, <2>4 DEF SourceLock, Agreement, Answers
  <2>6. granted'
    <3>1. CASE SourceLaunch
      BY <3>1, Zenon DEF SourceLaunch
    <3>2. ASSUME NEW force \in BOOLEAN, attemptLaunch(force)
          PROVE  granted'
      <4>1. source.state \in {"launching_remote", "launch_retry_wait"} /\ granted' = granted
        BY <3>2 DEF attemptLaunch
      <4> QED
        BY <4>1 DEF Authority
    <3> QED
      BY <1>3, <3>1, <3>2
  <2> QED
    BY <2>3, <2>5, <2>6 DEF Authority
<1>4. CASE SourceVerify
  <2>1. /\ source' = source /\ source.state = "accepted" /\ op' = "verify"
        /\ closed' = closed /\ local' = local /\ granted' = granted
        /\ reply' = NoReply
    BY <1>4, CallEffect DEF SourceVerify, Methods
  <2>2. SourceLock' /\ Agreement' /\ Answers'
    BY <1>0, <1>n, <2>1 DEF SourceLock, Agreement, Answers
  <2>3. granted
    BY <2>1 DEF Authority
  <2> QED
    BY <1>0, <2>1, <2>2, <2>3 DEF Authority, ValidSource
<1>5. CASE SourceRetryDue
  <2>1. /\ source' = [source EXCEPT !.retry = "due"] /\ source.retry = "later" /\ op' = op
        /\ closed' = closed /\ local' = local /\ granted' = granted
        /\ reply' = reply /\ reqs' = reqs
    BY <1>5 DEF SourceRetryDue, channelVars
  <2>2. /\ source'.state = source.state /\ source'.locator = source.locator
        /\ source'.loaded = source.loaded /\ source'.mode = source.mode
        /\ source'.retirement = source.retirement /\ source'.retry = "due"
    BY <1>0, <2>1 DEF SourceRecord
  <2>3. ValidSource(source)'
    BY <1>0, <2>1, <2>2 DEF ValidSource
  <2>4. SourceLock' /\ Agreement' /\ Answers' /\ Authority'
    BY <1>0, <2>1, <2>2 DEF SourceLock, Agreement, Answers, Authority
  <2> QED
    BY <2>3, <2>4
\* What a record written at the end of a call has to satisfy.
<1>w. ASSUME NEW r, SourceWrites(r), ValidSource(r),
             ~granted => r.state \notin {"launching_remote", "launch_retry_wait", "accepted"},
             r.state = "accepted" => target.state = "accepted" /\ r.locator = target.locator,
             r.loaded # NoAck => target.loaded # NoAck,
             source.retirement # "none" => r.retirement # "none"
      PROVE  ValidSource(source)' /\ SourceLock' /\ Authority' /\ Answers' /\ Agreement'
  <2>1. /\ source' = r /\ op' = "none" /\ reply' = NoReply /\ reqs' = reqs
        /\ local' = local /\ granted' = granted /\ closed' = closed
    BY <1>w DEF SourceWrites
  <2>2. ValidSource(source)' /\ SourceLock'
    BY <1>w, <2>1 DEF ValidSource, SourceLock
  <2>3. Authority' /\ Answers' /\ Agreement'
    BY <1>0, <1>n, <1>w, <2>1 DEF Authority, Answers, Agreement
  <2> QED
    BY <2>2, <2>3
\* Giving up and waiting: the record falls back to a state that claims nothing.
<1>t. ASSUME NEW next \in {"remote_prepared", "retry_wait", "launch_retry_wait", "failed"},
             source.state \in {"preparing_remote", "launching_remote"},
             next = "launch_retry_wait" => source.state = "launching_remote",
             SourceWrites(TransitionSource(source, next, NoSession))
      PROVE  ValidSource(source)' /\ SourceLock' /\ Authority' /\ Answers' /\ Agreement'
  <2> DEFINE r == TransitionSource(source, next, NoSession)
  <2>1. /\ r.state = next /\ r.locator = NoSession /\ r.loaded = source.loaded
        /\ r.retirement = source.retirement /\ r.mode = source.mode
        /\ r.retry = IF next \in SourceRetryStates THEN "later" ELSE "none"
    BY <1>0 DEF TransitionSource, SourceRecord
  <2>2. source.loaded = NoAck /\ source.retirement = "none"
    BY <1>0, <1>t DEF ValidSource
  <2>3. ValidSource(r)
    BY <1>0, <1>t, <2>1, <2>2 DEF ValidSource, SourceRetryStates
  <2>4. ~granted => r.state \notin {"launching_remote", "launch_retry_wait", "accepted"}
    BY <1>t, <2>1 DEF Authority
  <2> QED
    BY <1>t, <1>w, <2>1, <2>2, <2>3, <2>4
<1>6. CASE PrepareReply
  <2>1. source.state = "preparing_remote"
    BY <1>6 DEF PrepareReply, SourceLock
  <2> QED
    BY <1>6, <1>t, <2>1 DEF PrepareReply, transitionRetry, transitionFailed
<1>7. CASE LaunchReply
  <2>1. source.state = "launching_remote"
    BY <1>7 DEF LaunchReply, SourceLock
  <2>2. CASE /\ reply.state = "accepted" /\ reply.locator # NoSession
             /\ SourceWrites(TransitionSource(source, "accepted", reply.locator))
    <3> DEFINE r == TransitionSource(source, "accepted", reply.locator)
    <3>1. /\ r.state = "accepted" /\ r.locator = reply.locator /\ r.loaded = source.loaded
          /\ r.retirement = source.retirement /\ r.mode = source.mode /\ r.retry = "none"
      BY <1>0 DEF TransitionSource, SourceRecord, SourceRetryStates
    <3>2. source.loaded = NoAck /\ source.retirement = "none"
      BY <1>0, <2>1 DEF ValidSource
    <3>3. ValidSource(r)
      BY <1>0, <2>2, <3>1, <3>2 DEF ValidSource, SourceRetryStates
    <3>4. granted
      BY <2>1 DEF Authority
    <3>5. target.state = "accepted" /\ r.locator = target.locator
      BY <2>2, <3>1 DEF Answers
    <3> QED
      BY <1>w, <2>2, <3>1, <3>2, <3>3, <3>4, <3>5
  <2>3. CASE transitionLaunchRetry \/ transitionFailed
    BY <1>t, <2>1, <2>3 DEF transitionLaunchRetry, transitionFailed
  <2> QED
    BY <1>7, <2>2, <2>3 DEF LaunchReply
<1>8. CASE VerifyReply
  <2>1. source.state = "accepted"
    BY <1>8 DEF VerifyReply, SourceLock
  <2>2. CASE SourceWrites(source)
    BY <1>0, <1>w, <2>2 DEF Authority, Agreement
  <2>3. CASE reply.loaded # NoAck /\ SourceWrites(RecordSourceContextLoaded(source, reply.loaded))
    <3> DEFINE r == RecordSourceContextLoaded(source, reply.loaded)
    <3>1. /\ r.state = source.state /\ r.locator = source.locator /\ r.loaded # NoAck
          /\ r.retirement = source.retirement /\ r.mode = source.mode /\ r.retry = source.retry
      BY <1>0, <2>3 DEF RecordSourceContextLoaded, SourceRecord
    <3>2. ValidSource(r)
      BY <1>0, <2>1, <3>1 DEF ValidSource
    <3>3. target.loaded # NoAck
      BY <2>3 DEF Answers
    <3> QED
      BY <1>w, <2>3, <3>1, <3>2, <3>3 DEF Authority, Agreement
  <2> QED
    BY <1>8, <2>2, <2>3 DEF VerifyReply
<1>10. CASE SourceWriteFails
  BY <1>0, <1>10, <1>w DEF SourceWriteFails, Authority, Agreement
<1>9. CASE CallFails
  <2>1. /\ op' = "none" /\ local' = local /\ granted' = granted /\ closed' = closed
        /\ op \in {"prepare", "launch", "verify"}
    BY <1>9 DEF CallFails
  <2>2. (\A r \in reqs' : \E q \in reqs : q.method = r.method) /\ reply' = NoReply
    BY <1>9, AbandonEffect DEF CallFails, TypeOK
  <2>3. CASE op = "verify"
    <3>1. source' = source
      BY <1>9, <2>3 DEF CallFails
    <3> QED
      BY <1>0, <1>n, <2>1, <2>2, <3>1 DEF SourceLock, Authority, Answers, Agreement, ValidSource
  <2>4. CASE op \in {"prepare", "launch"}
    <3>1. source.state = IF op = "prepare" THEN "preparing_remote" ELSE "launching_remote"
      BY <2>4 DEF SourceLock
    <3>2. source' = TransitionSource(source, IF op = "prepare" THEN "retry_wait" ELSE "launch_retry_wait", NoSession)
      BY <1>9, <2>4 DEF CallFails
    <3>3. /\ source'.state = IF op = "prepare" THEN "retry_wait" ELSE "launch_retry_wait"
          /\ source'.locator = NoSession /\ source'.loaded = source.loaded
          /\ source'.retirement = source.retirement /\ source'.mode = source.mode
          /\ source'.retry = "later"
      BY <1>0, <3>2 DEF TransitionSource, SourceRecord, SourceRetryStates
    <3>4. ValidSource(source)'
      BY <1>0, <3>1, <3>3 DEF ValidSource, SourceRetryStates
    <3>5. SourceLock' /\ Answers' /\ Agreement'
      BY <1>0, <1>n, <2>1, <2>2, <3>3 DEF SourceLock, Answers, Agreement
    <3>6. Authority'
      BY <1>0, <2>1, <2>2, <3>1, <3>3 DEF Authority
    <3> QED
      BY <3>4, <3>5, <3>6
  <2> QED
    BY <2>1, <2>3, <2>4
<1>11. ASSUME NEW mode \in {"immediate", "after_turn_end"}, Retire(mode)
       PROVE  ValidSource(source)' /\ SourceLock' /\ Authority' /\ Answers' /\ Agreement'
  <2>1. /\ source.state = "accepted" /\ source.loaded # NoAck
        /\ reqs' = reqs /\ reply' = reply /\ granted' = granted /\ closed' = closed
        /\ op' \in {"none", "retire"}
    BY <1>11 DEF Retire, RetirementAllowed, channelVars
  <2>2. /\ source'.state = source.state /\ source'.locator = source.locator
        /\ source'.loaded = source.loaded /\ source'.retry = source.retry
        /\ source'.retirement # "none" /\ source'.mode # "none"
    BY <1>0, <1>11 DEF Retire, RequestSourceRetirement, SourceRecord, ValidSource
  <2>3. ValidSource(source)'
    BY <1>0, <2>1, <2>2 DEF ValidSource
  <2>4. local'.state = local.state
    BY <1>11 DEF Retire, TypeOK, SourceTypeOK, Local
  <2>5. SourceLock' /\ Authority' /\ Answers' /\ Agreement'
    BY <1>0, <2>1, <2>2, <2>4 DEF SourceLock, Authority, Answers, Agreement
  <2> QED
    BY <2>3, <2>5
\* A source step that leaves the record alone or completes its retirement.
<1>r. ASSUME source' \in {source, CompleteSourceRetirement(source)},
             source' # source => source.retirement # "none",
             UNCHANGED <<channelVars, granted>>, op' \in {"none", "retire", "closing", "closed", op},
             op' \in {"retire", "closing", "closed"} => source.retirement # "none",
             closed' # "no" => source.retirement # "none" /\ local'.state # "live"
      PROVE  ValidSource(source)' /\ SourceLock' /\ Authority' /\ Answers' /\ Agreement'
  <2>1. /\ source'.state = source.state /\ source'.locator = source.locator
        /\ source'.loaded = source.loaded /\ source'.retry = source.retry
        /\ source'.mode = source.mode
        /\ source'.retirement # source.retirement =>
              source'.retirement # "none" /\ source.retirement # "none"
    BY <1>0, <1>r DEF CompleteSourceRetirement, SourceRecord
  <2>2. ValidSource(source)'
    BY <1>0, <2>1 DEF ValidSource
  <2>3. reqs' = reqs /\ reply' = reply /\ granted' = granted
    BY <1>r DEF channelVars
  <2>4. SourceLock' /\ Authority' /\ Answers' /\ Agreement'
    BY <1>0, <1>r, <2>1, <2>3 DEF SourceLock, Authority, Answers, Agreement
  <2> QED
    BY <2>2, <2>4
<1>12. CASE RetirePending
  <2>1. source.retirement # "none"
    BY <1>12 DEF RetirePending, SourceLock
  <2>2. closed' = closed /\ local' = local /\ op' \in {"none", "closing"}
    BY <1>12 DEF RetirePending
  <2> QED
    BY <1>12, <1>r, <2>1, <2>2 DEF RetirePending, Agreement
<1>13. CASE CloseSource
  <2>1. source.retirement # "none"
    BY <1>13 DEF CloseSource, SourceLock
  <2>2. closed' # "no" => local'.state # "live"
    BY <1>13 DEF CloseSource, Agreement, TypeOK, SourceTypeOK, Local
  <2> QED
    BY <1>13, <1>r, <2>1, <2>2 DEF CloseSource
<1>14. CASE ConfirmClosed
  <2>1. source.retirement # "none"
    BY <1>14 DEF ConfirmClosed, SourceLock
  <2> QED
    BY <1>14, <1>r, <2>1 DEF ConfirmClosed, Agreement
<1>15. CASE PromptSubmit \/ TurnEnd \/ LocalExits
  <2>1. local.state = "live" /\ UNCHANGED <<channelVars, source, op, granted, closed>>
    BY <1>15, Zenon DEF PromptSubmit, TurnEnd, LocalExits, LocalChanges
  <2>2. closed = "no"
    BY <2>1 DEF Agreement
  <2>3. op \in {"retire", "closing", "closed"} => source.retirement # "none"
    BY DEF SourceLock
  <2> QED
    BY <1>r, <2>1, <2>2, <2>3
<1>16. CASE SourceCrash
  <2>1. source' = source /\ op' = "none" /\ granted' = granted /\ closed' = closed
    BY <1>16 DEF SourceCrash
  <2>2. local'.state # "live" \/ local.state = "live"
    BY <1>16 DEF SourceCrash, TypeOK, SourceTypeOK, Local
  <2>3. (\A r \in reqs' : \E q \in reqs : q.method = r.method) /\ reply' = NoReply
    BY <1>16, AbandonEffect DEF SourceCrash, TypeOK
  <2> QED
    BY <1>0, <1>n, <2>1, <2>2, <2>3 DEF SourceLock, Authority, Answers, Agreement, ValidSource
<1>17. CASE SourceReconcile
  <2>1. CASE /\ op = "none" /\ source.state = "accepted" /\ op' = "retire"
             /\ UNCHANGED <<channelVars, source, local, granted, closed>>
    <3>1. source.retirement # "none"
      BY <1>17, <2>1 DEF SourceReconcile, RunnableSource, SourceRetryStates
    <3> QED
      BY <1>r, <2>1, <3>1 DEF Agreement
  <2> QED
    BY <1>2, <1>3, <1>17, <2>1 DEF SourceReconcile
<1>18. CASE SourceRetry
  BY <1>2, <1>3, <1>18 DEF SourceRetry
<1> QED
  BY <1>1, <1>2, <1>3, <1>4, <1>5, <1>6, <1>7, <1>8, <1>9, <1>10, <1>11, <1>12, <1>13, <1>14,
     <1>15, <1>16, <1>17, <1>18 DEF SourceNext

-----------------------------------------------------------------------------
(* What a step of the target may write without disturbing the invariant.     *)

TargetWriteOK(r) ==
    /\ ValidTarget(r)
    /\ r.loaded = target.loaded
    /\ target.state = "accepted" => r = target
    /\ target.state = "rejected" => r.state = "rejected"
    /\ r.state = "rejected" \/ target.locator \in {NoSession, r.locator}
    /\ r.state = "accepted" => r.locator \in Sessions /\ sent[r.locator] > 0
    /\ r.state \in LaunchStates => granted

LEMMA KeepOK ==
    ASSUME IInv
    PROVE  TargetWriteOK(target)
  BY DEF IInv, RecordsValid, TargetWriteOK, Evidence, Authority

LEMMA ReceiveOK ==
    ASSUME IInv
    PROVE  TargetWriteOK(ReceiveTarget(target))
<1>1. CASE target.state # Absent
  BY <1>1, KeepOK DEF ReceiveTarget
<1>2. CASE target.state = Absent
  <2> DEFINE r == ReceiveTarget(target)
  <2>1. target \in TargetRecord /\ ValidTarget(target)
    BY DEF IInv, TypeOK, TargetTypeOK, RecordsValid
  <2>2. /\ r.state = "received" /\ r.loaded = target.loaded /\ r.locator = target.locator
        /\ r.retry = target.retry
    BY <1>2, <2>1 DEF ReceiveTarget, TargetRecord
  <2>3. ValidTarget(r)
    BY <1>2, <2>1, <2>2 DEF ValidTarget, Absent, TargetRetryStates, TargetLocatorStates
  <2> QED
    BY <1>2, <2>2, <2>3 DEF TargetWriteOK, Absent, LaunchStates
<1> QED
  BY <1>1, <1>2

LEMMA TransitionOK ==
    ASSUME IInv, target.state \notin {Absent, "accepted", "rejected"}, NEW next \in TargetState,
           next \in LaunchStates => granted,
           next = "accepted" => target.locator \in Sessions /\ sent[target.locator] > 0,
           target.locator = NoSession \/ next \in LaunchStates \cup {"rejected"}
    PROVE  TargetWriteOK(TransitionTarget(target, next))
<1> DEFINE r == TransitionTarget(target, next)
<1>1. target \in TargetRecord /\ ValidTarget(target)
  BY DEF IInv, TypeOK, TargetTypeOK, RecordsValid
<1>2. /\ r.state = next /\ r.loaded = target.loaded
      /\ r.retry = IF next \in TargetRetryStates THEN "later" ELSE "none"
      /\ r.locator = IF next \in TargetLocatorStates THEN target.locator ELSE NoSession
  BY <1>1 DEF TransitionTarget, TargetRecord
<1>3. ValidTarget(r)
  BY <1>1, <1>2, SessionsAssumption DEF ValidTarget, TargetRetryStates, TargetLocatorStates
<1> QED
  BY <1>2, <1>3 DEF TargetWriteOK, LaunchStates, TargetLocatorStates

LEMMA RecordLocatorOK ==
    ASSUME IInv, target.state = "launching", NEW s \in Sessions
    PROVE  TargetWriteOK(RecordTargetLaunchLocator(target, s))
<1> DEFINE r == RecordTargetLaunchLocator(target, s)
<1>1. target \in TargetRecord /\ ValidTarget(target) /\ granted
  BY DEF IInv, TypeOK, TargetTypeOK, RecordsValid, Authority, LaunchStates
<1>2. /\ r.state = target.state /\ r.loaded = target.loaded /\ r.retry = target.retry
      /\ target.locator \in {NoSession, r.locator}
  BY <1>1 DEF RecordTargetLaunchLocator, TargetRecord
<1>3. ValidTarget(r)
  BY <1>1, <1>2 DEF ValidTarget, TargetLocatorStates
<1> QED
  BY <1>1, <1>2, <1>3 DEF TargetWriteOK

\* Such a write together with what the daemon does to its sessions: the
\* launch marker is never ahead of the prompt, and only the session the
\* record is bound to gets one.
LEMMA SessionStepInv ==
    ASSUME IInv, NEW r, target' = r, TargetWriteOK(r), reqs' \subseteq reqs,
           UNCHANGED <<sourceVars, ackers>>,
           \A s \in Sessions : sess'[s].cmd = "launch" => sent'[s] > 0,
           \A s \in Sessions : saved'[s].cmd = "launch" => sent'[s] > 0,
           \A s \in Sessions : sent[s] > 0 => sent'[s] > 0,
           \A s \in Sessions :
              sent'[s] > 0 => sent[s] > 0 \/ (target.state = "launching" /\ target.locator = s),
           granted \/ (spawned' = spawned /\ sent' = sent)
    PROVE  ValidTarget(target)' /\ Evidence' /\ Exclusive' /\ Authority' /\ Agreement'
<1> USE DEF IInv
<1>1. /\ source' = source /\ closed' = closed /\ local' = local /\ granted' = granted
      /\ ackers' = ackers
  BY DEF sourceVars
<1>2. ValidTarget(target)'
  BY DEF TargetWriteOK, ValidTarget
<1>3. Evidence'
  <2>3. target'.state = "accepted" => target'.locator \in Sessions /\ sent'[target'.locator] > 0
    BY DEF TargetWriteOK
  <2>4. (target'.loaded # NoAck => target'.state = "accepted") /\ (ackers' # {} => target'.state = "accepted")
    BY <1>1 DEF TargetWriteOK, Evidence
  <2> QED
    BY <2>3, <2>4 DEF Evidence
<1>4. Exclusive'
  <2>1. ASSUME NEW s \in Sessions, sent'[s] > 0
        PROVE  target.locator = s \/ target.state = "rejected"
    BY <2>1 DEF Exclusive
  <2>2. ASSUME NEW s \in Sessions, sent'[s] > 0
        PROVE  target'.locator = s \/ target'.state = "rejected"
    BY <2>1, <2>2, SessionsAssumption DEF TargetWriteOK
  <2>3. ASSUME NEW s \in Sessions, NEW t \in Sessions, sent'[s] > 0, sent'[t] > 0
        PROVE  s = t
    <3>1. CASE target.state = "rejected"
      BY <2>3, <3>1 DEF Exclusive, OneContinuation
    <3>2. CASE target.state # "rejected"
      BY <2>1, <2>3, <3>2
    <3> QED
      BY <3>1, <3>2
  <2> QED
    BY <2>2, <2>3 DEF Exclusive, OneContinuation
<1>5. Authority'
  BY <1>1 DEF Authority, TargetWriteOK
<1>6. Agreement'
  BY <1>1 DEF Agreement, TargetWriteOK
<1> QED
  BY <1>2, <1>3, <1>4, <1>5, <1>6

\* The common case: the sessions are left alone.
LEMMA TargetWriteInv ==
    ASSUME IInv, NEW r, target' = r, TargetWriteOK(r), reqs' \subseteq reqs,
           UNCHANGED <<sourceVars, sessionVars, ackers>>
    PROVE  ValidTarget(target)' /\ Evidence' /\ Exclusive' /\ Authority' /\ Agreement'
<1>1. sess' = sess /\ saved' = saved /\ sent' = sent /\ spawned' = spawned
  BY DEF sessionVars
<1>2. \A s \in Sessions : sess'[s].cmd = "launch" => sent'[s] > 0
  BY <1>1 DEF IInv, Evidence
<1>3. \A s \in Sessions : saved'[s].cmd = "launch" => sent'[s] > 0
  BY <1>1 DEF IInv, Evidence
<1> QED
  BY <1>1, <1>2, <1>3, SessionStepInv

\* The responses a target step can leave on the way.
LEMMA ReplyInv ==
    ASSUME IInv, NEW r, target' = r, TargetWriteOK(r),
           \/ reply' = reply
           \/ reply' = handoffStatusDTO(r)
           \/ \E code : reply' = ErrorReply(code)
    PROVE  Answers'
<1> USE DEF IInv
<1>1. CASE reply' = reply
  BY <1>1 DEF Answers, TargetWriteOK
<1>2. CASE reply' = handoffStatusDTO(r)
  BY <1>2 DEF Answers, handoffStatusDTO
<1>3. ASSUME NEW code, reply' = ErrorReply(code)
      PROVE  Answers'
  BY <1>3 DEF Answers, ErrorReply, NoReply, Absent
<1> QED
  BY <1>1, <1>2, <1>3

LEMMA TakeEffect ==
    ASSUME NEW r, Take(r)
    PROVE  r \in reqs /\ reqs' \subseteq reqs
  BY DEF Take

LEMMA NoWorkLock ==
    ASSUME work' = NoWork
    PROVE  TargetLock'
  BY DEF TargetLock, NoWork

\* Saving and restoring the inventory keeps or drops a marker, never adds one.
LEMMA SnapshotMarker ==
    ASSUME NEW table \in [Sessions -> Session], NEW s \in Sessions, Snapshot(table)[s].cmd = "launch"
    PROVE  table[s].cmd = "launch"
  BY DEF Snapshot, NoSess, Session

LEMMA RestoredMarker ==
    ASSUME saved \in [Sessions -> Session], NEW seen, NEW s \in Sessions,
           Restored(seen)[s].cmd = "launch"
    PROVE  saved[s].cmd = "launch"
  BY DEF Restored, NoSess, Session

\* An operation that ends with an admissible record keeps the invariant.
LEMMA FinishInv ==
    ASSUME IInv, NEW r, Finish(r), TargetWriteOK(r),
           UNCHANGED <<reqs, sourceVars, sessionVars, ackers>>
    PROVE  /\ ValidTarget(target)' /\ TargetLock' /\ Evidence' /\ Exclusive'
           /\ Authority' /\ Answers' /\ Agreement'
<1>1. target' = r /\ work' = NoWork /\ reply' \in {reply, handoffStatusDTO(r)}
  BY DEF Finish, Answer
<1> QED
  BY <1>1, NoWorkLock, TargetWriteInv, ReplyInv

\* So does an operation that goes on with the record as it is.
LEMMA GotoInv ==
    ASSUME IInv, NEW pc, Goto(pc), TargetLock', UNCHANGED <<reqs, target, sourceVars, sessionVars, ackers>>
    PROVE  /\ ValidTarget(target)' /\ TargetLock' /\ Evidence' /\ Exclusive'
           /\ Authority' /\ Answers' /\ Agreement'
<1>1. reply' = reply
  BY DEF Goto
<1> QED
  BY <1>1, KeepOK, TargetWriteInv, ReplyInv

LEMMA TargetStepInv ==
    ASSUME IInv, TargetNext, UNCHANGED sourceVars
    PROVE  /\ ValidTarget(target)' /\ TargetLock' /\ Evidence' /\ Exclusive'
           /\ Authority' /\ Answers' /\ Agreement'
<1> DEFINE Kept == /\ ValidTarget(target)' /\ TargetLock' /\ Evidence' /\ Exclusive'
                   /\ Authority' /\ Answers' /\ Agreement'
<1>0. /\ target \in TargetRecord /\ ValidTarget(target) /\ work \in Work
      /\ target.state \in TargetState \cup {Absent}
      /\ target.locator \in Sessions \cup {NoSession}
      /\ sess \in [Sessions -> Session] /\ saved \in [Sessions -> Session]
  BY DEF IInv, TypeOK, TargetTypeOK, RecordsValid, TargetRecord
<1>L. target.state \in LaunchStates => granted
  BY DEF IInv, Authority
<1>P. target.state \in {"received", "validating", "waiting_assets", "prepared"} => target.locator = NoSession
  BY <1>0 DEF ValidTarget, TargetLocatorStates
<1>1. ASSUME NEW r \in reqs, PrepareBegin(r)
      PROVE  Kept
  <2>1. target' = ReceiveTarget(target) /\ reply' = reply /\ reqs' \subseteq reqs
        /\ UNCHANGED <<sessionVars, ackers>>
    BY <1>1, TakeEffect DEF PrepareBegin
  <2>2. target'.state # Absent
    BY <1>0, <2>1 DEF ReceiveTarget, TargetRecord, Absent
  <2>3. work'.op = "prepare" /\ work'.pc = "resume"
    BY <1>1 DEF PrepareBegin, NoWork
  <2>4. TargetLock'
    BY <2>2, <2>3 DEF TargetLock
  <2> QED
    BY <2>1, <2>4, ReceiveOK, TargetWriteInv, ReplyInv
<1>2. ASSUME NEW r \in reqs, LaunchBegin(r)
      PROVE  Kept
  <2>1. r.method = "launch" /\ r \in reqs /\ reqs' \subseteq reqs /\ UNCHANGED <<sessionVars, ackers>>
    BY <1>2, TakeEffect DEF LaunchBegin
  <2>2. granted
    BY <2>1 DEF IInv, Authority
  <2>3. CASE /\ target.state \in {"prepared", "launch_waiting_assets", "launching"}
             /\ target' = IF target.state = "launching" THEN target
                          ELSE TransitionTarget(target, "launching")
             /\ work' = [NoWork EXCEPT !.op = "launch", !.pc = "revalidate"]
             /\ reply' = reply
    <3>1. TargetWriteOK(target') /\ target'.state = "launching"
      <4>1. CASE target.state = "launching"
        BY <2>3, <4>1, KeepOK
      <4>2. CASE target.state # "launching"
        <5>1. TargetWriteOK(TransitionTarget(target, "launching"))
          BY <2>2, <2>3, TransitionOK DEF TargetState, LaunchStates, Absent
        <5> QED
          BY <1>0, <2>3, <4>2, <5>1 DEF TransitionTarget, TargetRecord
      <4> QED
        BY <4>1, <4>2
    <3>2. work'.op = "launch" /\ work'.pc = "revalidate"
      BY <2>3 DEF NoWork
    <3>3. TargetLock'
      BY <3>1, <3>2 DEF TargetLock
    <3> QED
      BY <2>1, <2>3, <3>1, <3>3, TargetWriteInv, ReplyInv
  <2>4. CASE /\ reply' \in {reply, handoffStatusDTO(target), ErrorReply("invalid_request")}
             /\ UNCHANGED <<target, work>>
    <3>1. TargetLock'
      <4>1. sent' = sent /\ target' = target /\ work' = work
        BY <2>1, <2>4 DEF sessionVars
      <4> QED
        BY <4>1 DEF IInv, TargetLock
    <3> QED
      BY <2>1, <2>4, <3>1, KeepOK, TargetWriteInv, ReplyInv
  <2> QED
    BY <1>2, <2>3, <2>4 DEF LaunchBegin
<1>u. ASSUME UNCHANGED <<target, work, sent>> PROVE TargetLock'
  BY <1>u DEF IInv, TargetLock
<1>3. ASSUME NEW r \in reqs, Verify(r)
      PROVE  Kept
  <2>1. reqs' \subseteq reqs /\ UNCHANGED <<target, work, sent, sessionVars, ackers>>
    BY <1>3, TakeEffect DEF Verify, targetVars, sessionVars
  <2>2. Answers'
    <3>1. CASE reply' = reply \/ reply' = ErrorReply("invalid_request")
      BY <2>1, <3>1, KeepOK, ReplyInv
    <3>2. CASE target.state = "accepted" /\
               reply' = [kind |-> "verification", state |-> "accepted",
                         locator |-> target.locator, loaded |-> target.loaded]
      BY <2>1, <3>2 DEF Answers
    <3> QED
      BY <1>3, <3>1, <3>2 DEF Verify
  <2> QED
    BY <1>u, <2>1, <2>2, KeepOK, TargetWriteInv
<1>4. ASSUME NEW r \in reqs, RequestDenied(r) \/ LaunchUnread(r)
      PROVE  Kept
  <2>1. reqs' \subseteq reqs /\ UNCHANGED <<target, work, sent, sessionVars, ackers>>
    BY <1>4, TakeEffect DEF RequestDenied, LaunchUnread, targetVars, sessionVars
  <2>2. Answers'
    BY <1>4, <2>1, KeepOK, ReplyInv DEF RequestDenied, LaunchUnread
  <2> QED
    BY <1>u, <2>1, <2>2, KeepOK, TargetWriteInv
<1>T. ASSUME NEW next \in {"waiting_assets", "prepared", "launch_waiting_assets", "rejected"},
             target.state \in {"validating", "launching"},
             next \in {"waiting_assets", "prepared"} => target.state = "validating",
             next = "launch_waiting_assets" => target.state = "launching"
      PROVE  TargetWriteOK(TransitionTarget(target, next))
  BY <1>0, <1>L, <1>P, <1>T, TransitionOK DEF TargetState, LaunchStates, Absent
<1>5. CASE PrepareResume
  <2>1. UNCHANGED <<reqs, sessionVars, ackers>> /\ work.op = "prepare"
    BY <1>5 DEF PrepareResume, At
  <2>2. CASE /\ target.state \in {"received", "waiting_assets"}
             /\ target' = TransitionTarget(target, "validating")
             /\ Goto("check")
    <3>1. TargetWriteOK(target')
      BY <1>P, <2>2, TransitionOK DEF TargetState, LaunchStates, Absent
    <3>2. work'.op = "prepare" /\ work'.pc = "check" /\ reply' = reply
      BY <1>0, <2>1, <2>2 DEF Goto, Work
    <3>3. target'.state = "validating"
      BY <1>0, <2>2 DEF TransitionTarget, TargetRecord
    <3>4. TargetLock'
      BY <3>2, <3>3 DEF TargetLock, Absent
    <3> QED
      BY <2>1, <3>1, <3>2, <3>4, TargetWriteInv, ReplyInv
  <2>3. CASE target.state = "validating" /\ UNCHANGED target /\ Goto("check")
    <3>1. work'.op = "prepare" /\ work'.pc = "check"
      BY <1>0, <2>1, <2>3 DEF Goto, Work
    <3>2. TargetLock'
      BY <2>3, <3>1 DEF TargetLock, Absent
    <3> QED
      BY <2>1, <2>3, <3>2, GotoInv
  <2>4. CASE Finish(target)
    BY <2>1, <2>4, KeepOK, FinishInv
  <2> QED
    BY <1>5, <2>2, <2>3, <2>4 DEF PrepareResume
<1>6. CASE PrepareVerdict \/ PrepareWaits
  <2>1. target.state = "validating" /\ UNCHANGED <<reqs, sessionVars, ackers>>
    BY <1>6 DEF PrepareVerdict, PrepareWaits, At, IInv, TargetLock
  <2>2. \E next \in {"waiting_assets", "prepared", "rejected"} : Finish(TransitionTarget(target, next))
    BY <1>6 DEF PrepareVerdict, PrepareWaits, waitForAssets, reject
  <2> QED
    BY <1>T, <2>1, <2>2, FinishInv
\* Launch steps that end the operation with a wait or a rejection.
<1>E. ASSUME target.state = "launching", waitForLaunch \/ reject, UNCHANGED <<reqs, sessionVars, ackers>>
      PROVE  Kept
  BY <1>E, <1>T, FinishInv DEF waitForLaunch, reject
<1>7. CASE LaunchRevalidate
  <2>1. target.state = "launching" /\ work.op = "launch" /\ UNCHANGED <<reqs, sessionVars, ackers>>
    BY <1>7 DEF LaunchRevalidate, At, IInv, TargetLock
  <2>2. CASE Goto("select") /\ UNCHANGED target
    <3>1. work'.op = "launch" /\ work'.pc = "select"
      BY <1>0, <2>1, <2>2 DEF Goto, Work
    <3>2. TargetLock'
      BY <2>1, <2>2, <3>1 DEF TargetLock
    <3> QED
      BY <2>1, <2>2, <3>2, GotoInv
  <2> QED
    BY <1>7, <1>E, <2>1, <2>2 DEF LaunchRevalidate
<1>8. CASE LaunchReuse
  <2>1. /\ target.state = "launching" /\ work.op = "launch" /\ UNCHANGED <<reqs, sessionVars, ackers>>
        /\ target.locator \in Sessions
    BY <1>0, <1>8 DEF LaunchReuse, At, IInv, TargetLock
  <2>2. CASE /\ work' = [work EXCEPT !.pc = "poll", !.session = target.locator]
             /\ UNCHANGED <<target, serving, reply>>
    <3>1. work'.op = "launch" /\ work'.pc = "poll" /\ work'.session = target.locator
      BY <1>0, <2>1, <2>2 DEF Work
    <3>2. TargetLock'
      BY <2>1, <2>2, <3>1 DEF TargetLock
    <3> QED
      BY <2>1, <2>2, <3>2, KeepOK, TargetWriteInv, ReplyInv
  <2> QED
    BY <1>8, <1>E, <2>1, <2>2 DEF LaunchReuse
<1>9. CASE LaunchCreateFails
  BY <1>9, <1>E DEF LaunchCreateFails, At, IInv, TargetLock
<1>10. ASSUME NEW s \in Sessions, LaunchFind(s)
       PROVE  Kept
  <2>1. /\ target.state = "launching" /\ work.op = "launch" /\ UNCHANGED <<sessionVars, ackers>>
        /\ reqs' = reqs /\ reply' = reply /\ target' = target /\ target.locator = NoSession
    BY <1>10 DEF LaunchFind, At, IInv, TargetLock, channelVars
  <2>2. work'.op = "launch" /\ work'.pc = "persist" /\ work'.session = s
    BY <1>0, <1>10, <2>1 DEF LaunchFind, Work
  <2>3. TargetLock'
    BY <2>1, <2>2 DEF TargetLock
  <2> QED
    BY <2>1, <2>3, KeepOK, TargetWriteInv, ReplyInv
<1>11. ASSUME NEW s \in Sessions, LaunchCreate(s)
       PROVE  Kept
  <2>1. /\ target.state = "launching" /\ work.op = "launch" /\ ackers' = ackers /\ sent' = sent
        /\ reqs' = reqs /\ reply' = reply /\ target' = target /\ target.locator = NoSession
    BY <1>11 DEF LaunchCreate, At, IInv, TargetLock, channelVars
  <2>2. work'.op = "launch" /\ work'.pc = "persist" /\ work'.session = s
    BY <1>0, <1>11, <2>1 DEF LaunchCreate, Work
  <2>3. TargetLock'
    BY <2>1, <2>2 DEF TargetLock
  <2>4. sess' \in [Sessions -> Session]
    BY <1>11, TargetStepType DEF IInv, TypeOK, TargetTypeOK
  <2>5. ASSUME NEW t \in Sessions, sess'[t].cmd = "launch"
        PROVE  sent[t] > 0
    BY <1>0, <1>11, <2>5 DEF LaunchCreate, IInv, Evidence
  <2>6. ASSUME NEW t \in Sessions, saved'[t].cmd = "launch"
        PROVE  sent[t] > 0
    <3>1. CASE saved' = saved
      BY <2>6, <3>1 DEF IInv, Evidence
    <3>2. CASE saved' = Snapshot(sess')
      BY <2>4, <2>5, <2>6, <3>2, SnapshotMarker
    <3> QED
      BY <1>11, <3>1, <3>2 DEF LaunchCreate
  <2>7. granted
    BY <1>L, <2>1 DEF LaunchStates
  <2> QED
    BY <2>1, <2>3, <2>5, <2>6, <2>7, KeepOK, SessionStepInv, ReplyInv
\* Saving the inventory, with or without a change of the record.
<1>S. ASSUME saved' \in {saved, Snapshot(sess)}, sess' = sess, sent' = sent, spawned' = spawned,
             ackers' = ackers, reqs' = reqs, NEW r, target' = r, TargetWriteOK(r)
      PROVE  ValidTarget(target)' /\ Evidence' /\ Exclusive' /\ Authority' /\ Agreement'
  <2>1. \A s \in Sessions : sess'[s].cmd = "launch" => sent'[s] > 0
    BY <1>S DEF IInv, Evidence
  <2>2. \A s \in Sessions : saved'[s].cmd = "launch" => sent'[s] > 0
    BY <1>0, <1>S, SnapshotMarker DEF IInv, Evidence
  <2> QED
    BY <1>S, <2>1, <2>2, SessionStepInv
<1>12. CASE LaunchPersist \/ LaunchCommit
  <2>1. /\ target.state = "launching" /\ work.op = "launch" /\ work.pc \in {"persist", "commit"}
        /\ work.session \in Sessions
        /\ work.pc = "persist" => target.locator = NoSession
        /\ work.pc = "commit" => target.locator = work.session /\ sent[work.session] > 0
    BY <1>12 DEF LaunchPersist, LaunchCommit, At, IInv, TargetLock
  <2>2. /\ saved' \in {saved, Snapshot(sess)} /\ sess' = sess /\ sent' = sent /\ spawned' = spawned
        /\ ackers' = ackers /\ reqs' = reqs
    BY <1>12 DEF LaunchPersist, LaunchCommit
  <2>3. CASE waitForLaunch
    <3>1. TargetWriteOK(TransitionTarget(target, "launch_waiting_assets"))
      BY <1>T, <2>1
    <3>2. /\ target' = TransitionTarget(target, "launch_waiting_assets") /\ work' = NoWork
          /\ reply' \in {reply, handoffStatusDTO(target')}
      BY <2>3 DEF waitForLaunch, Finish, Answer
    <3> QED
      BY <1>S, <2>2, <3>1, <3>2, NoWorkLock, ReplyInv
  <2>4. CASE Goto(IF work.pc = "persist" THEN "record" ELSE "accept") /\ UNCHANGED target
    <3>1. /\ work'.op = "launch" /\ work'.pc = (IF work.pc = "persist" THEN "record" ELSE "accept")
          /\ work'.session = work.session /\ reply' = reply
      BY <1>0, <2>1, <2>4 DEF Goto, Work
    <3>2. TargetLock'
      BY <2>1, <2>2, <2>4, <3>1 DEF TargetLock
    <3> QED
      BY <1>S, <2>2, <2>4, <3>1, <3>2, KeepOK, ReplyInv
  <2> QED
    BY <1>12, <2>3, <2>4 DEF LaunchPersist, LaunchCommit, At
<1>13. CASE LaunchRecordLocator
  <2>1. /\ target.state = "launching" /\ work.op = "launch" /\ work.session \in Sessions
        /\ target.locator = NoSession /\ UNCHANGED <<reqs, sessionVars, ackers>>
    BY <1>13 DEF LaunchRecordLocator, At, IInv, TargetLock
  <2>2. TargetWriteOK(target') /\ target' = RecordTargetLaunchLocator(target, work.session)
    BY <1>13, <2>1, RecordLocatorOK DEF LaunchRecordLocator
  <2>3. target'.locator = work.session /\ target'.state = "launching"
    BY <1>0, <2>1, <2>2 DEF RecordTargetLaunchLocator, TargetRecord
  <2>4. work'.op = "launch" /\ work'.pc = "poll" /\ work'.session = work.session /\ reply' = reply
    BY <1>0, <1>13, <2>1 DEF LaunchRecordLocator, Goto, Work
  <2>5. TargetLock'
    BY <2>1, <2>3, <2>4 DEF TargetLock
  <2> QED
    BY <2>1, <2>2, <2>4, <2>5, TargetWriteInv, ReplyInv
<1>14. CASE LaunchPoll \/ LaunchConfirm
  <2>1. /\ target.state = "launching" /\ work.op = "launch" /\ work.session \in Sessions
        /\ target.locator = work.session /\ UNCHANGED <<reqs, sessionVars, ackers>>
    BY <1>14 DEF LaunchPoll, LaunchConfirm, At, IInv, TargetLock
  <2>2. ASSUME NEW pc \in {"deliver", "confirm", "commit"}, Goto(pc), UNCHANGED target,
               pc = "commit" => sess[work.session].cmd = "launch"
        PROVE  Kept
    <3>1. work'.op = "launch" /\ work'.pc = pc /\ work'.session = work.session
      BY <1>0, <2>1, <2>2 DEF Goto, Work
    <3>2. pc = "commit" => sent'[work.session] > 0
      BY <2>1, <2>2 DEF IInv, Evidence, sessionVars
    <3>3. TargetLock'
      BY <2>1, <2>2, <3>1, <3>2 DEF TargetLock
    <3> QED
      BY <2>1, <2>2, <3>3, GotoInv
  <2> QED
    BY <1>14, <1>E, <2>1, <2>2 DEF LaunchPoll, LaunchConfirm
<1>16. CASE LaunchAccept
  <2>1. /\ target.state = "launching" /\ target.locator \in Sessions /\ sent[target.locator] > 0
        /\ UNCHANGED <<reqs, sessionVars, ackers>>
    BY <1>16 DEF LaunchAccept, At, IInv, TargetLock
  <2>2. TargetWriteOK(TransitionTarget(target, "accepted"))
    BY <1>L, <2>1, TransitionOK DEF TargetState, LaunchStates, Absent
  <2> QED
    BY <1>16, <2>1, <2>2, FinishInv DEF LaunchAccept
<1>17. CASE WorkAborts
  <2>1. work' = NoWork /\ target' = target /\ UNCHANGED <<reqs, sessionVars, ackers>>
        /\ reply' \in {reply, ErrorReply("internal")}
    BY <1>17 DEF WorkAborts, Answer
  <2> QED
    BY <2>1, KeepOK, NoWorkLock, TargetWriteInv, ReplyInv
<1>18. CASE LaunchDeliver
  <2>1. /\ target.state = "launching" /\ work.op = "launch" /\ work.session \in Sessions
        /\ target.locator = work.session
        /\ reqs' = reqs /\ ackers' = ackers /\ saved' = saved /\ spawned' = spawned
    BY <1>18 DEF LaunchDeliver, At, IInv, TargetLock
  <2>2. granted
    BY <1>L, <2>1 DEF LaunchStates
  <2>3. sent \in [Sessions -> 0 .. MaxPrompts]
    BY DEF IInv, TypeOK, TargetTypeOK
  <2>4. ASSUME Submit(work.session)
        PROVE  sent'[work.session] > 0 /\ \A s \in Sessions \ {work.session} : sent'[s] = sent[s]
    BY <2>1, <2>3, <2>4, MaxPromptsAssumption DEF Submit
  <2>5. sent' = sent \/ Submit(work.session)
    BY <1>18 DEF LaunchDeliver
  <2>6. ASSUME NEW s \in Sessions
        PROVE  /\ sent[s] > 0 => sent'[s] > 0
               /\ sent'[s] > 0 => sent[s] > 0 \/ (target.state = "launching" /\ target.locator = s)
    BY <2>1, <2>4, <2>5
  <2>7. ASSUME NEW s \in Sessions, saved'[s].cmd = "launch"
        PROVE  sent'[s] > 0
    BY <2>1, <2>6, <2>7 DEF IInv, Evidence
  <2>8. ASSUME NEW s \in Sessions, s # work.session
        PROVE  sess'[s] = sess[s]
    BY <1>0, <1>18, <2>8 DEF LaunchDeliver
  <2>9. CASE /\ Submit(work.session)
             /\ sess' = [sess EXCEPT ![work.session] = [state |-> "working", cmd |-> "launch"]]
             /\ Goto("confirm")
             /\ UNCHANGED target
    <3>1. ASSUME NEW s \in Sessions, sess'[s].cmd = "launch"
          PROVE  sent'[s] > 0
      BY <2>4, <2>6, <2>8, <2>9, <3>1 DEF IInv, Evidence
    <3>2. work'.op = "launch" /\ work'.pc = "confirm" /\ work'.session = work.session /\ reply' = reply
      BY <1>0, <2>1, <2>9 DEF Goto, Work
    <3>3. TargetLock'
      BY <2>1, <2>9, <3>2 DEF TargetLock
    <3>4. ValidTarget(target)' /\ Evidence' /\ Exclusive' /\ Authority' /\ Agreement'
      BY <2>1, <2>2, <2>6, <2>7, <2>9, <3>1, KeepOK, SessionStepInv
    <3> QED
      BY <2>9, <3>2, <3>3, <3>4, KeepOK, ReplyInv
  <2>10. CASE /\ sess' = [sess EXCEPT ![work.session].state = "stuck"]
              /\ \/ waitForLaunch
                 \/ work' = NoWork /\ Answer(ErrorReply("internal")) /\ UNCHANGED target
    <3>1. sess'[work.session].cmd = sess[work.session].cmd
      BY <1>0, <2>1, <2>10 DEF Session
    <3>2. ASSUME NEW s \in Sessions, sess'[s].cmd = "launch"
          PROVE  sent'[s] > 0
      BY <2>6, <2>8, <3>1, <3>2 DEF IInv, Evidence
    <3>3. work' = NoWork /\ target' \in {target, TransitionTarget(target, "launch_waiting_assets")}
      BY <2>10 DEF waitForLaunch, Finish
    <3>4. reply' \in {reply, handoffStatusDTO(target'), ErrorReply("internal")}
      BY <2>10 DEF waitForLaunch, Finish, Answer
    <3>5. \E r : target' = r /\ TargetWriteOK(r)
      BY <1>T, <2>1, <3>3, KeepOK
    <3>6. ValidTarget(target)' /\ Evidence' /\ Exclusive' /\ Authority' /\ Agreement'
      BY <2>1, <2>2, <2>6, <2>7, <3>2, <3>5, SessionStepInv
    <3> QED
      BY <3>3, <3>4, <3>5, <3>6, NoWorkLock, ReplyInv
  <2> QED
    BY <1>18, <2>9, <2>10 DEF LaunchDeliver
<1>20. CASE Reconcile
  <2>1. reqs' = reqs /\ reply' = reply /\ UNCHANGED <<sessionVars, ackers>>
    BY <1>20 DEF Reconcile, channelVars
  <2>2. CASE /\ target.state \in {"received", "validating", "waiting_assets"}
             /\ work' = [NoWork EXCEPT !.op = "prepare", !.pc = "resume"]
             /\ UNCHANGED target
    <3>1. work'.op = "prepare" /\ work'.pc = "resume"
      BY <2>2 DEF NoWork
    <3>2. TargetLock'
      BY <2>2, <3>1 DEF TargetLock, Absent
    <3> QED
      BY <2>1, <2>2, <3>2, KeepOK, TargetWriteInv, ReplyInv
  <2>3. CASE /\ target.state \in {"launching", "launch_waiting_assets"}
             /\ target' = IF target.state = "launching" THEN target
                          ELSE TransitionTarget(target, "launching")
             /\ work' = [NoWork EXCEPT !.op = "launch", !.pc = "revalidate"]
    <3>1. granted
      BY <1>L, <2>3 DEF LaunchStates
    <3>2. TargetWriteOK(target')
      BY <2>3, <3>1, KeepOK, TransitionOK DEF TargetState, LaunchStates, Absent
    <3>3. target'.state = "launching"
      BY <1>0, <2>3 DEF TransitionTarget, TargetRecord
    <3>4. work'.op = "launch" /\ work'.pc = "revalidate"
      BY <2>3 DEF NoWork
    <3>5. TargetLock'
      BY <3>3, <3>4 DEF TargetLock
    <3> QED
      BY <2>1, <3>2, <3>5, TargetWriteInv, ReplyInv
  <2> QED
    BY <1>20, <2>2, <2>3 DEF Reconcile
<1>21. CASE TargetRetryDue
  <2>1. /\ target' = [target EXCEPT !.retry = "due"] /\ target.retry = "later" /\ work' = work
        /\ reqs' = reqs /\ reply' = reply /\ UNCHANGED <<sessionVars, ackers>>
    BY <1>21 DEF TargetRetryDue, channelVars
  <2>2. /\ target'.state = target.state /\ target'.locator = target.locator
        /\ target'.loaded = target.loaded /\ target'.retry = "due"
    BY <1>0, <2>1 DEF TargetRecord
  <2>3. TargetWriteOK(target')
    BY <1>0, <1>L, <2>1, <2>2 DEF TargetWriteOK, ValidTarget, TargetRetryStates
  <2>4. TargetLock'
    BY <2>1, <2>2 DEF IInv, TargetLock, sessionVars
  <2> QED
    BY <2>1, <2>3, <2>4, TargetWriteInv, ReplyInv
<1>22. ASSUME NEW a \in Acks, AckRead(a)
       PROVE  Kept
  <2>1. /\ target.state = "accepted" /\ UNCHANGED <<target, work, sessionVars>>
        /\ reqs' = reqs /\ reply' = reply
    BY <1>22 DEF AckRead, channelVars
  <2>2. sent' = sent /\ sess' = sess /\ saved' = saved /\ spawned' = spawned /\ target' = target
    BY <2>1 DEF sessionVars
  <2>3. Evidence'
    BY <2>1, <2>2 DEF IInv, Evidence
  <2>4. Exclusive' /\ Authority' /\ Agreement' /\ ValidTarget(target)'
    BY <1>0, <2>1, <2>2 DEF IInv, Exclusive, OneContinuation, Authority, Agreement, ValidTarget, sourceVars
  <2> QED
    BY <1>u, <2>1, <2>2, <2>3, <2>4, KeepOK, ReplyInv
<1>23. ASSUME NEW a \in Acks, AckWrite(a)
       PROVE  Kept
  <2>1. /\ target.state = "accepted" /\ UNCHANGED <<work, sessionVars>>
        /\ target' = AcknowledgeTarget(target, a) /\ reqs' = reqs /\ reply' = reply
    BY <1>23 DEF AckWrite, channelVars, IInv, Evidence
  <2>2. /\ target'.state = "accepted" /\ target'.locator = target.locator
        /\ target'.loaded # NoAck /\ target'.retry = target.retry
    BY <1>0, <2>1, AcksAssumption DEF AcknowledgeTarget, TargetRecord
  <2>3. /\ sent' = sent /\ sess' = sess /\ saved' = saved /\ spawned' = spawned
        /\ source' = source /\ closed' = closed /\ local' = local /\ granted' = granted
    BY <2>1 DEF sessionVars, sourceVars
  <2>4. Evidence'
    BY <2>1, <2>2, <2>3 DEF IInv, Evidence
  <2>5. Exclusive' /\ Authority' /\ Agreement'
    BY <2>1, <2>2, <2>3 DEF IInv, Exclusive, OneContinuation, Authority, Agreement
  <2>6. ValidTarget(target)' /\ Answers'
    BY <1>0, <2>1, <2>2 DEF IInv, ValidTarget, TargetLocatorStates, Answers
  <2>7. TargetLock'
    BY <2>1, <2>2, <2>3 DEF IInv, TargetLock
  <2> QED
    BY <2>4, <2>5, <2>6, <2>7
\* Steps of the sessions' own lives add no marker and deliver no prompt.
<1>M. ASSUME UNCHANGED <<target, work, spawned, sent, ackers>>, reply' = reply, reqs' \subseteq reqs,
             \A s \in Sessions : sess'[s].cmd = "launch" => sess[s].cmd = "launch",
             \A s \in Sessions : saved'[s].cmd = "launch" => sess[s].cmd = "launch" \/ saved[s].cmd = "launch"
      PROVE  Kept
  <2>1. \A s \in Sessions : sess'[s].cmd = "launch" => sent'[s] > 0
    BY <1>M DEF IInv, Evidence
  <2>2. \A s \in Sessions : saved'[s].cmd = "launch" => sent'[s] > 0
    BY <1>M DEF IInv, Evidence
  <2> QED
    BY <1>M, <1>u, <2>1, <2>2, KeepOK, SessionStepInv, ReplyInv
<1>24. ASSUME NEW s \in Sessions,
              HandshakeEnds(s) \/ MonitorTick(s) \/ OtherPromptFails(s) \/ OtherPrompt(s) \/ PaneExits(s)
       PROVE  Kept
  <2>1. UNCHANGED <<channelVars, target, work, saved, spawned, sent, ackers>>
    BY <1>24 DEF HandshakeEnds, MonitorTick, PaneNotFound, OtherPromptFails, OtherPrompt, PaneExits, SetSess
  <2>2. ASSUME NEW t \in Sessions, sess'[t].cmd = "launch"
        PROVE  sess[t].cmd = "launch"
    <3>1. ASSUME NEW state, SetSess(s, state)
          PROVE  sess[t].cmd = "launch"
      BY <1>0, <2>2, <3>1 DEF SetSess, Session
    <3>2. ASSUME OtherPrompt(s)
          PROVE  sess[t].cmd = "launch"
      BY <1>0, <2>2, <3>2 DEF OtherPrompt
    <3>3. ASSUME PaneExits(s)
          PROVE  sess[t].cmd = "launch"
      BY <2>2, <3>3 DEF PaneExits
    <3>4. ASSUME PaneNotFound(s)
          PROVE  sess[t].cmd = "launch"
      BY <1>0, <2>2, <3>4 DEF PaneNotFound, Session
    <3> QED
      BY <1>24, <3>1, <3>2, <3>3, <3>4 DEF HandshakeEnds, MonitorTick, OtherPromptFails
  <2> QED
    BY <1>M, <2>1, <2>2 DEF channelVars
<1>25. CASE PersistSessions
  <2>1. /\ UNCHANGED <<channelVars, target, work, sess, spawned, sent, ackers>>
        /\ saved' = Snapshot(sess)
    BY <1>25 DEF PersistSessions
  <2> QED
    BY <1>0, <1>M, <2>1, SnapshotMarker DEF channelVars
<1>26. CASE TargetCrash
  <2>0. PICK seen \in SUBSET panes : sess' = Restored(seen)
    BY <1>26 DEF TargetCrash
  <2>1. /\ UNCHANGED <<reply, target, saved, spawned, sent, ackers>>
        /\ sess' = Restored(seen) /\ reqs' \subseteq reqs /\ work' = NoWork
    BY <1>26, <2>0 DEF TargetCrash
  <2>2. \A s \in Sessions : sess'[s].cmd = "launch" => sent'[s] > 0
    BY <1>0, <2>1, RestoredMarker DEF IInv, Evidence
  <2>3. \A s \in Sessions : saved'[s].cmd = "launch" => sent'[s] > 0
    BY <2>1 DEF IInv, Evidence
  <2> QED
    BY <2>1, <2>2, <2>3, KeepOK, NoWorkLock, SessionStepInv, ReplyInv
<1> QED
  BY <1>1, <1>2, <1>3, <1>4, <1>5, <1>6, <1>7, <1>8, <1>9, <1>10, <1>11, <1>12, <1>13, <1>14,
     <1>16, <1>17, <1>18, <1>20, <1>21, <1>22, <1>23, <1>24, <1>25, <1>26 DEF TargetNext

LEMMA NextInv == IInv /\ [Next]_vars => IInv'
<1> SUFFICES ASSUME IInv, [Next]_vars PROVE IInv'
  OBVIOUS
<1>0. TypeOK'
  BY NextType DEF IInv
<1>1. CASE SourceNext /\ UNCHANGED targetVars
  <2>1. ValidSource(source)' /\ SourceLock' /\ Authority' /\ Answers' /\ Agreement'
    BY <1>1, SourceStepInv
  <2>2. target' = target /\ work' = work /\ sess' = sess /\ saved' = saved /\ sent' = sent /\ ackers' = ackers
    BY <1>1 DEF targetVars
  <2>3. ValidTarget(target)' /\ TargetLock'
    BY <2>2 DEF IInv, RecordsValid, ValidTarget, TargetLock
  <2>4. Evidence' /\ Exclusive'
    BY <2>2 DEF IInv, Evidence, Exclusive, OneContinuation
  <2> QED
    BY <1>0, <2>1, <2>3, <2>4 DEF IInv, RecordsValid
<1>2. CASE TargetNext /\ UNCHANGED sourceVars
  <2>1. /\ ValidTarget(target)' /\ TargetLock' /\ Evidence' /\ Exclusive'
        /\ Authority' /\ Answers' /\ Agreement'
    BY <1>2, TargetStepInv
  <2>2. source' = source /\ op' = op
    BY <1>2 DEF sourceVars
  <2>3. ValidSource(source)' /\ SourceLock'
    BY <2>2 DEF IInv, RecordsValid, ValidSource, SourceLock
  <2> QED
    BY <1>0, <2>1, <2>3 DEF IInv, RecordsValid
<1>3. ASSUME reqs' \subseteq reqs, reply' = reply, UNCHANGED <<sourceVars, targetVars>>
      PROVE  IInv'
  <2>1. /\ target' = target /\ work' = work /\ sess' = sess /\ saved' = saved /\ sent' = sent
        /\ ackers' = ackers /\ spawned' = spawned
    BY <1>3 DEF targetVars
  <2>2. source' = source /\ op' = op /\ local' = local /\ granted' = granted /\ closed' = closed
    BY <1>3 DEF sourceVars
  <2>3. RecordsValid' /\ SourceLock' /\ TargetLock'
    BY <2>1, <2>2 DEF IInv, RecordsValid, ValidSource, ValidTarget, SourceLock, TargetLock
  <2>4. Evidence' /\ Exclusive'
    BY <2>1 DEF IInv, Evidence, Exclusive, OneContinuation
  <2>5. Authority' /\ Answers' /\ Agreement'
    BY <1>3, <2>1, <2>2 DEF IInv, Authority, Answers, Agreement
  <2> QED
    BY <1>0, <2>3, <2>4, <2>5 DEF IInv
<1>4. CASE (\E r \in reqs : RequestLost(r)) /\ UNCHANGED <<sourceVars, targetVars>>
  BY <1>3, <1>4, TakeEffect DEF RequestLost
<1>5. CASE UNCHANGED vars
  BY <1>3, <1>5 DEF vars, channelVars
<1> QED
  BY <1>1, <1>2, <1>4, <1>5 DEF Next

\* IInv holds in every reachable state.
LEMMA Invariance == Spec => []IInv
  BY InitInv, NextInv, PTL DEF Spec

\* The stores never refuse a write or a file of these daemons: every record
\* either side writes passes record.validate, with any number of sessions,
\* acknowledgements and turns.
THEOREM RecordsAlwaysValid == Spec => []RecordsValid
<1>1. IInv => RecordsValid
  BY DEF IInv
<1> QED
  BY <1>1, Invariance, PTL

\* No restart, retry or orphaned request gives the target launch authority:
\* before an operator launches there is no launch state, session or prompt.
THEOREM LaunchNeedsGrant == Spec => []NoLaunchWithoutGrant
<1>1. IInv => NoLaunchWithoutGrant
  BY DEF IInv, Authority, NoLaunchWithoutGrant
<1> QED
  BY <1>1, Invariance, PTL

\* An accepted source record names the session the target accepted, and that
\* session's agent took the launch prompt in.
THEOREM AcceptanceAgrees == Spec => []AcceptedAgree
<1>1. IInv => AcceptedAgree
  BY DEF IInv, Agreement, Evidence, AcceptedAgree
<1> QED
  BY <1>1, Invariance, PTL

\* The source session is released only to a continuation that acknowledged
\* the loaded context.
THEOREM ReleaseIsSafe == Spec => []ReleaseAfterLoad
<1>1. ASSUME IInv PROVE ReleaseAfterLoad
  <2>1. source.retirement # "none" \/ op \in {"closing", "closed"} \/ closed # "no" =>
            source.retirement # "none"
    BY <1>1 DEF IInv, SourceLock, Agreement
  <2>2. source.retirement # "none" => source.loaded # NoAck /\ source.state = "accepted"
    BY <1>1 DEF IInv, RecordsValid, ValidSource
  <2>3. source.state = "accepted" => target.state = "accepted" /\ sent[target.locator] > 0
    BY <1>1 DEF IInv, Agreement, Evidence
  <2>4. source.loaded # NoAck => target.loaded # NoAck
    BY <1>1 DEF IInv, Agreement
  <2> QED
    BY <2>1, <2>2, <2>3, <2>4 DEF ReleaseAfterLoad
<1> QED
  BY <1>1, Invariance, PTL

\* At most one session is ever told to continue the work, whatever is
\* retried, orphaned or restarted.
THEOREM SingleContinuation == Spec => []OneContinuation
<1>1. IInv => OneContinuation
  BY DEF IInv, Exclusive
<1> QED
  BY <1>1, Invariance, PTL

-----------------------------------------------------------------------------
(* The transition tables.                                                   *)

SourceTransitionOK ==
    source'.state # source.state =>
        source.state = Absent \/ legalSourceTransition(source.state, source'.state)

TargetTransitionOK ==
    target'.state # target.state =>
        target.state = Absent \/ legalTargetTransition(target.state, target'.state)

LEMMA SourceTransitionState ==
    ASSUME NEW r \in SourceRecord, NEW next, NEW l
    PROVE  TransitionSource(r, next, l).state = next
  BY DEF TransitionSource, SourceRecord

LEMMA TargetTransitionState ==
    ASSUME NEW r \in TargetRecord, NEW next
    PROVE  TransitionTarget(r, next).state = next
  BY DEF TransitionTarget, TargetRecord

LEMMA SourceStepLegal ==
    ASSUME IInv, SourceNext
    PROVE  SourceTransitionOK
<1>0. source \in SourceRecord
  BY DEF IInv, TypeOK, SourceTypeOK
<1>s. ASSUME source'.state = source.state
      PROVE  SourceTransitionOK
  BY <1>s DEF SourceTransitionOK
<1>1. CASE SourcePrepare
  BY <1>1 DEF SourcePrepare, SourceTransitionOK
<1>2. ASSUME NEW force \in BOOLEAN, attempt(force) \/ attemptLaunch(force)
      PROVE  SourceTransitionOK
  BY <1>0, <1>2, SourceTransitionState
     DEF attempt, attemptLaunch, SourceTransitionOK, legalSourceTransition
<1>3. CASE SourceLaunch
  BY <1>0, <1>3, SourceTransitionState DEF SourceLaunch, SourceTransitionOK, legalSourceTransition
<1>4. CASE PrepareReply
  <2>1. source.state = "preparing_remote"
    BY <1>4 DEF PrepareReply, IInv, SourceLock
  <2>2. source'.state \in {"remote_prepared", "retry_wait", "failed"}
    BY <1>0, <1>4, SourceTransitionState DEF PrepareReply, transitionRetry, transitionFailed, SourceWrites
  <2> QED
    BY <2>1, <2>2 DEF SourceTransitionOK, legalSourceTransition
<1>5. CASE LaunchReply
  <2>1. source.state = "launching_remote"
    BY <1>5 DEF LaunchReply, IInv, SourceLock
  <2>2. source'.state \in {"accepted", "launch_retry_wait", "failed"}
    BY <1>0, <1>5, SourceTransitionState DEF LaunchReply, transitionLaunchRetry, transitionFailed, SourceWrites
  <2> QED
    BY <2>1, <2>2 DEF SourceTransitionOK, legalSourceTransition
<1>6. CASE CallFails
  BY <1>0, <1>6, SourceTransitionState
     DEF CallFails, IInv, SourceLock, SourceTransitionOK, legalSourceTransition
<1>7. CASE SourceReconcile \/ SourceRetry
  BY <1>2, <1>7, <1>s DEF SourceReconcile, SourceRetry
<1>8. CASE \/ SourceVerify \/ SourceRetryDue \/ VerifyReply \/ SourceWriteFails
           \/ RetirePending \/ CloseSource \/ ConfirmClosed
           \/ PromptSubmit \/ TurnEnd \/ LocalExits \/ SourceCrash
           \/ \E mode \in {"immediate", "after_turn_end"} : Retire(mode)
  <2>1. \/ source' \in {source, CompleteSourceRetirement(source), [source EXCEPT !.retry = "due"]}
        \/ \E a : source' = RecordSourceContextLoaded(source, a)
        \/ \E m, n : source' = RequestSourceRetirement(source, m, n)
    BY <1>8 DEF SourceVerify, SourceRetryDue, VerifyReply, SourceWriteFails, SourceWrites,
                RetirePending, CloseSource, ConfirmClosed, PromptSubmit, TurnEnd, LocalExits,
                LocalChanges, SourceCrash, Retire
  <2>2. source'.state = source.state
    BY <1>0, <2>1 DEF CompleteSourceRetirement, RecordSourceContextLoaded,
                      RequestSourceRetirement, SourceRecord
  <2> QED
    BY <1>s, <2>2
<1> QED
  BY <1>1, <1>2, <1>3, <1>4, <1>5, <1>6, <1>7, <1>8 DEF SourceNext

LEMMA TargetStepLegal ==
    ASSUME IInv, TargetNext
    PROVE  TargetTransitionOK
<1>0. target \in TargetRecord
  BY DEF IInv, TypeOK, TargetTypeOK
<1>s. ASSUME target'.state = target.state
      PROVE  TargetTransitionOK
  BY <1>s DEF TargetTransitionOK
<1>1. ASSUME NEW r \in reqs, PrepareBegin(r) \/ LaunchBegin(r) \/ LaunchUnread(r) \/ Verify(r) \/ RequestDenied(r)
      PROVE  TargetTransitionOK
  <2>1. CASE PrepareBegin(r)
    BY <1>0, <2>1 DEF PrepareBegin, ReceiveTarget, TargetRecord, TargetTransitionOK
  <2>2. CASE LaunchBegin(r)
    BY <1>0, <2>2, TargetTransitionState DEF LaunchBegin, TargetTransitionOK, legalTargetTransition
  <2> QED
    BY <1>1, <1>s, <2>1, <2>2 DEF LaunchUnread, Verify, RequestDenied, targetVars
<1>2. CASE PrepareResume
  BY <1>0, <1>2, TargetTransitionState DEF PrepareResume, Finish, TargetTransitionOK, legalTargetTransition
<1>3. CASE PrepareVerdict \/ PrepareWaits
  <2>1. target.state = "validating"
    BY <1>3 DEF PrepareVerdict, PrepareWaits, At, IInv, TargetLock
  <2>2. target'.state \in {"prepared", "waiting_assets", "rejected"}
    BY <1>0, <1>3, TargetTransitionState DEF PrepareVerdict, PrepareWaits, waitForAssets, reject, Finish
  <2> QED
    BY <2>1, <2>2 DEF TargetTransitionOK, legalTargetTransition
<1>4. CASE \/ LaunchRevalidate \/ LaunchReuse \/ LaunchCreateFails \/ LaunchPersist
           \/ LaunchPoll \/ LaunchDeliver \/ LaunchConfirm \/ LaunchCommit \/ LaunchAccept
  <2>1. target.state = "launching"
    BY <1>4 DEF LaunchRevalidate, LaunchReuse, LaunchCreateFails, LaunchPersist, LaunchPoll,
                LaunchDeliver, LaunchConfirm, LaunchCommit, LaunchAccept, At, IInv, TargetLock
  <2>2. \/ target' = target
        \/ \E next \in {"accepted", "launch_waiting_assets", "rejected"} :
              target' = TransitionTarget(target, next)
    BY <1>4 DEF LaunchRevalidate, LaunchReuse, LaunchCreateFails, LaunchPersist, LaunchPoll,
                LaunchDeliver, LaunchConfirm, LaunchCommit, LaunchAccept, waitForLaunch, reject, Finish
  <2> QED
    BY <1>0, <2>1, <2>2, TargetTransitionState DEF TargetTransitionOK, legalTargetTransition
<1>5. CASE LaunchRecordLocator
  BY <1>0, <1>5, <1>s DEF LaunchRecordLocator, RecordTargetLaunchLocator, TargetRecord
<1>6. CASE Reconcile
  BY <1>0, <1>6, TargetTransitionState DEF Reconcile, TargetTransitionOK, legalTargetTransition
<1>7. CASE TargetRetryDue \/ \E a \in Acks : AckRead(a) \/ AckWrite(a)
  BY <1>0, <1>7, <1>s DEF TargetRetryDue, AckRead, AckWrite, AcknowledgeTarget, TargetRecord
<1>8. CASE WorkAborts \/ PersistSessions \/ TargetCrash
  BY <1>8, <1>s DEF WorkAborts, PersistSessions, TargetCrash
<1>9. CASE \E s \in Sessions : LaunchFind(s) \/ LaunchCreate(s)
  BY <1>9, <1>s DEF LaunchFind, LaunchCreate
<1>10. CASE \E s \in Sessions : \/ HandshakeEnds(s) \/ MonitorTick(s) \/ PaneExits(s)
                                \/ OtherPrompt(s) \/ OtherPromptFails(s)
  BY <1>10, <1>s DEF HandshakeEnds, MonitorTick, PaneNotFound, PaneExits, OtherPrompt, OtherPromptFails,
        SetSess
<1> QED
  BY <1>1, <1>2, <1>3, <1>4, <1>5, <1>6, <1>7, <1>8, <1>9, <1>10 DEF TargetNext

\* No interleaving of replies, retries, reconcile passes and restarts makes
\* either daemon ask its store for a transition outside the table.
THEOREM TransitionsLegal == Spec => OnlyLegalTransitions
<1>1. IInv /\ [Next]_vars =>
         [/\ source'.state # source.state =>
                source.state = Absent \/ legalSourceTransition(source.state, source'.state)
          /\ target'.state # target.state =>
                target.state = Absent \/ legalTargetTransition(target.state, target'.state)]_vars
  <2> SUFFICES ASSUME IInv, Next PROVE SourceTransitionOK /\ TargetTransitionOK
    BY DEF SourceTransitionOK, TargetTransitionOK
  <2>1. CASE SourceNext /\ UNCHANGED targetVars
    BY <2>1, SourceStepLegal DEF targetVars, TargetTransitionOK
  <2>2. CASE TargetNext /\ UNCHANGED sourceVars
    BY <2>2, TargetStepLegal DEF sourceVars, SourceTransitionOK
  <2>3. CASE UNCHANGED <<sourceVars, targetVars>>
    BY <2>3 DEF sourceVars, targetVars, SourceTransitionOK, TargetTransitionOK
  <2> QED
    BY <2>1, <2>2, <2>3 DEF Next
<1> QED
  BY <1>1, Invariance, PTL DEF Spec, OnlyLegalTransitions

-----------------------------------------------------------------------------
(* The accepted continuation survives restarts.                             *)

\* What the session table, in memory and on disk, says of a prompted session
\* that lives and was not taken for dead, and where the launch and the record rely on it.
MemoryMarks ==
    \A s \in Sessions :
        /\ sess[s].state \in {"none", "starting", "adrift"} => sess[s].cmd = "none"
        /\ sess[s].cmd # "none" /\ s \in panes \ declared => sess[s].state # "ended"

DiskMarks ==
    \A s \in Sessions :
        /\ saved[s].state \in {"none", "starting"} => saved[s].cmd = "none"
        /\ saved[s].state \notin {"ended", "adrift"}

Durable ==
    /\ MemoryMarks
    /\ DiskMarks
    /\ At("launch", "commit") \/ At("launch", "accept") =>
          (work.session \in panes \ declared => sess[work.session].cmd # "none")
    /\ At("launch", "accept") =>
          (work.session \in panes \ declared => saved[work.session].cmd # "none")
    /\ target.state = "accepted" /\ target.locator \in panes \ declared =>
          sess[target.locator].cmd # "none" /\ saved[target.locator].cmd # "none"

LEMMA SnapshotDurable ==
    ASSUME sess \in [Sessions -> Session], MemoryMarks, saved' = Snapshot(sess)
    PROVE  /\ DiskMarks'
           /\ \A s \in (panes \ declared) \cap Sessions : sess[s].cmd # "none" => saved'[s].cmd # "none"
  BY DEF MemoryMarks, DiskMarks, Snapshot, NoSess, Session, SessionState

LEMMA RestoredDurable ==
    ASSUME saved \in [Sessions -> Session], DiskMarks, NEW seen, sess' = Restored(seen), panes' = panes,
           declared' = declared \cup {s \in panes \ seen : saved[s].state # "none"}
    PROVE  /\ MemoryMarks'
           /\ \A s \in (panes \ declared') \cap Sessions : saved[s].cmd # "none" => sess'[s].cmd # "none"
  BY DEF MemoryMarks, DiskMarks, Restored, NoSess, Session, SessionState

\* A step of an operation, or a write of the record, that leaves the sessions
\* alone and neither accepts nor enters the last two steps of a launch.
LEMMA DurableFrame ==
    ASSUME Durable, UNCHANGED <<sess, saved, panes, declared>>,
           \/ work' = work
           \/ ~At("launch", "commit")' /\ ~At("launch", "accept")',
           target'.state = "accepted" => target.state = "accepted" /\ target'.locator = target.locator
    PROVE  Durable'
  BY DEF Durable, MemoryMarks, DiskMarks, At

LEMMA TargetStepDurable ==
    ASSUME IInv, Durable, TargetNext
    PROVE  Durable'
<1>0. /\ target \in TargetRecord /\ work \in Work
      /\ sess \in [Sessions -> Session] /\ saved \in [Sessions -> Session]
      /\ panes \subseteq Sessions
  BY DEF IInv, TypeOK, TargetTypeOK
<1>1. ASSUME NEW r \in reqs, PrepareBegin(r) \/ LaunchBegin(r) \/ LaunchUnread(r) \/ Verify(r) \/ RequestDenied(r)
      PROVE  Durable'
  <2>1. CASE PrepareBegin(r)
    <3>1. work'.op = "prepare" /\ UNCHANGED <<sess, saved, panes, declared>>
      BY <2>1 DEF PrepareBegin, NoWork, sessionVars
    <3>2. target'.state = "accepted" => target.state = "accepted" /\ target'.locator = target.locator
      BY <1>0, <2>1 DEF PrepareBegin, ReceiveTarget, TargetRecord
    <3> QED
      BY <3>1, <3>2, DurableFrame DEF At
  <2>2. CASE LaunchBegin(r)
    <3>1. UNCHANGED <<sess, saved, panes, declared>> /\ (work' = work \/ work'.pc = "revalidate")
      BY <2>2 DEF LaunchBegin, NoWork, sessionVars
    <3>2. target' = target \/ target'.state = "launching"
      BY <1>0, <2>2, TargetTransitionState DEF LaunchBegin
    <3> QED
      BY <3>1, <3>2, DurableFrame DEF At
  <2>3. CASE LaunchUnread(r) \/ Verify(r) \/ RequestDenied(r)
    BY <2>3, DurableFrame DEF LaunchUnread, Verify, RequestDenied, targetVars
  <2> QED
    BY <1>1, <2>1, <2>2, <2>3
<1>2. ASSUME NEW n \in TargetState, n # "accepted", Finish(TransitionTarget(target, n)),
             UNCHANGED <<sess, saved, panes, declared>>
      PROVE  Durable'
  <2>1. target'.state # "accepted" /\ work' = NoWork
    BY <1>0, <1>2, TargetTransitionState DEF Finish
  <2> QED
    BY <1>2, <2>1, DurableFrame DEF At, NoWork
<1>3. ASSUME NEW pc, pc \notin {"commit", "accept"}, Goto(pc), target'.state = target.state,
             target'.state # "accepted" \/ target'.locator = target.locator,
             UNCHANGED <<sess, saved, panes, declared>>
      PROVE  Durable'
  <2>1. work'.pc = pc
    BY <1>0, <1>3 DEF Goto, Work
  <2> QED
    BY <1>3, <2>1, DurableFrame DEF At
<1>4. CASE PrepareResume
  <2>0. UNCHANGED <<sess, saved, panes, declared>>
    BY <1>4 DEF PrepareResume, sessionVars
  <2>1. CASE Finish(target)
    BY <2>0, <2>1, DurableFrame DEF Finish, At, NoWork
  <2>2. CASE Goto("check")
    <3>1. target' = target \/ target'.state = "validating"
      BY <1>0, <1>4, <2>2, TargetTransitionState DEF PrepareResume, Finish
    <3>2. work'.pc = "check"
      BY <1>0, <2>2 DEF Goto, Work
    <3> QED
      BY <2>0, <3>1, <3>2, DurableFrame DEF At
  <2> QED
    BY <1>4, <2>1, <2>2 DEF PrepareResume
<1>5. CASE PrepareVerdict \/ PrepareWaits
  BY <1>2, <1>5 DEF PrepareVerdict, PrepareWaits, waitForAssets, reject, sessionVars, TargetState
<1>6. CASE LaunchRevalidate \/ LaunchCreateFails \/ LaunchPoll \/ (LaunchReuse /\ reject)
  BY <1>2, <1>3, <1>6 DEF LaunchRevalidate, LaunchCreateFails, LaunchPoll, LaunchReuse,
        waitForLaunch, reject, sessionVars, TargetState
<1>7. CASE /\ LaunchReuse /\ UNCHANGED target
           /\ work' = [work EXCEPT !.pc = "poll", !.session = target.locator]
  <2>1. work'.pc = "poll"
    BY <1>0, <1>7 DEF Work
  <2>2. target'.state # "accepted"
    BY <1>7 DEF LaunchReuse, At, IInv, TargetLock
  <2>3. UNCHANGED <<sess, saved, panes, declared>>
    BY <1>7 DEF LaunchReuse, sessionVars
  <2> QED
    BY <2>1, <2>2, <2>3, DurableFrame DEF At
<1>8. ASSUME NEW s \in Sessions, LaunchFind(s)
      PROVE  Durable'
  <2>1. work'.pc = "persist"
    BY <1>0, <1>8 DEF LaunchFind, Work
  <2> QED
    BY <1>8, <2>1, DurableFrame DEF LaunchFind, At, sessionVars
<1>9. ASSUME NEW s \in Sessions, LaunchCreate(s)
      PROVE  Durable'
  <2>1. work'.pc = "persist"
    BY <1>0, <1>9 DEF LaunchCreate, Work
  <2>2. target'.state # "accepted"
    BY <1>9 DEF LaunchCreate, At, IInv, TargetLock
  <2>3. sess' \in [Sessions -> Session]
    BY <1>0, <1>9 DEF LaunchCreate, Session, SessionState, Command
  <2>4. MemoryMarks'
    BY <1>0, <1>9 DEF LaunchCreate, Durable, MemoryMarks, Session
  <2>5. DiskMarks'
    <3>1. CASE saved' = saved
      BY <3>1 DEF Durable, DiskMarks
    <3>2. CASE saved' = Snapshot(sess')
      BY <2>3, <2>4, <3>2 DEF MemoryMarks, DiskMarks, Snapshot, NoSess, Session, SessionState
    <3> QED
      BY <1>9, <3>1, <3>2 DEF LaunchCreate
  <2> QED
    BY <2>1, <2>2, <2>4, <2>5 DEF Durable, At
<1>10. CASE LaunchPersist
  <2>1. target'.state # "accepted"
    BY <1>0, <1>10, TargetTransitionState
       DEF LaunchPersist, At, IInv, TargetLock, waitForLaunch, Finish
  <2>2. work'.pc \notin {"commit", "accept"}
    BY <1>0, <1>10 DEF LaunchPersist, Goto, Work, waitForLaunch, Finish, NoWork
  <2>3. MemoryMarks' /\ DiskMarks'
    BY <1>0, <1>10, SnapshotDurable DEF LaunchPersist, Durable, MemoryMarks, DiskMarks
  <2> QED
    BY <2>1, <2>2, <2>3 DEF Durable, At
<1>11. CASE LaunchRecordLocator
  <2>1. target.state = "launching" /\ target'.state = target.state
    BY <1>0, <1>11 DEF LaunchRecordLocator, At, IInv, TargetLock, RecordTargetLaunchLocator, TargetRecord
  <2> QED
    BY <1>3, <1>11, <2>1 DEF LaunchRecordLocator, sessionVars
<1>12. CASE LaunchDeliver
  <2>0. work.session \in Sessions /\ target.state = "launching" /\ UNCHANGED <<saved, panes, declared>>
    BY <1>12 DEF LaunchDeliver, At, IInv, TargetLock
  <2>1. target'.state # "accepted"
    BY <1>0, <1>12, <2>0, TargetTransitionState DEF LaunchDeliver, waitForLaunch, Finish
  <2>2. work'.pc \notin {"commit", "accept"}
    BY <1>0, <1>12 DEF LaunchDeliver, Goto, Work, waitForLaunch, Finish, NoWork
  <2>3. \/ sess' = [sess EXCEPT ![work.session] = [state |-> "working", cmd |-> "launch"]]
        \/ sess' = [sess EXCEPT ![work.session].state = "stuck"]
    BY <1>12 DEF LaunchDeliver
  <2>4. MemoryMarks'
    BY <1>0, <2>0, <2>3 DEF Durable, MemoryMarks, Session, SessionState
  <2>5. DiskMarks'
    BY <2>0 DEF Durable, DiskMarks
  <2> QED
    BY <2>1, <2>2, <2>4, <2>5 DEF Durable, At
<1>13. CASE LaunchConfirm
  <2>0. target.state = "launching" /\ UNCHANGED <<sess, saved, panes, declared>>
    BY <1>13 DEF LaunchConfirm, At, IInv, TargetLock, sessionVars
  <2>1. CASE reject
    BY <1>2, <2>0, <2>1 DEF reject, TargetState
  <2>2. CASE sess[work.session].cmd = "launch" /\ Goto("commit") /\ UNCHANGED target
    <3>1. work'.pc = "commit" /\ work'.session = work.session
      BY <1>0, <2>2 DEF Goto, Work
    <3> QED
      BY <2>0, <2>2, <3>1 DEF Durable, MemoryMarks, DiskMarks, At
  <2> QED
    BY <1>13, <2>1, <2>2 DEF LaunchConfirm
<1>14. CASE LaunchCommit
  <2>0. target.state = "launching" /\ UNCHANGED <<sess, panes, declared>>
    BY <1>14 DEF LaunchCommit, At, IInv, TargetLock
  <2>1. CASE waitForLaunch /\ UNCHANGED saved
    BY <1>2, <2>0, <2>1 DEF waitForLaunch, TargetState
  <2>2. CASE saved' = Snapshot(sess) /\ Goto("accept") /\ UNCHANGED target
    <3>1. work'.pc = "accept" /\ work'.session = work.session
      BY <1>0, <2>2 DEF Goto, Work
    <3>2. work.session \in panes \ declared => sess[work.session].cmd # "none"
      BY <1>14 DEF LaunchCommit, Durable
    <3>3. work.session \in panes \ declared => saved'[work.session].cmd # "none"
      BY <1>0, <2>2, <3>2, SnapshotDurable DEF Durable
    <3>4. MemoryMarks' /\ DiskMarks'
      BY <1>0, <2>0, <2>2, SnapshotDurable DEF Durable, MemoryMarks
    <3> QED
      BY <2>0, <2>2, <3>1, <3>2, <3>3, <3>4 DEF Durable, At
  <2> QED
    BY <1>14, <2>1, <2>2 DEF LaunchCommit
<1>15. CASE LaunchAccept
  <2>0. UNCHANGED <<sess, saved, panes, declared>> /\ work' = NoWork
    BY <1>15 DEF LaunchAccept, sessionVars, Finish
  <2>1. target'.locator = target.locator /\ target.locator = work.session
    BY <1>0, <1>15 DEF LaunchAccept, Finish, TransitionTarget, TargetRecord, TargetLocatorStates,
          At, IInv, TargetLock
  <2>2. work.session \in panes \ declared => sess[work.session].cmd # "none" /\ saved[work.session].cmd # "none"
    BY <1>15 DEF LaunchAccept, Durable
  <2> QED
    BY <2>0, <2>1, <2>2 DEF Durable, MemoryMarks, DiskMarks, At, NoWork
<1>16. CASE WorkAborts
  BY <1>16, DurableFrame DEF WorkAborts, sessionVars, At, NoWork
<1>17. CASE Reconcile
  <2>1. UNCHANGED <<sess, saved, panes, declared>> /\ work'.pc \in {"resume", "revalidate"}
    BY <1>17 DEF Reconcile, sessionVars, NoWork
  <2>2. target' = target \/ target'.state = "launching"
    BY <1>0, <1>17, TargetTransitionState DEF Reconcile
  <2> QED
    BY <2>1, <2>2, DurableFrame DEF At
<1>18. CASE TargetRetryDue \/ \E a \in Acks : AckRead(a) \/ AckWrite(a)
  <2>1. UNCHANGED <<sess, saved, panes, declared, work>>
    BY <1>18 DEF TargetRetryDue, AckRead, AckWrite, sessionVars
  <2>2. target'.state = target.state /\ target'.locator = target.locator
    BY <1>0, <1>18 DEF TargetRetryDue, AckRead, AckWrite, AcknowledgeTarget, TargetRecord
  <2> QED
    BY <2>1, <2>2, DurableFrame
<1>19. ASSUME NEW s \in Sessions,
              \/ HandshakeEnds(s) \/ MonitorTick(s) \/ OtherPrompt(s) \/ OtherPromptFails(s)
       PROVE  Durable'
  <2>0. UNCHANGED <<target, work, saved, panes>> /\ declared \subseteq declared'
    BY <1>19 DEF HandshakeEnds, MonitorTick, PaneNotFound, OtherPrompt, OtherPromptFails, SetSess
  <2>1. \A t \in Sessions : sess[t].cmd # "none" => sess'[t].cmd # "none"
    BY <1>0, <1>19 DEF HandshakeEnds, MonitorTick, PaneNotFound, OtherPrompt,
          OtherPromptFails, SetSess, Session
  <2>2. MemoryMarks'
    BY <1>0, <1>19 DEF HandshakeEnds, MonitorTick, PaneNotFound, OtherPrompt, OtherPromptFails, SetSess,
          Session, SessionState, Durable, MemoryMarks
  <2> QED
    BY <1>0, <2>0, <2>1, <2>2 DEF Durable, DiskMarks, At
<1>20. ASSUME NEW s \in Sessions, PaneExits(s)
       PROVE  Durable'
  BY <1>20 DEF PaneExits, Durable, MemoryMarks, DiskMarks, At
<1>21. CASE PersistSessions
  <2>1. /\ UNCHANGED <<target, work, sess, panes, declared>> /\ DiskMarks'
        /\ \A s \in panes \ declared : sess[s].cmd # "none" => saved'[s].cmd # "none"
    BY <1>0, <1>21, SnapshotDurable DEF PersistSessions, Durable
  <2> QED
    BY <2>1 DEF Durable, MemoryMarks, At
<1>22. CASE TargetCrash
  <2>1. /\ UNCHANGED <<target, saved, panes>> /\ MemoryMarks' /\ work' = NoWork
        /\ declared \subseteq declared'
        /\ \A s \in panes \ declared' : saved[s].cmd # "none" => sess'[s].cmd # "none"
    BY <1>0, <1>22, RestoredDurable DEF TargetCrash, Durable
  <2> QED
    BY <2>1 DEF Durable, DiskMarks, At, NoWork
<1> QED
  BY <1>1, <1>4, <1>5, <1>6, <1>7, <1>8, <1>9, <1>10, <1>11, <1>12, <1>13, <1>14, <1>15, <1>16,
     <1>17, <1>18, <1>19, <1>20, <1>21, <1>22 DEF TargetNext, LaunchReuse

LEMMA DurableInvariance == Spec => []Durable
<1>1. Init => Durable
  BY DEF Init, TargetInit, Durable, MemoryMarks, DiskMarks, At, NoWork, NoSess, NoTarget, Absent
<1>2. IInv /\ Durable /\ [Next]_vars => Durable'
  <2> SUFFICES ASSUME IInv, Durable, [Next]_vars PROVE Durable'
    OBVIOUS
  <2>1. CASE UNCHANGED targetVars
    BY <2>1, DurableFrame DEF targetVars
  <2> QED
    BY <2>1, TargetStepDurable DEF Next, vars
<1> QED
  BY <1>1, <1>2, Invariance, PTL DEF Spec

\* A restart of the target finds an accepted continuation: while its pane
\* lives and no failed tmux query had it called dead, the session inventory
\* on disk has it with its delivery evidence.
THEOREM AcceptedIsDurable == Spec => []AcceptedSurvivesRestart
<1>1. ASSUME IInv, Durable PROVE AcceptedSurvivesRestart
  BY <1>1 DEF IInv, Evidence, Durable, DiskMarks, AcceptedSurvivesRestart
<1> QED
  BY <1>1, Invariance, DurableInvariance, PTL

-----------------------------------------------------------------------------
(* A handoff the source gave up on.                                         *)

\* The states of a target whose preparation succeeded or was refused.
Decided == {"prepared", "launching", "launch_waiting_assets", "accepted", "rejected"}

\* The one call the lock holder waits for is a request, or is being served, or
\* is answered.
OneCall ==
    /\ \A r \in reqs : r.live => r.method = op /\ ~serving /\ reply.kind = "none"
    /\ serving => op \in {"prepare", "launch"} /\ work.op = op /\ reply.kind = "none"

\* How far the source and a response have come, the target has come.
Progress ==
    /\ granted => source.state \notin
          {Absent, "queued", "preparing_remote", "retry_wait", "remote_prepared"}
    /\ granted \/ source.state = "remote_prepared" \/ reply.state = "prepared" =>
          target.state \in Decided
    /\ reply.state = "rejected" => target.state = "rejected"

\* The responses a launch call can get.
LaunchAnswered ==
    op = "launch" =>
        /\ reply.kind # "invalid_request"
        /\ reply.kind = "status" =>
              reply.state \in {"launching", "launch_waiting_assets", "accepted", "rejected"}

GivenUp == source.state = "failed" /\ granted => target.state = "rejected" \/ misled

Settled == OneCall /\ Progress /\ LaunchAnswered /\ GivenUp

\* While nobody waits for a response there is neither request nor handler for it.
LEMMA NoCallOut ==
    ASSUME ChannelTypeOK, OneCall, op \notin Methods \/ reply.kind # "none"
    PROVE  ~serving /\ \A r \in reqs : ~r.live
  BY DEF ChannelTypeOK, Request, Methods, OneCall

\* A source step keeps Settled when it keeps the state of its record and
\* either leaves the call alone or ends it.
LEMMA SettledFrame ==
    ASSUME Settled, UNCHANGED <<granted, targetVars>>, source'.state = source.state, misled => misled',
           \/ UNCHANGED <<channelVars, op>>
           \/ reply' = NoReply /\ ~serving' /\ \A r \in reqs' : ~r.live
    PROVE  Settled'
<1> USE DEF Settled
<1>0. target' = target /\ work' = work
  BY DEF targetVars
<1>1. CASE UNCHANGED <<channelVars, op>>
  BY <1>0, <1>1 DEF channelVars, OneCall, Progress, LaunchAnswered, GivenUp
<1>2. CASE reply' = NoReply /\ ~serving' /\ \A r \in reqs' : ~r.live
  BY <1>0, <1>2 DEF NoReply, Absent, OneCall, Progress, LaunchAnswered, GivenUp
<1> QED
  BY <1>1, <1>2

LEMMA CallSettled ==
    ASSUME IInv, Settled, op = "none", NEW m \in Methods, Call(m), op' = m, UNCHANGED targetVars
    PROVE  /\ OneCall' /\ LaunchAnswered'
           /\ reply' = NoReply /\ target' = target
<1>1. ~serving /\ \A r \in reqs : ~r.live
  BY NoCallOut DEF Settled, IInv, TypeOK, Methods
<1>2. reply' = NoReply /\ ~serving' /\ \A r \in reqs' : r.live => r.method = m
  BY <1>1 DEF Call
<1>3. OneCall'
  BY <1>2 DEF OneCall, NoReply
<1>4. LaunchAnswered'
  BY <1>2 DEF LaunchAnswered, NoReply
<1> QED
  BY <1>2, <1>3, <1>4 DEF targetVars

\* A response that is written into the source record ends the call.
LEMMA WritesSettled ==
    ASSUME IInv, Settled, NEW r, SourceWrites(r), UNCHANGED targetVars,
           reply.kind # "none" \/ op \notin Methods
    PROVE  /\ OneCall' /\ LaunchAnswered' /\ source' = r /\ granted' = granted
           /\ reply' = NoReply /\ target' = target
           /\ misled \/ (op = "launch" /\ r.state = "failed" /\ reply.kind = "unrecognized") => misled'
<1>1. ~serving /\ \A q \in reqs : ~q.live
  BY NoCallOut DEF Settled, IInv, TypeOK
<1>2. /\ reply' = NoReply /\ reqs' = reqs /\ serving' = serving /\ op' = "none"
      /\ source' = r /\ granted' = granted
  BY DEF SourceWrites
<1>3. OneCall'
  BY <1>1, <1>2 DEF OneCall
<1>4. LaunchAnswered'
  BY <1>2 DEF LaunchAnswered
<1>5. CASE misled \/ (op = "launch" /\ r.state = "failed" /\ reply.kind = "unrecognized")
  <2>1. misled'
    BY <1>5 DEF SourceWrites
  <2> QED
    BY <1>2, <1>3, <1>4, <2>1 DEF targetVars
<1>6. CASE ~(misled \/ (op = "launch" /\ r.state = "failed" /\ reply.kind = "unrecognized"))
  BY <1>2, <1>3, <1>4, <1>6 DEF targetVars
<1> QED
  BY <1>5, <1>6

\* A source that was once misled stays recorded as misled.
LEMMA MisledStays ==
    ASSUME SourceNext, misled
    PROVE  misled'
<1>1. \A r : SourceWrites(r) => misled'
  BY DEF SourceWrites
<1>2. CASE PrepareReply \/ LaunchReply \/ VerifyReply \/ SourceWriteFails
  BY <1>1, <1>2 DEF PrepareReply, LaunchReply, VerifyReply, SourceWriteFails,
        transitionRetry, transitionLaunchRetry, transitionFailed
<1>3. CASE ~(PrepareReply \/ LaunchReply \/ VerifyReply \/ SourceWriteFails)
  BY <1>1, <1>3 DEF SourceNext, SourcePrepare, attempt, attemptLaunch, SourceLaunch, SourceRetry,
        SourceVerify, SourceRetryDue, CallFails, Retire, RetirePending, CloseSource, ConfirmClosed,
        SourceReconcile, PromptSubmit, TurnEnd, LocalExits, LocalChanges, SourceCrash
<1> QED
  BY <1>2, <1>3

LEMMA SourceStepSettled ==
    ASSUME IInv, Settled, SourceNext, UNCHANGED targetVars
    PROVE  Settled'
<1>m. misled => misled'
  BY MisledStays
<1>0. /\ source \in SourceRecord /\ target' = target /\ ChannelTypeOK
      /\ OneCall /\ Progress /\ LaunchAnswered /\ GivenUp
  BY DEF IInv, TypeOK, SourceTypeOK, targetVars, Settled
<1>1. CASE SourcePrepare
  <2>1. source.state = Absent /\ source'.state = "queued" /\ UNCHANGED <<channelVars, op, granted>>
    BY <1>1 DEF SourcePrepare, QueueSource, NoSource
  <2>2. OneCall' /\ LaunchAnswered'
    BY <1>0, <1>m, <2>1 DEF OneCall, LaunchAnswered, channelVars, targetVars
  <2> QED
    BY <1>0, <1>m, <2>1, <2>2 DEF Settled, Progress, GivenUp, channelVars
<1>2. ASSUME NEW force \in BOOLEAN, attempt(force)
      PROVE  Settled'
  <2>1. OneCall' /\ LaunchAnswered' /\ reply' = NoReply
    BY <1>2, CallSettled DEF attempt, Methods
  <2>2. ~granted' /\ source'.state = "preparing_remote"
    BY <1>0, <1>2, SourceTransitionState DEF attempt, Progress
  <2> QED
    BY <1>0, <1>m, <2>1, <2>2 DEF Settled, Progress, GivenUp, NoReply, Absent
<1>3. ASSUME NEW force \in BOOLEAN, attemptLaunch(force)
      PROVE  Settled'
  <2>1. OneCall' /\ LaunchAnswered' /\ reply' = NoReply
    BY <1>3, CallSettled DEF attemptLaunch, Methods
  <2>2. granted' = granted /\ source'.state = "launching_remote"
    BY <1>0, <1>3, SourceTransitionState DEF attemptLaunch
  <2> QED
    BY <1>0, <1>m, <2>1, <2>2 DEF Settled, Progress, GivenUp, NoReply, Absent
<1>4. CASE SourceLaunch
  <2>1. OneCall' /\ LaunchAnswered' /\ reply' = NoReply
    BY <1>4, CallSettled DEF SourceLaunch, Methods
  <2>2. target.state \in Decided /\ source'.state = "launching_remote"
    BY <1>0, <1>4, SourceTransitionState DEF SourceLaunch, Progress
  <2> QED
    BY <1>0, <1>m, <2>1, <2>2 DEF Settled, Progress, GivenUp, NoReply, Absent
<1>5. CASE SourceVerify
  <2>1. OneCall' /\ LaunchAnswered' /\ reply' = NoReply
    BY <1>5, CallSettled DEF SourceVerify, Methods
  <2>2. granted' = granted /\ source' = source
    BY <1>5 DEF SourceVerify
  <2> QED
    BY <1>0, <1>m, <2>1, <2>2 DEF Settled, Progress, GivenUp, NoReply, Absent
<1>6. CASE PrepareReply
  <2>1. ~granted
    BY <1>0, <1>6 DEF PrepareReply, IInv, SourceLock, Progress
  <2>2. PICK next \in {"remote_prepared", "retry_wait", "failed"} :
           /\ SourceWrites(TransitionSource(source, next, NoSession))
           /\ next = "remote_prepared" => reply.state = "prepared"
    BY <1>6 DEF PrepareReply, transitionRetry, transitionFailed
  <2>3. /\ OneCall' /\ LaunchAnswered' /\ reply' = NoReply /\ granted' = granted
        /\ source' = TransitionSource(source, next, NoSession)
    BY <1>6, <2>2, WritesSettled DEF PrepareReply
  <2>4. source'.state = next
    BY <1>0, <1>m, <2>3, SourceTransitionState
  <2> QED
    BY <1>0, <1>m, <2>1, <2>2, <2>3, <2>4 DEF Settled, Progress, GivenUp, NoReply, Absent
<1>7. CASE LaunchReply
  <2>1. reply.state = "accepted" => reply.locator # NoSession
    BY DEF IInv, Answers, RecordsValid, ValidTarget
  <2>2. PICK next \in {"accepted", "launch_retry_wait", "failed"}, l \in Sessions \cup {NoSession} :
           /\ SourceWrites(TransitionSource(source, next, l))
           /\ next = "failed" => reply.state = "rejected" \/ reply.kind = "unrecognized"
    BY <1>0, <1>7, <2>1 DEF LaunchReply, LaunchAnswered, sourceLaunchCallRetryable,
          transitionLaunchRetry, transitionFailed, ChannelTypeOK, Reply
  <2>3. /\ OneCall' /\ LaunchAnswered' /\ reply' = NoReply /\ granted' = granted
        /\ source' = TransitionSource(source, next, l)
        /\ TransitionSource(source, next, l).state = "failed" /\ reply.kind = "unrecognized" => misled'
    BY <1>7, <2>2, WritesSettled DEF LaunchReply
  <2>4. source'.state = next
    BY <1>0, <1>m, <2>3, SourceTransitionState
  <2> QED
    BY <1>0, <1>m, <2>2, <2>3, <2>4 DEF Settled, Progress, GivenUp, NoReply, Absent
<1>8. CASE CallFails
  <2>1. reply' = NoReply /\ ~serving' /\ \A r \in reqs' : ~r.live
    BY <1>0, <1>8 DEF CallFails, Abandon, ChannelTypeOK, Request
  <2>2. OneCall' /\ LaunchAnswered'
    BY <1>8, <2>1 DEF CallFails, OneCall, LaunchAnswered
  <2>3. /\ granted' = granted
        /\ \/ source'.state = "retry_wait" /\ ~granted
           \/ source'.state = "launch_retry_wait"
           \/ source'.state = source.state
    BY <1>0, <1>8, SourceTransitionState DEF CallFails, IInv, SourceLock, Progress
  <2> QED
    BY <1>0, <1>m, <2>1, <2>2, <2>3 DEF Settled, Progress, GivenUp, NoReply, Absent
<1>9. CASE VerifyReply \/ SourceWriteFails
  <2>1. PICK r : SourceWrites(r) /\ r.state = source.state
    <3>1. \A a : RecordSourceContextLoaded(source, a).state = source.state
      BY <1>0 DEF RecordSourceContextLoaded, SourceRecord
    <3> QED
      BY <1>9, <3>1 DEF VerifyReply, SourceWriteFails
  <2>2. reply.kind # "none" \/ op \notin Methods
    BY <1>9 DEF VerifyReply, SourceWriteFails, Methods
  <2>3. /\ OneCall' /\ LaunchAnswered' /\ reply' = NoReply /\ granted' = granted
        /\ source' = r
    BY <2>1, <2>2, WritesSettled
  <2> QED
    BY <1>0, <1>m, <2>1, <2>3 DEF Settled, Progress, GivenUp, NoReply, Absent
<1>10. CASE SourceRetryDue \/ PromptSubmit \/ TurnEnd \/ LocalExits
  <2>1. UNCHANGED <<channelVars, op, granted>>
    BY <1>10 DEF SourceRetryDue, PromptSubmit, TurnEnd, LocalExits, LocalChanges
  <2>2. source'.state = source.state
    BY <1>0, <1>10 DEF SourceRetryDue, PromptSubmit, TurnEnd, LocalExits, LocalChanges, SourceRecord
  <2> QED
    BY <1>m, <2>1, <2>2, SettledFrame
<1>11. CASE \/ \E mode \in {"immediate", "after_turn_end"} : Retire(mode)
            \/ RetirePending \/ CloseSource \/ ConfirmClosed
            \/ SourceReconcile /\ op' = "retire" /\ UNCHANGED <<channelVars, source, granted>>
  <2>1. UNCHANGED <<channelVars, granted>> /\ op \notin Methods /\ op' \notin Methods
    BY <1>11 DEF Retire, RetirePending, CloseSource, ConfirmClosed, SourceReconcile, Methods,
                 attempt, attemptLaunch
  <2>2. source'.state = source.state
    BY <1>0, <1>11 DEF Retire, RetirePending, CloseSource, ConfirmClosed,
          RequestSourceRetirement, CompleteSourceRetirement, SourceRecord
  <2>3. ~serving /\ \A r \in reqs : ~r.live
    BY <1>0, <2>1, NoCallOut
  <2>4. OneCall' /\ LaunchAnswered'
    BY <2>1, <2>3 DEF OneCall, LaunchAnswered, channelVars, Methods
  <2> QED
    BY <1>0, <1>m, <2>1, <2>2, <2>4 DEF Settled, Progress, GivenUp, channelVars
<1>12. CASE SourceCrash
  <2>1. reply' = NoReply /\ ~serving' /\ \A r \in reqs' : ~r.live
    BY <1>0, <1>12 DEF SourceCrash, Abandon, ChannelTypeOK, Request
  <2> QED
    BY <1>m, <1>12, <2>1, SettledFrame DEF SourceCrash
<1>13. CASE SourceReconcile
  BY <1>2, <1>3, <1>11, <1>13 DEF SourceReconcile
<1>14. CASE SourceRetry
  BY <1>2, <1>3, <1>14 DEF SourceRetry
<1> QED
  BY <1>1, <1>4, <1>5, <1>6, <1>7, <1>8, <1>9, <1>10, <1>11, <1>12, <1>13, <1>14 DEF SourceNext

\* A target never goes back behind its verdict on the preparation, nor behind
\* a rejection, and a response reports the record as it is written.
LEMMA TargetStepProgress ==
    ASSUME IInv, Settled, TargetNext, UNCHANGED sourceVars
    PROVE  Progress' /\ GivenUp'
<1>0. source' = source /\ granted' = granted /\ misled' = misled
  BY DEF sourceVars
<1>1. /\ target.state \in Decided => target'.state \in Decided
      /\ target.state = "rejected" => target'.state = "rejected"
  BY TargetStepLegal DEF TargetTransitionOK, legalTargetTransition, Decided, Absent
<1>2. reply'.state \in {reply.state, Absent, "accepted", target'.state}
  <2>1. ASSUME NEW r, Finish(r) PROVE reply'.state \in {reply.state, target'.state}
    BY <2>1 DEF Finish, Answer, handoffStatusDTO
  <2>2. \A code : ErrorReply(code).state = Absent
    BY DEF ErrorReply, NoReply
  <2>3. ASSUME NEW r \in reqs, PrepareBegin(r) \/ LaunchBegin(r) \/ LaunchUnread(r) \/ Verify(r) \/ RequestDenied(r)
        PROVE  reply'.state \in {reply.state, Absent, "accepted", target'.state}
    BY <2>2, <2>3 DEF PrepareBegin, LaunchBegin, LaunchUnread, Verify, RequestDenied, handoffStatusDTO
  <2>4. CASE \/ PrepareResume \/ PrepareVerdict \/ PrepareWaits \/ LaunchRevalidate
             \/ LaunchReuse \/ LaunchCreateFails \/ LaunchPersist \/ LaunchRecordLocator
             \/ LaunchPoll \/ LaunchConfirm \/ LaunchCommit \/ LaunchAccept
    BY <2>1, <2>4 DEF PrepareResume, PrepareVerdict, PrepareWaits, LaunchRevalidate, LaunchReuse,
          LaunchCreateFails, LaunchPersist, LaunchRecordLocator, LaunchPoll, LaunchConfirm,
          LaunchCommit, LaunchAccept, waitForAssets, waitForLaunch, reject, Goto
  <2>5. CASE LaunchDeliver \/ WorkAborts
    BY <2>1, <2>2, <2>5 DEF LaunchDeliver, WorkAborts, waitForLaunch, Goto, Answer
  <2>6. CASE \/ \E s \in Sessions : LaunchFind(s) \/ LaunchCreate(s)
             \/ Reconcile \/ TargetRetryDue \/ PersistSessions \/ TargetCrash
             \/ \E a \in Acks : AckRead(a) \/ AckWrite(a)
             \/ \E s \in Sessions : \/ HandshakeEnds(s) \/ MonitorTick(s) \/ PaneExits(s)
                                    \/ OtherPrompt(s) \/ OtherPromptFails(s)
    BY <2>6 DEF LaunchFind, LaunchCreate, Reconcile, TargetRetryDue, PersistSessions, TargetCrash,
          AckRead, AckWrite, HandshakeEnds, MonitorTick, PaneNotFound, PaneExits, OtherPrompt, OtherPromptFails,
          SetSess, channelVars
  <2> QED
    BY <2>3, <2>4, <2>5, <2>6 DEF TargetNext
<1>3. Progress'
  BY <1>0, <1>1, <1>2 DEF Settled, Progress, Decided, Absent
<1>4. GivenUp'
  BY <1>0, <1>1 DEF Settled, GivenUp
<1> QED
  BY <1>3, <1>4

\* The call is left alone by a step that leaves the channel and the kind of
\* the operation alone ...
LEMMA CallKept ==
    ASSUME OneCall, LaunchAnswered, UNCHANGED <<reqs, serving, reply, op>>,
           work'.op = work.op \/ ~serving
    PROVE  OneCall' /\ LaunchAnswered'
  BY DEF OneCall, LaunchAnswered

\* ... and is answered, if the operation serves it, when the operation ends.
LEMMA CallAnswered ==
    ASSUME OneCall, LaunchAnswered, NEW x, Answer(x), UNCHANGED <<reqs, op>>,
           work.op = "launch" =>
              /\ x.kind # "invalid_request"
              /\ x.kind = "status" =>
                    x.state \in {"launching", "launch_waiting_assets", "accepted", "rejected"}
    PROVE  OneCall' /\ LaunchAnswered'
<1>1. CASE serving
  BY <1>1 DEF OneCall, LaunchAnswered, Answer
<1>2. CASE ~serving
  BY <1>2 DEF OneCall, LaunchAnswered, Answer
<1> QED
  BY <1>1, <1>2

LEMMA TargetStepSettled ==
    ASSUME IInv, Settled, TargetNext, UNCHANGED sourceVars
    PROVE  Settled'
<1>0. /\ target \in TargetRecord /\ work \in Work /\ ChannelTypeOK
      /\ OneCall /\ Progress /\ LaunchAnswered /\ op' = op /\ serving \in BOOLEAN
      /\ op = "launch" => granted
  BY DEF IInv, TypeOK, TargetTypeOK, ChannelTypeOK, Settled, sourceVars, SourceLock, Authority
<1> SUFFICES OneCall' /\ LaunchAnswered'
  BY TargetStepProgress DEF Settled
<1>i. work = NoWork => ~serving
  BY <1>0 DEF OneCall, NoWork
<1>f. ASSUME NEW n \in TargetState, Finish(TransitionTarget(target, n)), UNCHANGED reqs,
             work.op = "launch" =>
                n \in {"launching", "launch_waiting_assets", "accepted", "rejected"}
      PROVE  OneCall' /\ LaunchAnswered'
  <2>1. Answer(handoffStatusDTO(TransitionTarget(target, n)))
    BY <1>f DEF Finish
  <2>2. handoffStatusDTO(TransitionTarget(target, n)).state = n
    BY <1>0, TargetTransitionState DEF handoffStatusDTO
  <2>3. handoffStatusDTO(TransitionTarget(target, n)).kind = "status"
    BY DEF handoffStatusDTO
  <2> QED
    BY <1>0, <1>f, <2>1, <2>2, <2>3, CallAnswered
<1>g. ASSUME NEW pc, Goto(pc), UNCHANGED reqs PROVE OneCall' /\ LaunchAnswered'
  <2>1. work'.op = work.op
    BY <1>0, <1>g DEF Goto, Work
  <2> QED
    BY <1>0, <1>g, <2>1, CallKept DEF Goto
<1>d. ASSUME NEW r \in reqs, Take(r), UNCHANGED serving, NEW x,
             reply' = IF r.live THEN x ELSE reply,
             work' = work,
             r.live /\ op = "launch" =>
                /\ x.kind # "invalid_request"
                /\ x.kind = "status" =>
                      x.state \in {"launching", "launch_waiting_assets", "accepted", "rejected"}
      PROVE  OneCall' /\ LaunchAnswered'
  <2>0. \A q \in reqs : q.live => q.method = op
    BY <1>0 DEF OneCall
  <2>1. CASE r.live
    <3>1. reqs' = reqs \ {r}
      BY <1>d, <2>1 DEF Take
    <3>2. \A q \in reqs' : ~q.live
      BY <1>0, <1>d, <2>0, <2>1, <3>1 DEF ChannelTypeOK, Request
    <3>3. ~serving /\ reply' = x
      BY <1>0, <1>d, <2>1 DEF OneCall
    <3> QED
      BY <1>0, <1>d, <2>1, <3>2, <3>3 DEF OneCall, LaunchAnswered
  <2>2. CASE ~r.live
    BY <1>0, <1>d, <2>2, TakeEffect DEF OneCall, LaunchAnswered
  <2> QED
    BY <2>1, <2>2
<1>b. ASSUME NEW r \in reqs, Take(r), work = NoWork, work'.op = r.method, r.method \in {"prepare", "launch"},
             serving' = r.live, reply' = reply
      PROVE  OneCall' /\ LaunchAnswered'
  <2>0. \A q \in reqs : q.live => q.method = op /\ reply.kind = "none"
    BY <1>0 DEF OneCall
  <2>1. CASE r.live
    <3>1. reqs' = reqs \ {r}
      BY <1>b, <2>1 DEF Take
    <3>2. \A q \in reqs' : ~q.live
      BY <1>0, <1>b, <2>0, <2>1, <3>1 DEF ChannelTypeOK, Request
    <3> QED
      BY <1>0, <1>b, <2>0, <2>1, <3>2 DEF OneCall, LaunchAnswered
  <2>2. CASE ~r.live
    BY <1>0, <1>b, <1>i, <2>2, TakeEffect DEF OneCall, LaunchAnswered
  <2> QED
    BY <2>1, <2>2
<1>1. ASSUME NEW r \in reqs, PrepareBegin(r) PROVE OneCall' /\ LaunchAnswered'
  <2>1. work'.op = "prepare"
    BY <1>1 DEF PrepareBegin, NoWork
  <2> QED
    BY <1>1, <1>b, <2>1 DEF PrepareBegin
<1>2. ASSUME NEW r \in reqs, LaunchBegin(r) PROVE OneCall' /\ LaunchAnswered'
  <2>1. r.live => op = "launch"
    BY <1>0, <1>2 DEF LaunchBegin, OneCall
  <2>2. CASE work' = [NoWork EXCEPT !.op = "launch", !.pc = "revalidate"] /\ serving' = r.live /\ UNCHANGED reply
    <3>1. work'.op = "launch"
      BY <2>2 DEF NoWork
    <3> QED
      BY <1>2, <1>b, <2>2, <3>1 DEF LaunchBegin
  <2>3. CASE /\ target.state \in {"accepted", "rejected"} /\ UNCHANGED <<work, serving>>
             /\ reply' = IF r.live THEN handoffStatusDTO(target) ELSE reply
    <3>1. handoffStatusDTO(target).kind = "status" /\ handoffStatusDTO(target).state = target.state
      BY DEF handoffStatusDTO
    <3> QED
      BY <1>2, <1>d, <2>3, <3>1 DEF LaunchBegin
  <2>4. CASE /\ target.state \in {Absent, "received", "validating", "waiting_assets"}
             /\ reply' = IF r.live THEN ErrorReply("invalid_request") ELSE reply
             /\ UNCHANGED <<work, serving>>
    <3>1. ~r.live
      BY <1>0, <2>1, <2>4 DEF Progress, Decided, Absent
    <3> QED
      BY <1>2, <1>d, <2>4, <3>1 DEF LaunchBegin
  <2> QED
    BY <1>2, <2>2, <2>3, <2>4 DEF LaunchBegin
<1>3. ASSUME NEW r \in reqs, Verify(r) PROVE OneCall' /\ LaunchAnswered'
  <2>1. r.live => op = "verify"
    BY <1>0, <1>3 DEF Verify, OneCall
  <2>2. PICK x : reply' = IF r.live THEN x ELSE reply
    BY <1>3 DEF Verify
  <2> QED
    BY <1>3, <1>d, <2>1, <2>2 DEF Verify, targetVars
<1>4. ASSUME NEW r \in reqs, RequestDenied(r) PROVE OneCall' /\ LaunchAnswered'
  <2>1. r.live /\ r.method = op
    BY <1>0, <1>4 DEF RequestDenied, OneCall
  <2>2. \/ reply' = ErrorReply("permission_denied")
        \/ op = "prepare" /\ reply' = ErrorReply("invalid_request")
        \/ reply' = ErrorReply("unrecognized")
    BY <1>4, <2>1 DEF RequestDenied
  <2>3. \A code : ErrorReply(code).kind = code
    BY DEF ErrorReply, NoReply
  <2> QED
    BY <1>4, <1>d, <2>1, <2>2, <2>3 DEF RequestDenied, targetVars
<1>u. ASSUME NEW r \in reqs, LaunchUnread(r) PROVE OneCall' /\ LaunchAnswered'
  <2>1. ErrorReply("unrecognized").kind = "unrecognized"
    BY DEF ErrorReply, NoReply
  <2> QED
    BY <1>u, <1>d, <2>1 DEF LaunchUnread, targetVars
<1>5. CASE PrepareResume
  <2>1. CASE Finish(target)
    <3>1. Answer(handoffStatusDTO(target)) /\ work.op # "launch"
      BY <1>5, <2>1 DEF Finish, PrepareResume, At
    <3> QED
      BY <1>0, <1>5, <3>1, CallAnswered DEF PrepareResume
  <2> QED
    BY <1>5, <1>g, <2>1 DEF PrepareResume
<1>6. CASE PrepareVerdict \/ PrepareWaits
  BY <1>6, <1>f DEF PrepareVerdict, PrepareWaits, waitForAssets, reject, At, TargetState
<1>7. CASE \/ LaunchRevalidate \/ LaunchCreateFails \/ LaunchPersist \/ LaunchRecordLocator
           \/ LaunchPoll \/ LaunchConfirm \/ LaunchCommit \/ LaunchAccept
  BY <1>7, <1>f, <1>g DEF LaunchRevalidate, LaunchCreateFails, LaunchPersist, LaunchRecordLocator,
        LaunchPoll, LaunchConfirm, LaunchCommit, LaunchAccept, waitForLaunch, reject, TargetState
<1>8. CASE LaunchReuse
  <2>1. CASE reject
    BY <1>8, <1>f, <2>1 DEF LaunchReuse, reject, TargetState
  <2>2. CASE work' = [work EXCEPT !.pc = "poll", !.session = target.locator] /\ UNCHANGED <<serving, reply>>
    <3>1. work'.op = work.op
      BY <1>0, <2>2 DEF Work
    <3> QED
      BY <1>0, <1>8, <2>2, <3>1, CallKept DEF LaunchReuse
  <2> QED
    BY <1>8, <2>1, <2>2 DEF LaunchReuse
<1>9. CASE LaunchDeliver \/ WorkAborts
  <2>1. CASE Answer(ErrorReply("internal"))
    <3>1. ErrorReply("internal").kind = "internal"
      BY DEF ErrorReply, NoReply
    <3> QED
      BY <1>0, <1>9, <2>1, <3>1, CallAnswered DEF LaunchDeliver, WorkAborts
  <2> QED
    BY <1>9, <1>f, <1>g, <2>1 DEF LaunchDeliver, WorkAborts, waitForLaunch, TargetState
<1>10. CASE \E s \in Sessions : LaunchFind(s) \/ LaunchCreate(s)
  <2>1. work'.op = work.op
    BY <1>0, <1>10 DEF LaunchFind, LaunchCreate, Work
  <2> QED
    BY <1>0, <1>10, <2>1, CallKept DEF LaunchFind, LaunchCreate, channelVars
<1>11. CASE Reconcile
  BY <1>0, <1>11, <1>i, CallKept DEF Reconcile, channelVars
<1>12. CASE \/ TargetRetryDue \/ PersistSessions
            \/ \E a \in Acks : AckRead(a) \/ AckWrite(a)
            \/ \E s \in Sessions : \/ HandshakeEnds(s) \/ MonitorTick(s) \/ PaneExits(s)
                                   \/ OtherPrompt(s) \/ OtherPromptFails(s)
  BY <1>0, <1>12, CallKept DEF TargetRetryDue, PersistSessions, AckRead, AckWrite, HandshakeEnds,
        MonitorTick, PaneNotFound, PaneExits, OtherPrompt, OtherPromptFails, SetSess, channelVars
<1>13. CASE TargetCrash
  BY <1>0, <1>13 DEF TargetCrash, OneCall, LaunchAnswered
<1> QED
  BY <1>1, <1>2, <1>3, <1>4, <1>u, <1>5, <1>6, <1>7, <1>8, <1>9, <1>10, <1>11, <1>12, <1>13 DEF TargetNext

LEMMA SettledInvariance == Spec => []Settled
<1>1. Init => Settled
  BY DEF Init, ChannelInit, SourceInit, NoSource, NoReply, Absent,
         Settled, OneCall, Progress, LaunchAnswered, GivenUp
<1>2. IInv /\ Settled /\ [Next]_vars => Settled'
  <2> SUFFICES ASSUME IInv, Settled, [Next]_vars PROVE Settled'
    OBVIOUS
  <2>1. ASSUME reqs' \subseteq reqs, UNCHANGED <<serving, reply, sourceVars, targetVars>>
        PROVE  Settled'
    BY <2>1 DEF sourceVars, targetVars, Settled, OneCall, Progress, LaunchAnswered, GivenUp
  <2>2. CASE (\E r \in reqs : RequestLost(r)) /\ UNCHANGED <<sourceVars, targetVars>>
    BY <2>1, <2>2, TakeEffect DEF RequestLost
  <2>3. CASE UNCHANGED vars
    BY <2>1, <2>3 DEF vars, channelVars
  <2> QED
    BY <2>2, <2>3, SourceStepSettled, TargetStepSettled DEF Next
<1> QED
  BY <1>1, <1>2, Invariance, PTL DEF Spec

\* A handoff the source has recorded as failed is not accepted at the target,
\* now or later, unless the target said of a launch call that it does not
\* recognize the handoff: giving up after a timeout, a denied call or any
\* other answer never leaves a second owner.
THEOREM FailedIsNotRunning == Spec => []FailedNeverAccepted
<1>1. ASSUME IInv, Settled PROVE FailedNeverAccepted
  BY <1>1 DEF IInv, Authority, LaunchStates, Settled, GivenUp, FailedNeverAccepted
<1> QED
  BY <1>1, Invariance, SettledInvariance, PTL

-----------------------------------------------------------------------------
(* Refinement of HandoffSpec.                                               *)

\* Steps that change nothing the abstract specification sees.
LEMMA AbstractStutter ==
    ASSUME granted' = granted, closed' = closed,
           \A s \in Sessions : sent'[s] > 0 <=> sent[s] > 0,
           target'.loaded # NoAck <=> target.loaded # NoAck
    PROVE  UNCHANGED Abstract!specVars
<1>1. {s \in Sessions : sent'[s] > 0} = {s \in Sessions : sent[s] > 0}
  OBVIOUS
<1>2. (target'.loaded # NoAck) = (target.loaded # NoAck)
  BY Zenon
<1> QED
  BY <1>1, <1>2, Zenon DEF Abstract!specVars

LEMMA AbstractInit == Init => Abstract!SpecInit
<1> SUFFICES ASSUME Init PROVE Abstract!SpecInit
  OBVIOUS
<1>1. granted = FALSE /\ closed = "no" /\ target = NoTarget
  BY Zenon DEF Init, SourceInit, TargetInit
<1>2. {s \in Sessions : sent[s] > 0} = {}
  <2>1. ASSUME NEW s \in Sessions PROVE ~(sent[s] > 0)
    <3>1. sent[s] = 0
      BY Zenon DEF Init, TargetInit
    <3> QED
      BY <3>1
  <2> QED
    BY <2>1
<1>3. (target.loaded # NoAck) = FALSE
  BY <1>1 DEF NoTarget
<1>4. (closed # "no") = FALSE
  BY <1>1
<1> QED
  BY <1>1, <1>2, <1>3, <1>4, Zenon DEF Abstract!SpecInit

LEMMA AbstractNext == IInv /\ [Next]_vars => [Abstract!SpecNext]_(Abstract!specVars)
<1> SUFFICES ASSUME IInv, [Next]_vars, ~ UNCHANGED Abstract!specVars
             PROVE  Abstract!SpecNext
  OBVIOUS
<1>0. target \in TargetRecord /\ granted \in BOOLEAN /\ closed \in {"no", "clean", "later_turn"}
  BY DEF IInv, TypeOK, TargetTypeOK, SourceTypeOK
\* The four steps the abstract specification sees.
<1>1. CASE SourceLaunch /\ UNCHANGED targetVars
  <2>1. granted' = TRUE /\ closed' = closed /\ target' = target /\ sent' = sent
    BY <1>1, Zenon DEF SourceLaunch, targetVars
  <2>2. ~granted
    <3> SUFFICES ASSUME granted PROVE FALSE
      OBVIOUS
    <3>1. granted' = granted
      BY <1>0, <2>1, Zenon
    <3> QED
      BY <2>1, <3>1, AbstractStutter
  <2> QED
    BY <2>1, <2>2, Zenon DEF Abstract!SpecNext, Abstract!Authorize
<1>2. CASE CloseSource /\ UNCHANGED targetVars
  <2>1. granted' = granted /\ target' = target /\ sent' = sent /\ op = "closing"
    BY <1>2 DEF CloseSource, targetVars
  <2>2. closed = "no" /\ closed' # "no"
    <3>1. closed' # closed
      BY <2>1, AbstractStutter
    <3>2. local.state = "live" /\ closed' \in {"clean", "later_turn"}
      BY <1>2, <3>1 DEF CloseSource
    <3>3. closed = "no"
      BY <3>2 DEF IInv, Agreement
    <3> QED
      BY <3>2, <3>3
  <2>3. target.loaded # NoAck
    BY <2>1 DEF IInv, SourceLock, RecordsValid, ValidSource, Agreement
  <2>4. (closed # "no") = FALSE /\ (closed' # "no") = TRUE
    BY <2>2
  <2> QED
    BY <2>1, <2>3, <2>4, Zenon DEF Abstract!SpecNext, Abstract!Release
<1>3. CASE LaunchDeliver /\ UNCHANGED sourceVars
  <2>1. /\ granted' = granted /\ closed' = closed
        /\ target.state = "launching" /\ work.session \in Sessions
        /\ target.locator = work.session
    BY <1>3 DEF LaunchDeliver, At, IInv, TargetLock, sourceVars
  <2>2. target'.loaded = target.loaded
    BY <1>0, <1>3 DEF LaunchDeliver, waitForLaunch, Finish, TransitionTarget, TargetRecord
  <2>3. granted
    BY <2>1 DEF IInv, Authority, LaunchStates
  <2>4. Submit(work.session)
    BY <1>3, <2>1, <2>2, AbstractStutter DEF LaunchDeliver
  <2>5. sent'[work.session] > 0 /\ \A s \in Sessions \ {work.session} : sent'[s] = sent[s]
    BY <2>1, <2>4, MaxPromptsAssumption DEF Submit, IInv, TypeOK, TargetTypeOK
  <2>6. ~(sent[work.session] > 0)
    <3> SUFFICES ASSUME sent[work.session] > 0 PROVE FALSE
      OBVIOUS
    <3>1. ASSUME NEW s \in Sessions PROVE sent'[s] > 0 <=> sent[s] > 0
      BY <2>5
    <3> QED
      BY <2>1, <2>2, <3>1, AbstractStutter
  <2>7. ASSUME NEW s \in Sessions PROVE ~(sent[s] > 0)
    BY <2>1, <2>6 DEF IInv, Exclusive
  <2>8. {s \in Sessions : sent[s] > 0} = {}
    BY <2>7
  <2>9. {s \in Sessions : sent'[s] > 0} = {work.session}
    BY <2>1, <2>5, <2>7
  <2> QED
    BY <2>1, <2>2, <2>3, <2>8, <2>9, Zenon DEF Abstract!SpecNext, Abstract!Continue
<1>4. ASSUME NEW a \in Acks, AckWrite(a), UNCHANGED sourceVars
      PROVE  Abstract!SpecNext
  <2>1. granted' = granted /\ closed' = closed /\ sent' = sent
    BY <1>4 DEF AckWrite, sourceVars, sessionVars
  <2>2. target'.loaded # NoAck
    BY <1>0, <1>4, AcksAssumption DEF AckWrite, AcknowledgeTarget, TargetRecord
  <2>3. target.loaded = NoAck
    BY <2>1, <2>2, AbstractStutter
  <2>4. target.state = "accepted"
    BY <1>4 DEF AckWrite, IInv, Evidence
  <2>5. target.locator \in {s \in Sessions : sent[s] > 0}
    BY <2>4 DEF IInv, Evidence
  <2>6. {s \in Sessions : sent[s] > 0} # {}
    BY <2>5
  <2>7. (target.loaded # NoAck) = FALSE /\ (target'.loaded # NoAck) = TRUE
    BY <2>2, <2>3
  <2> QED
    BY <2>1, <2>6, <2>7, Zenon DEF Abstract!SpecNext, Abstract!Load
\* All others are invisible.
<1>5. CASE SourceNext /\ UNCHANGED targetVars
  <2>1. target' = target /\ sent' = sent
    BY <1>5 DEF targetVars
  <2>2. granted' # granted \/ closed' # closed
    BY <2>1, AbstractStutter
  <2>3. SourceLaunch \/ CloseSource
    BY <1>5, <2>2 DEF SourceNext, SourcePrepare, SourceRetry, SourceReconcile, attempt, attemptLaunch,
       SourceVerify, SourceRetryDue, PrepareReply, LaunchReply, VerifyReply, transitionRetry,
       transitionLaunchRetry, transitionFailed, SourceWrites, CallFails, SourceWriteFails, Retire,
       RetirePending, ConfirmClosed, PromptSubmit, TurnEnd, LocalExits, LocalChanges, SourceCrash
  <2> QED
    BY <1>1, <1>2, <1>5, <2>3
<1>6. CASE TargetNext /\ UNCHANGED sourceVars
  <2>1. granted' = granted /\ closed' = closed
    BY <1>6 DEF sourceVars
  <2>2. sent' # sent \/ target'.loaded # target.loaded
    BY <2>1, AbstractStutter
  <2>3. LaunchDeliver \/ \E a \in Acks : AckWrite(a)
    <3> SUFFICES ASSUME ~LaunchDeliver, ~ \E a \in Acks : AckWrite(a)
                 PROVE  sent' = sent /\ target'.loaded = target.loaded
      BY <2>2
    <3>1. sent' = sent
      BY <1>6 DEF TargetNext, PrepareBegin, LaunchBegin, LaunchUnread, Verify, RequestDenied, PrepareResume,
         PrepareVerdict, PrepareWaits, LaunchRevalidate, LaunchReuse, LaunchCreateFails, LaunchFind,
         LaunchCreate, LaunchPersist, LaunchRecordLocator, LaunchPoll, LaunchConfirm, LaunchCommit,
         LaunchAccept, WorkAborts, Reconcile, TargetRetryDue, AckRead, HandshakeEnds, MonitorTick,
         PaneNotFound, PaneExits, OtherPrompt, OtherPromptFails, SetSess, PersistSessions, TargetCrash,
         sessionVars, targetVars
    <3>2. \/ target' \in {target, ReceiveTarget(target), [target EXCEPT !.retry = "due"]}
          \/ \E next : target' = TransitionTarget(target, next)
          \/ \E s : target' = RecordTargetLaunchLocator(target, s)
      BY <1>6 DEF TargetNext, PrepareBegin, LaunchBegin, LaunchUnread, Verify, RequestDenied, PrepareResume,
         PrepareVerdict, PrepareWaits, LaunchRevalidate, LaunchReuse, LaunchCreateFails, LaunchFind,
         LaunchCreate, LaunchPersist, LaunchRecordLocator, LaunchPoll, LaunchConfirm, LaunchCommit,
         LaunchAccept, WorkAborts, Reconcile, TargetRetryDue, AckRead, HandshakeEnds, MonitorTick,
         PaneNotFound, PaneExits, OtherPrompt, OtherPromptFails, SetSess, PersistSessions, TargetCrash,
         targetVars, Finish, waitForAssets, waitForLaunch, reject
    <3>3. target'.loaded = target.loaded
      BY <1>0, <3>2 DEF ReceiveTarget, TransitionTarget, RecordTargetLaunchLocator, TargetRecord
    <3> QED
      BY <3>1, <3>3
  <2> QED
    BY <1>3, <1>4, <1>6, <2>3
<1>7. CASE UNCHANGED <<sourceVars, targetVars>>
  BY <1>7, AbstractStutter DEF sourceVars, targetVars
<1>8. CASE UNCHANGED vars
  BY <1>7, <1>8 DEF vars
<1> QED
  BY <1>5, <1>6, <1>7, <1>8 DEF Next

\* The two daemons implement the abstract handoff, for every set of sessions
\* and acknowledgements: authorize, continue in one session, load, release.
THEOREM Refinement == Spec => ImplementsSpec
  BY AbstractInit, AbstractNext, Invariance, PTL DEF Spec, ImplementsSpec, Abstract!AbstractSpec
=============================================================================
