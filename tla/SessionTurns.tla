---------------------------- MODULE SessionTurns ----------------------------
(***************************************************************************)
(* What the daemon knows of an agent's turns.  The agent's hooks record    *)
(* its events in a document per session (hooks/sessionstate.go); three     *)
(* parts of the daemon read it: the delivery of a prompt waits there for   *)
(* the prompt to be taken in (delivery/controller.go), the health monitor  *)
(* for the end of the turn (health/monitor.go), and the summariser for     *)
(* turns whose goal it can summarise and write back (goal_summarizer.go).  *)
(* Every writer of the document takes its time before it takes the lock.   *)
(***************************************************************************)
EXTENDS Naturals

CONSTANTS
    MaxTurns,       \* bound: prompts the agent takes, and prompts delivered
    MaxExtras,      \* bound: the events that no turn needs
    MaxSubmitAttempts

ASSUME TurnsAssumption == MaxTurns \in Nat /\ MaxExtras \in Nat /\ MaxSubmitAttempts \in Nat \ {0}

VARIABLES
    clock,          \* the times taken so far
    doc,            \* the live state document
    hook,           \* the arcmux hook process under way
    busy, turn,     \* the agent: whether it works, and on which prompt
    composer,       \* a prompt in its input: "pending" needs Enter, "queued" waits
    del,            \* the delivery of a prompt
    delivered,      \* prompts the daemon has delivered, or tried to
    sess, since,    \* the session's state, and WorkingSince
    monitored,      \* whether the session has a monitor: "launch" if its launch
                    \* prompt is still to be delivered, and the monitor to be started
    mon,            \* the monitor's tick under way, with its snapshot's WorkingSince
    sum,            \* the summary under way, with the document it read
    tried,          \* goalSummaryAttempts has this document, less than a minute old
    extras,
    excused,        \* history: since the session was last called working, the agent took
                    \* a prompt, or a turn_end was recorded in the middle of a turn
    owed            \* history: since the last turn_end or claim was recorded, a summary
                    \* was written ("done"), was not ("due"), or seemed to be, by the
                    \* times, when it was recorded ("hidden")

agentVars   == <<busy, turn, composer>>
docVars     == <<doc, hook, owed>>
stateVars   == <<sess, since, excused, monitored>>
daemonVars  == <<del, delivered, stateVars, mon>>
summaryVars == <<sum, tried>>
vars == <<clock, docVars, agentVars, daemonVars, summaryVars, extras>>

None    == 0                                   \* no time, no goal
NoText  == [kind |-> "none", of |-> None]
NoDoc   == [rev |-> 0, turns |-> 0, working |-> FALSE, submitAt |-> None, endAt |-> None,
            goal |-> None, overall |-> NoText, proven |-> FALSE, overallAt |-> None]
NoHook  == [event |-> "none", at |-> None, goal |-> None]
NoDel   == [step |-> "idle", started |-> None, tries |-> 0, dialog |-> FALSE]
NoMon   == [step |-> "idle", since |-> None]
NoSum   == [active |-> FALSE, input |-> NoDoc]
Events  == {"prompt_submit", "tool", "turn_end", "notification",
            "contract", "history"}
Text    == [kind : {"none", "seed", "claim", "summary"}, of : 0 .. MaxTurns]
Doc     == [rev : Nat, turns : Nat, working : BOOLEAN, submitAt : Nat, endAt : Nat,
            goal : 0 .. MaxTurns, overall : Text, proven : BOOLEAN, overallAt : Nat]

TypeOK ==
    /\ clock \in Nat /\ doc \in Doc
    /\ hook \in [event : Events \cup {"none"}, at : Nat, goal : 0 .. MaxTurns]
    /\ busy \in BOOLEAN /\ turn \in 0 .. MaxTurns /\ composer \in {"empty", "pending", "queued"}
    /\ del \in [step : {"idle", "poll"}, started : Nat, tries : 0 .. MaxSubmitAttempts,
                dialog : BOOLEAN]
    /\ delivered \in 0 .. MaxTurns
    /\ sess \in {"idle", "working", "stuck", "exited"} /\ since \in Nat
    /\ monitored \in {"launch", "yes", "no"}
    /\ mon \in [step : {"idle", "read", "marked", "confirmed", "quiet", "stuck", "working"}, since : Nat]
    /\ sum \in [active : BOOLEAN, input : Doc]
    /\ tried \in BOOLEAN
    /\ extras \in 0 .. MaxExtras
    /\ excused \in BOOLEAN /\ owed \in {"due", "done", "hidden"}

Exists(d) == d.rev > 0

(* InitSessionState: the launch prompt is the first overall goal, unproven. *)
Seeded(d, at) ==
    IF d.overall = NoText
    THEN [d EXCEPT !.rev = @ + 1, !.overall = [kind |-> "seed", of |-> None],
                   !.proven = FALSE, !.overallAt = at]
    ELSE [d EXCEPT !.rev = @ + 1]

Init ==
    /\ clock = 1 /\ doc = Seeded(NoDoc, 1) /\ hook = NoHook
    /\ busy = FALSE /\ turn = 0 /\ composer = "empty"
    /\ del = NoDel /\ delivered = 0 /\ sess = "idle" /\ since = None
    /\ monitored \in {"launch", "yes"} /\ mon = NoMon
    /\ sum = NoSum /\ tried = FALSE /\ extras = 0
    /\ excused = FALSE /\ owed = "due"

Now   == clock + 1
Tick  == clock' = clock + 1
Extra == extras < MaxExtras /\ extras' = extras + 1

-----------------------------------------------------------------------------
(* The agent and its hooks *)

(* The agent waits for its hook, or gives up on it (HookDropped).  The     *)
(* time of a hook matters when it is a prompt or the end of a turn.        *)
Hook(event, goal) ==
    /\ hook = NoHook
    /\ IF event \in {"prompt_submit", "turn_end"} THEN Tick ELSE UNCHANGED clock
    /\ hook' = [event |-> event, at |-> clock', goal |-> goal]

(* Any event tells what the agent last said its turn was for, if anything: *)
(* a new prompt still what the last one was for.                           *)
Goals == {None, turn}

Takes(rest) ==
    /\ ~busy /\ turn < MaxTurns /\ sess # "exited"
    /\ busy' = TRUE /\ turn' = turn + 1 /\ excused' = TRUE
    /\ \E goal \in Goals : Hook("prompt_submit", goal)
    /\ composer' = rest
    /\ UNCHANGED <<doc, owed, del, delivered, sess, since, monitored, mon, summaryVars>>

AgentTakes   == composer = "queued" /\ Takes("empty") /\ UNCHANGED extras
HumanPrompts == Takes(composer) /\ Extra

TurnEnds ==
    /\ busy
    /\ busy' = FALSE
    /\ \E goal \in Goals : Hook("turn_end", goal)
    /\ UNCHANGED <<doc, owed, turn, composer, daemonVars, summaryVars, extras>>

(* A tool starts or ends, or a subagent stops, which counts as a turn_end. *)
DuringTurn ==
    /\ busy /\ Extra
    /\ UNCHANGED <<doc, owed, agentVars, daemonVars, summaryVars>>
    /\ \E event \in {"tool", "turn_end"}, goal \in Goals : Hook(event, goal)

AtAnyTime(event) ==
    /\ sess # "exited" /\ Extra
    /\ UNCHANGED <<doc, owed, agentVars, daemonVars, summaryVars>>
    /\ \E goal \in IF event = "history" THEN {None} ELSE Goals : Hook(event, goal)

(* A notification; arcmux hook called for the contract, or the history, alone. *)
Notifies        == AtAnyTime("notification")
StatesContract  == AtAnyTime("contract")
BindsHistory    == AtAnyTime("history")

HookDropped ==
    /\ hook # NoHook /\ Extra
    /\ hook' = NoHook
    /\ UNCHANGED <<clock, doc, owed, agentVars, daemonVars, summaryVars>>

-----------------------------------------------------------------------------
(* The document: mutateSessionState, one locked read-modify-write *)

(* ApplyEventWithContract, but for the contract. *)
Recorded(d, h) ==
    CASE h.event = "prompt_submit" ->
           [d EXCEPT !.working = TRUE, !.turns = @ + 1, !.submitAt = h.at]
      [] h.event = "tool" -> [d EXCEPT !.working = TRUE]
      [] h.event = "turn_end" -> [d EXCEPT !.working = FALSE, !.endAt = h.at]
      [] OTHER -> d

(* Any event may say what the turn is for; a claim about the whole work is *)
(* unproven, and takes the place of a summary and of its proof.            *)
applyTurnContractUpdate(d, h) ==
    LET told == IF h.goal # None THEN [d EXCEPT !.goal = h.goal] ELSE d
    IN IF h.event = "contract"
       THEN [told EXCEPT !.overall = [kind |-> "claim", of |-> None], !.proven = FALSE,
                         !.overallAt = h.at]
       ELSE told

ApplyHook ==
    /\ hook # NoHook
    /\ hook' = NoHook
    /\ doc' = applyTurnContractUpdate([Recorded(doc, hook) EXCEPT !.rev = @ + 1], hook)
    /\ excused' = (excused \/ (hook.event = "turn_end" /\ busy))
    /\ owed' = CASE hook.event = "turn_end" ->
                      IF doc.proven /\ doc.overallAt >= hook.at THEN "hidden" ELSE "due"
                 [] hook.event = "contract" -> "due"
                 [] OTHER -> owed
    /\ tried' = FALSE
    /\ UNCHANGED <<clock, agentVars, del, delivered, sess, since, monitored, mon, sum, extras>>

(* Kill: the document is archived; a hook under way begins another one.    *)
(* (SessionRuntime has the tick of the monitor that outlives a kill.)      *)
Kill ==
    /\ sess # "exited" /\ Extra
    /\ sess' = "exited" /\ since' = None /\ monitored' = "no" /\ mon' = NoMon
    /\ doc' = NoDoc /\ tried' = FALSE
    /\ busy' = FALSE /\ composer' = "empty" /\ del' = NoDel
    /\ UNCHANGED <<clock, hook, owed, turn, excused, delivered, sum>>

SetState(state) ==
    /\ sess' = state
    /\ IF state = "working" THEN Tick /\ since' = Now /\ excused' = FALSE
       ELSE since' = None /\ UNCHANGED <<clock, excused>>

(* The daemon restarts: the session is restored in its state, as of now,   *)
(* and has a monitor again if its profile is still configured; a launch    *)
(* prompt under way is forgotten.                                          *)
Restart ==
    /\ sess # "exited" /\ Extra
    /\ doc' = [doc EXCEPT !.rev = @ + 1]
    /\ del' = NoDel /\ mon' = NoMon /\ monitored' \in {"yes", "no"}
    /\ SetState(sess)
    /\ sum' = NoSum /\ tried' = FALSE
    /\ UNCHANGED <<hook, owed, agentVars, delivered>>

-----------------------------------------------------------------------------
(* The delivery of a prompt: deliverPrompt and EnsureIngested *)

(* SendPrompt records the outcome; so does startAgentLifecycle, which      *)
(* starts the monitor after the launch prompt, and not when that failed.   *)
Ends(state) ==
    /\ del' = NoDel /\ SetState(state)
    /\ monitored' = IF monitored # "launch" THEN monitored
                    ELSE IF state = "working" THEN "yes" ELSE "no"

(* The delivery's time is taken first; then tmux types the text and        *)
(* presses Enter, which the agent may not notice.                          *)
Deliver ==
    /\ del = NoDel /\ delivered < MaxTurns /\ sess # "exited"
    /\ delivered' = delivered + 1
    /\ \/ /\ Tick /\ del' = [NoDel EXCEPT !.step = "poll", !.started = Now]
          /\ composer' \in {"pending", "queued"}
          /\ UNCHANGED stateVars
       \/ Ends("stuck") /\ UNCHANGED composer
    /\ UNCHANGED <<docVars, busy, turn, mon, summaryVars, extras>>

Polling == del.step = "poll"
outside == <<docVars, busy, turn, delivered, mon, summaryVars, extras>>

(* HooksJudge.Assess: a prompt was taken since the delivery began. *)
HooksJudge == Exists(doc) /\ doc.submitAt >= del.started

(* Without that the screen decides whether the prompt was taken in, or a   *)
(* model that looks at it, and both may be wrong.                          *)
Assess == IF HooksJudge THEN {TRUE} ELSE BOOLEAN

isIngested ==
    /\ Polling /\ TRUE \in Assess
    /\ Ends("working")
    /\ UNCHANGED <<outside, composer>>

(* A capture, a keystroke or the caller's context fails. *)
DeliveryFails ==
    /\ Polling
    /\ Ends("stuck")
    /\ UNCHANGED <<outside, composer>>

(* A trust or resume text comes to be on the screen. *)
DialogShows ==
    /\ Polling /\ ~del.dialog
    /\ del' = [del EXCEPT !.dialog = TRUE]
    /\ UNCHANGED <<clock, stateVars, outside, composer>>

(* It is answered, as often as it is there: the deadline is not looked at. *)
ResolveKnownBlockers ==
    /\ Polling /\ FALSE \in Assess /\ del.dialog
    /\ del' = [del EXCEPT !.dialog = FALSE]
    /\ UNCHANGED <<clock, stateVars, outside, composer>>

Attempted(n) == n + 1

(* Whether Enter may help, the screen decides. *)
shouldSubmit == del.tries < MaxSubmitAttempts

(* Mutant: Enter is pressed again, and the deadline does not count. *)
AgainNoDeadline ==
    /\ Polling /\ FALSE \in Assess /\ ~del.dialog /\ shouldSubmit
    /\ del' = [del EXCEPT !.tries = Attempted(@)]
    /\ composer' = IF composer = "pending" THEN "queued" ELSE composer
    /\ UNCHANGED <<clock, stateVars, outside>>

(* Nothing was recognised: Enter is pressed again, or the deadline counts. *)
Again ==
    /\ Polling /\ FALSE \in Assess /\ ~del.dialog
    /\ \/ /\ shouldSubmit
          /\ del' = [del EXCEPT !.tries = Attempted(@)]
          /\ composer' = IF composer = "pending" THEN "queued" ELSE composer
          /\ UNCHANGED <<clock, stateVars>>
       \/ Ends("stuck") /\ UNCHANGED composer
    /\ UNCHANGED outside

-----------------------------------------------------------------------------
(* The monitor's tick: it captures the screen and takes a snapshot of the  *)
(* session, reads the hooks' document, and sets the state it decided on    *)
(* without another look at the session.  (SessionRuntime has the death of  *)
(* the pane.)  A tick that finds nothing to do is left out, and one before *)
(* the end of the quiet window too: neither leaves anything behind.        *)

MonitorLooks ==
    /\ monitored = "yes" /\ mon.step \in {"idle", "marked"} /\ sess = "working"
    /\ mon' = [step |-> "read", since |-> since]
    /\ UNCHANGED <<clock, docVars, agentVars, del, delivered, stateVars, summaryVars, extras>>


hookIdleDecision ==
    IF ~Exists(doc) \/ doc.submitAt = None \/ mon.since = None THEN "undecided"
    ELSE IF ~doc.working /\ doc.endAt > mon.since THEN "confirmed"
    ELSE IF doc.working THEN "working" ELSE "undecided"

(* Mutant: an agent that is said to work is never given up. *)
QuiescentNoBackstop == hookIdleDecision = "undecided"

(* What a screen that does not change decides: after a window if the hooks *)
(* say nothing, and after three if they say that the agent works.          *)
Quiescent == hookIdleDecision \in {"undecided", "working"}

(* The screen of an agent that does not work does not change.  That of one *)
(* that works may also be still for long, or its captures may fail.  If    *)
(* the hooks say nothing, the agent's indicator on its screen decides.     *)
MonitorReads ==
    /\ mon.step = "read"
    /\ \/ /\ mon' = IF hookIdleDecision = "confirmed" THEN [mon EXCEPT !.step = "confirmed"]
                    ELSE IF Quiescent /\ ~busy THEN [mon EXCEPT !.step = "quiet"]
                    ELSE NoMon
          /\ UNCHANGED extras
       \/ /\ hookIdleDecision = "undecided" /\ ~busy
          /\ mon' = [NoMon EXCEPT !.step = "marked"]
          /\ UNCHANGED extras
       \/ Quiescent /\ busy /\ Extra /\ mon' = [mon EXCEPT !.step = "quiet"]
    /\ UNCHANGED <<clock, docVars, agentVars, del, delivered, stateVars, summaryVars>>

(* The screen has a pattern of the stuck; or its capture fails, and an     *)
(* idle session is taken for one with output.                              *)
MonitorMistakes ==
    /\ monitored = "yes" /\ mon = NoMon /\ Extra
    /\ \/ sess = "working" /\ mon' = [step |-> "stuck", since |-> since]
       \/ sess = "idle" /\ mon' = [step |-> "working", since |-> None]
    /\ UNCHANGED <<clock, docVars, agentVars, del, delivered, stateVars, summaryVars>>

MonitorSets ==
    /\ mon.step \in {"confirmed", "quiet", "stuck", "working"}
    /\ mon' = NoMon
    /\ SetState(IF mon.step \in {"confirmed", "quiet"} THEN "idle" ELSE mon.step)
    /\ UNCHANGED <<docVars, agentVars, del, delivered, monitored, summaryVars, extras>>

-----------------------------------------------------------------------------
(* The summariser *)

(* SnapshotOverallGoalInput *)
Snapshot(d) == [d EXCEPT !.working = FALSE, !.submitAt = None]

(* Mutant: a session that has a summary needs no other one. *)
CandidateOnce(d) == Exists(d) /\ d.turns >= 1 /\ d.endAt # None /\ d.goal # None /\ ~d.proven

(* goalSummaryCandidate *)
Candidate(d) ==
    /\ Exists(d) /\ d.turns >= 1 /\ d.endAt # None /\ d.goal # None
    /\ ~(d.proven /\ d.overallAt >= d.endAt)

(* An attempt is known by the revision, the turn and its end: another one  *)
(* of the same document waits a minute, and one of a changed document not. *)
startOverallGoalSummary ==
    /\ Candidate(doc) /\ ~sum.active /\ ~tried
    /\ sum' = [active |-> TRUE, input |-> Snapshot(doc)]
    /\ tried' = TRUE
    /\ UNCHANGED <<clock, docVars, agentVars, daemonVars, extras>>

RetryElapsed ==
    /\ tried /\ ~sum.active
    /\ tried' = FALSE
    /\ UNCHANGED <<clock, docVars, agentVars, daemonVars, sum, extras>>

(* No model is configured, or none answers in bounds with a text that does *)
(* not copy its input.                                                     *)
SummaryFails ==
    /\ sum.active /\ Extra
    /\ sum' = NoSum
    /\ UNCHANGED <<clock, docVars, agentVars, daemonVars, tried>>

(* Mutant: the session is compared, and not what is known of it. *)
FreshSession(expected) == TRUE

(* ApplySummarizedOverallGoal compares all that the summary was made from. *)
Fresh(expected) == Snapshot(doc) = expected

SummaryApplies ==
    /\ sum.active /\ Fresh(sum.input)
    /\ sum' = NoSum /\ Tick /\ tried' = FALSE
    /\ doc' = [doc EXCEPT !.rev = @ + 1, !.proven = TRUE, !.overallAt = Now,
                          !.overall = [kind |-> "summary", of |-> sum.input.goal]]
    /\ owed' = "done"
    /\ UNCHANGED <<hook, agentVars, daemonVars, extras>>

SummaryStale ==
    /\ sum.active /\ ~Fresh(sum.input)
    /\ sum' = NoSum
    /\ UNCHANGED <<clock, docVars, agentVars, daemonVars, tried, extras>>

-----------------------------------------------------------------------------
Next ==
    \/ AgentTakes \/ HumanPrompts \/ TurnEnds \/ DuringTurn
    \/ Notifies \/ StatesContract \/ BindsHistory \/ HookDropped
    \/ ApplyHook \/ Kill \/ Restart
    \/ Deliver \/ isIngested \/ DeliveryFails
    \/ DialogShows \/ ResolveKnownBlockers \/ Again
    \/ MonitorLooks \/ MonitorReads \/ MonitorMistakes \/ MonitorSets
    \/ startOverallGoalSummary \/ RetryElapsed \/ SummaryFails \/ SummaryApplies \/ SummaryStale

Spec == Init /\ [][Next]_vars

(* The agent ends its turns, hooks run, the daemon's loops go round, time   *)
(* passes, and the model answers now and then.                              *)
Fairness ==
    /\ WF_vars(TurnEnds) /\ WF_vars(ApplyHook)
    /\ WF_vars((HooksJudge /\ isIngested) \/ Again)
    /\ WF_vars(MonitorLooks) /\ WF_vars(MonitorReads) /\ WF_vars(MonitorSets)
    /\ WF_vars(startOverallGoalSummary) /\ WF_vars(RetryElapsed) /\ WF_vars(SummaryApplies \/ SummaryStale)

FairSpec == Spec /\ Fairness
-----------------------------------------------------------------------------
(* Properties *)

(* sessionview.Build: the current work shown of a session. *)
CurrentWork(d) == IF d.proven THEN d.overall ELSE NoText

(* What a session is shown to work on, here and on other devices, is a     *)
(* summary of its last goal, written into the document it was made from:   *)
(* never a launch prompt or an unproven claim, nothing from before a later *)
(* turn or an archived session (sessionstate.go, applyTurnContractUpdate,  *)
(* ApplySummarizedOverallGoal).                                            *)
SummaryOfItsTurn ==
    [][CurrentWork(doc') \notin {CurrentWork(doc), NoText} =>
          /\ Exists(doc) /\ doc'.turns = doc.turns
          /\ CurrentWork(doc') = [kind |-> "summary", of |-> doc.goal]]_vars


(* A delivery ends, whatever the agent and its hooks do, unless dialogs    *)
(* keep coming back: each is answered without a look at the deadline       *)
(* (controller.go, EnsureIngested).                                        *)
DeliveryEnds == <>[](~del.dialog) => ((del # NoDel) ~> (del = NoDel))

(* A session that has a monitor does not stay working when its agent is    *)
(* done, also when the hook that would have told was dropped, unless the   *)
(* hooks say nothing and the agent's indicator stays on its screen         *)
(* (monitor.go, tick and quiescentIdle).                                   *)
WorkingEnds ==
    <>[](monitored = "yes" /\ mon.step # "marked") => ((sess = "working") ~> (sess # "working"))

(* After the end of a turn, or a claim, has been recorded, a summary is    *)
(* written in the end, if a goal is known, unless the session is gone, or  *)
(* a summary written before that, but by its time younger, hides the turn. *)
(* A goal told after the summary waits for the next end of a turn.         *)
FinishedTurnSummarised ==
    (doc.turns >= 1 /\ doc.endAt # None /\ doc.goal # None /\ owed = "due") ~>
        (sess = "exited" \/ owed # "due")
=============================================================================
