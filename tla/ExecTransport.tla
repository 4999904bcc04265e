--------------------------- MODULE ExecTransport ---------------------------
(***************************************************************************)
(* One headless (exec) session of a daemon: every prompt starts a process  *)
(* of its own, which a waiter goroutine reaps (exec_transport.go).  The    *)
(* session's entry in the process table is at once the busy flag, the      *)
(* handle a kill uses and the barrier a stopping daemon waits on.  The     *)
(* module has the prompts, the kill, the shutdown, a crash and the restart *)
(* from the saved inventory, and the background summaries the shutdown     *)
(* drains as well (goal_summarizer.go).                                    *)
(***************************************************************************)
EXTENDS FiniteSets

CONSTANTS
    Prompts,        \* calls of SendPrompt, each with the process it starts
    Initial,        \* the one that CreateSession sends itself
    NoRun           \* an empty entry of the process table

ASSUME PromptsAssumption == Initial \in Prompts /\ NoRun \notin Prompts

VARIABLES
    state,          \* the session's state; "gone" when a restart did not find it
    autoClose,      \* the session's AutoClose attribute
    saved,          \* its state in the saved inventory; "gone" when left out
    call,           \* where each prompt is, from the call to the end of its waiter
    waits,          \* the prompts whose caller waits (wait_idle) for the agent to be idle
    proc,           \* their process groups
    registry,       \* d.processes: the entry of this session
    kill,           \* a Kill under way, and the process it found
    stop,           \* how far Daemon.Stop is
    draining,       \* the process Stop found
    summary,        \* one background summary
    stream,         \* a streaming call of a client that GracefulStop found open
    displaced,      \* history of this run of the daemon: an entry was replaced, or
                    \* deleted by other than its waiter
    gaveUp          \* history of this run: Stop's wait for the process table ran out

vars == <<state, autoClose, saved, call, waits, proc, registry,
          kill, stop, draining, summary, stream, displaced, gaveUp>>

session == <<state, autoClose, saved>>
calls   == <<call, waits>>
ending  == <<kill, stop, draining, summary, stream>>
history == <<displaced, gaveUp>>

States    == {"idle", "working", "stuck", "exited", "gone"}
CallSteps == {"none", "called", "checked", "registered", "running", "reaped", "wrote",
              "settling", "closing", "settled", "done"}
Groups    == {"none", "running", "descendants", "dead"}
StopSteps == {"up", "begun", "interrupted", "killed", "drained", "saved", "unsaved", "down"}
Streams   == {"none", "output", "events"}
NoKill    == [step |-> "none", proc |-> NoRun]

TypeOK ==
    /\ state \in States /\ saved \in States \ {"exited"} /\ autoClose \in BOOLEAN
    /\ call \in [Prompts -> CallSteps]
    /\ waits \subseteq Prompts
    /\ proc \in [Prompts -> Groups]
    /\ registry \in Prompts \cup {NoRun}
    /\ kill \in [step : {"none", "signalled", "unlisted"}, proc : Prompts \cup {NoRun}]
    /\ stop \in StopSteps
    /\ draining \in Prompts \cup {NoRun}
    /\ summary \in {"none", "claimed", "running"}
    /\ stream \in Streams
    /\ displaced \in BOOLEAN /\ gaveUp \in BOOLEAN

Alive(p)  == p # NoRun /\ proc[p] \in {"running", "descendants"}
Killed(p) == [proc EXCEPT ![p] = "dead"]
Up        == stop # "down"
Stopping  == stop # "up"
Serving   == stop \notin {"saved", "unsaved", "down"}    \* GracefulStop refuses new calls

(* An exited session is left out of the saved inventory.  A write that      *)
(* fails is only logged; the restarted daemon then finds what it would have *)
(* found had the daemon died just before, which Crash covers.               *)
persistSessions(s) == IF s = "exited" THEN "gone" ELSE s

Init ==
    /\ state = "idle" /\ saved = "idle" /\ autoClose \in BOOLEAN
    /\ call = [p \in Prompts |-> "none"]
    /\ waits = {}
    /\ proc = [p \in Prompts |-> "none"]
    /\ registry = NoRun /\ kill = NoKill /\ draining = NoRun
    /\ stop = "up" /\ summary = "none" /\ stream = "none"
    /\ displaced = FALSE /\ gaveUp = FALSE

-----------------------------------------------------------------------------
(* Prompts *)

(* A client calls SendPrompt; the session's own first prompt never waits. *)
SendPrompt(p) ==
    /\ Serving /\ call[p] = "none" /\ state # "gone"
    /\ call' = [call EXCEPT ![p] = "called"]
    /\ waits' \in {waits} \cup (IF p = Initial THEN {} ELSE {waits \cup {p}})
    /\ UNCHANGED <<session, proc, registry, ending, history>>

(* The error path of a call; CreateSession turns an error of its own prompt *)
(* into the state stuck, whatever the state was.                            *)
Refuse(p) ==
    /\ call' = [call EXCEPT ![p] = "done"]
    /\ waits' = waits \ {p}
    /\ state' = IF p = Initial THEN "stuck" ELSE state
    /\ UNCHANGED <<autoClose, saved, proc, registry, ending, history>>

(* waitForSessionIdle, before and after the prompt, stops at any state but  *)
(* working.                                                                 *)
waitForSessionIdle == state # "working"

(* The check for an exited or busy session, and the new output file. *)
Check(p) ==
    /\ Up /\ call[p] = "called"
    /\ p \in waits => waitForSessionIdle
    /\ IF state = "exited" \/ registry # NoRun
       THEN Refuse(p)
       ELSE /\ call' = [call EXCEPT ![p] = "checked"]
            /\ UNCHANGED <<session, waits, proc, registry, ending, history>>

(* Under the daemon's mutex: the shutdown gate, the start, the registration. *)
Register(p) ==
    /\ Up /\ call[p] = "checked" /\ ~Stopping
    /\ call' = [call EXCEPT ![p] = "registered"]
    /\ proc' = [proc EXCEPT ![p] = "running"]
    /\ registry' = p
    /\ displaced' = (displaced \/ registry # NoRun)
    /\ UNCHANGED <<session, waits, ending, gaveUp>>

(* ... which the gate, a missing program or a full disk ends. *)
RegisterFails(p) == Up /\ call[p] = "checked" /\ Refuse(p)

(* The rest of sendExecPrompt; only then is the waiter started. *)
Publish(p) ==
    /\ Up /\ call[p] = "registered"
    /\ call' = [call EXCEPT ![p] = "running"]
    /\ state' = "working" /\ saved' = persistSessions("working")
    /\ UNCHANGED <<autoClose, waits, proc, registry, ending, history>>

(* A call with wait_idle returns. *)
Answer(p) ==
    /\ Up /\ p \in waits
    /\ call[p] \in {"running", "reaped", "wrote", "settling", "closing", "settled", "done"}
    /\ waitForSessionIdle
    /\ waits' = waits \ {p}
    /\ UNCHANGED <<session, call, proc, registry, ending, history>>

(* The client of a call that waits goes away. *)
GiveUp(p) ==
    /\ Up /\ p \in waits
    /\ waits' = waits \ {p}
    /\ call' = IF call[p] = "called" THEN [call EXCEPT ![p] = "done"] ELSE call
    /\ UNCHANGED <<session, proc, registry, ending, history>>

(* The agent ends, with or without leaving tool processes in its group. *)
ProcessExits(p) ==
    /\ \/ proc[p] = "running" /\ proc' \in {[proc EXCEPT ![p] = g] : g \in {"descendants", "dead"}}
       \/ proc[p] = "descendants" /\ proc' = Killed(p)
    /\ UNCHANGED <<session, calls, registry, ending, history>>

(* Mutant: the entry is deleted as soon as the process has ended. *)
ReapUnregisters(p) ==
    /\ Up /\ call[p] = "running" /\ proc[p] # "running"
    /\ call' = [call EXCEPT ![p] = "reaped"]
    /\ registry' = NoRun
    /\ UNCHANGED <<session, waits, proc, ending, history>>

(* Mutant: the session is idle as soon as the process has ended. *)
ReapSettles(p) ==
    /\ Up /\ call[p] = "running" /\ proc[p] # "running"
    /\ call' = [call EXCEPT ![p] = "reaped"]
    /\ state' = "idle"
    /\ UNCHANGED <<autoClose, saved, waits, proc, registry, ending, history>>

(* waitExecPrompt: the leader is reaped ... *)
Reap(p) ==
    /\ Up /\ call[p] = "running" /\ proc[p] # "running"
    /\ call' = [call EXCEPT ![p] = "reaped"]
    /\ UNCHANGED <<session, waits, proc, registry, ending, history>>

(* ... the output file is written, with what the readers got of the pipes   *)
(* that cmd.Wait closed; a write that fails is logged and no more ...       *)
WriteOutput(p) ==
    /\ Up /\ call[p] = "reaped"
    /\ call' = [call EXCEPT ![p] = "wrote"]
    /\ UNCHANGED <<session, waits, proc, registry, ending, history>>

(* ... the snapshot of the session that decides whether it is settled ... *)
Look(p) ==
    /\ Up /\ call[p] = "wrote"
    /\ call' = [call EXCEPT ![p] = IF state = "exited" THEN "closing" ELSE "settling"]
    /\ UNCHANGED <<session, waits, proc, registry, ending, history>>

(* Mutant: the branch of a failed prompt does not set the state. *)
SettleUnlessFailed(p) ==
    /\ Up /\ call[p] = "settling"
    /\ call' = [call EXCEPT ![p] = "settled"]
    /\ state' \in {state, IF autoClose THEN "exited" ELSE "idle"}
    /\ saved' = persistSessions(state')
    /\ UNCHANGED <<autoClose, waits, proc, registry, ending, history>>

(* ... its terminal state, saved at once ... *)
Settle(p) ==
    /\ Up /\ call[p] = "settling"
    /\ call' = [call EXCEPT ![p] = "settled"]
    /\ state' = IF autoClose THEN "exited" ELSE "idle"
    /\ saved' = persistSessions(state')
    /\ UNCHANGED <<autoClose, waits, proc, registry, ending, history>>

(* ... and the deferred deletion of the entry, whoever's it is. *)
Unregister(p) ==
    /\ Up /\ call[p] \in {"settled", "closing"}
    /\ call' = [call EXCEPT ![p] = "done"]
    /\ registry' = NoRun
    /\ displaced' = (displaced \/ registry \notin {p, NoRun})
    /\ UNCHANGED <<session, waits, proc, ending, gaveUp>>

-----------------------------------------------------------------------------
(* Kill *)

(* waitForExecProcessTreesExit: no entry for the session and no group left. *)
treesExited(p) == registry = NoRun /\ ~Alive(p)

(* killExecSession finds the process.  The interrupt and the graceful wait  *)
(* change nothing by themselves: the agent may end at any time.             *)
KillBegin ==
    /\ Serving /\ kill = NoKill /\ state # "gone"
    /\ kill' = [step |-> "signalled", proc |-> registry]
    /\ UNCHANGED <<session, calls, proc, registry, stop, draining, summary, stream, history>>

(* The group is killed before the last wait ... *)
KillSignal ==
    /\ Up /\ kill.step = "signalled" /\ Alive(kill.proc)
    /\ proc' = Killed(kill.proc)
    /\ UNCHANGED <<session, calls, registry, ending, history>>

(* ... and when that is over, or has run out, the entry is deleted. *)
KillUnlist ==
    /\ Up /\ kill.step = "signalled" /\ ~Alive(kill.proc)
    /\ kill' = [step |-> "unlisted", proc |-> NoRun]
    /\ registry' = NoRun
    /\ displaced' = (displaced \/ registry # NoRun)
    /\ UNCHANGED <<session, calls, proc, stop, draining, summary, stream, gaveUp>>

KillFinish ==
    /\ Up /\ kill.step = "unlisted"
    /\ kill' = NoKill
    /\ state' = "exited" /\ saved' = persistSessions("exited")
    /\ UNCHANGED <<autoClose, calls, proc, registry, stop, draining, summary, stream, history>>

-----------------------------------------------------------------------------
(* Background summaries *)

(* startOverallGoalSummary takes a slot, and only then passes the gate. *)
SummaryClaim ==
    /\ Up /\ summary = "none" /\ ~Stopping
    /\ summary' = "claimed"
    /\ UNCHANGED <<session, calls, proc, registry, kill, stop, draining, stream, history>>

SummaryGate ==
    /\ Up /\ summary = "claimed"
    /\ summary' = IF Stopping THEN "none" ELSE "running"
    /\ UNCHANGED <<session, calls, proc, registry, kill, stop, draining, stream, history>>

(* The model's process ends, is cancelled or times out. *)
SummaryEnds ==
    /\ Up /\ summary = "running"
    /\ summary' = "none"
    /\ UNCHANGED <<session, calls, proc, registry, kill, stop, draining, stream, history>>

-----------------------------------------------------------------------------
(* Streaming calls.  They change nothing until GracefulStop waits for them. *)

(* StreamOutput ends by itself when its session is exited ... *)
StreamOutputEnds ==
    /\ stream = "output" /\ state = "exited"
    /\ stream' = "none"
    /\ UNCHANGED <<session, calls, proc, registry, kill, stop, draining, summary, history>>

(* ... and any stream with its client. *)
StreamClientLeaves ==
    /\ stream # "none"
    /\ stream' = "none"
    /\ UNCHANGED <<session, calls, proc, registry, kill, stop, draining, summary, history>>

-----------------------------------------------------------------------------
(* Shutdown, crash and restart *)

beginStop ==
    /\ stop = "up"
    /\ stop' = "begun"
    /\ UNCHANGED <<session, calls, proc, registry, kill, draining, summary, stream, history>>

(* stopExecProcesses: the snapshot of the table, and the interrupt. *)
StopSnapshot ==
    /\ stop = "begun"
    /\ draining' = registry
    /\ stop' = IF registry = NoRun THEN "killed" ELSE "interrupted"
    /\ UNCHANGED <<session, calls, proc, registry, kill, summary, stream, history>>

(* Mutant: an agent that ignores the interrupt is left alone. *)
StopKillPolite ==
    /\ stop = "interrupted"
    /\ stop' = "killed"
    /\ UNCHANGED <<session, calls, proc, registry, kill, draining, summary, stream, history>>

(* After the grace period every group of the snapshot is killed ... *)
StopKill ==
    /\ stop = "interrupted"
    /\ proc' = Killed(draining)
    /\ stop' = "killed"
    /\ UNCHANGED <<session, calls, registry, kill, draining, summary, stream, history>>

(* ... and the table is waited for, for a while; then the summaries. *)
StopDrained ==
    /\ stop = "killed" /\ summary # "running"
    /\ gaveUp' = (draining # NoRun /\ ~treesExited(draining))
    /\ stop' = "drained" /\ draining' = NoRun
    /\ UNCHANGED <<session, calls, proc, registry, kill, summary, stream, displaced>>

(* The last save, which may fail as well; then GracefulStop begins, with    *)
(* whatever stream is open.                                                 *)
StopSave ==
    /\ stop = "drained"
    /\ \/ stop' = "saved" /\ saved' = IF state = "gone" THEN saved ELSE persistSessions(state)
       \/ stop' = "unsaved" /\ UNCHANGED saved
    /\ stream' \in Streams
    /\ UNCHANGED <<state, autoClose, calls, proc, registry, kill, draining, summary, history>>

(* GracefulStop waits for the calls of clients, not for the daemon's own. *)
Pending(p) ==
    \/ p # Initial /\ call[p] \in {"called", "checked", "registered"}
    \/ p \in waits

(* The daemon's process is gone, and its goroutines with it.  Agents that    *)
(* outlive it are in no table any more.                                     *)
Exit ==
    /\ stop' = "down"
    /\ call' = [p \in Prompts |-> IF call[p] = "none" THEN "none" ELSE "done"]
    /\ waits' = {} /\ proc' = [p \in Prompts |-> "none"]
    /\ kill' = NoKill /\ registry' = NoRun /\ summary' = "none" /\ stream' = "none"
    /\ draining' = NoRun /\ displaced' = FALSE /\ gaveUp' = FALSE
    /\ UNCHANGED session

(* The rest of Stop waits without a limit for every call of a client, the  *)
(* streams included, before it closes the event bus.                       *)
StopFinish ==
    /\ stop \in {"saved", "unsaved"}
    /\ kill = NoKill /\ stream = "none" /\ \A p \in Prompts : ~Pending(p)
    /\ Exit

Crash == Up /\ Exit

(* restoreSessions: a working session comes back as idle, and a one-shot   *)
(* session as one that parks: AutoClose is not saved.                      *)
Restart ==
    /\ stop = "down"
    /\ stop' = "up"
    /\ state' = IF saved = "working" THEN "idle" ELSE saved
    /\ autoClose' = FALSE
    /\ UNCHANGED <<saved, calls, proc, registry, kill, draining, summary, stream, history>>

(* persistLoop saves what the table holds, every now and then. *)
persistLoop ==
    /\ Up /\ state # "gone"
    /\ saved' = persistSessions(state)
    /\ UNCHANGED <<state, autoClose, calls, proc, registry, ending, history>>

-----------------------------------------------------------------------------
PromptStep(p) ==
    \/ SendPrompt(p) \/ Check(p) \/ Register(p) \/ RegisterFails(p) \/ Publish(p)
    \/ Answer(p) \/ GiveUp(p) \/ ProcessExits(p)
    \/ Reap(p) \/ WriteOutput(p) \/ Look(p) \/ Settle(p) \/ Unregister(p)

Next ==
    \/ \E p \in Prompts : PromptStep(p)
    \/ KillBegin \/ KillSignal \/ KillUnlist \/ KillFinish
    \/ SummaryClaim \/ SummaryGate \/ SummaryEnds
    \/ StreamOutputEnds \/ StreamClientLeaves
    \/ beginStop \/ StopSnapshot \/ StopKill \/ StopDrained \/ StopSave \/ StopFinish
    \/ Crash \/ Restart \/ persistLoop

Spec == Init /\ [][Next]_vars

(* The daemon's goroutines run; agents and clients may take for ever. *)
Fairness ==
    /\ \A p \in Prompts :
        WF_vars(Check(p) \/ Register(p) \/ RegisterFails(p) \/ Publish(p) \/ Answer(p)
                \/ Reap(p) \/ WriteOutput(p) \/ Look(p) \/ Settle(p) \/ Unregister(p))
    /\ WF_vars(KillSignal \/ KillUnlist \/ KillFinish)
    /\ WF_vars(SummaryGate \/ SummaryEnds)
    /\ WF_vars(StreamOutputEnds)
    /\ WF_vars(StopSnapshot \/ StopKill \/ StopDrained \/ StopSave \/ StopFinish)

FairSpec == Spec /\ Fairness
-----------------------------------------------------------------------------
(* Properties *)

(* What the table cannot see: a process whose entry was replaced (two      *)
(* prompts passed the busy check) or deleted under it (by a kill that had  *)
(* found none, or whose wait ran out), and one that outlasts Stop's wait.  *)
Exceptional == displaced \/ gaveUp

(* A session that says working has a prompt whose waiter will settle it:   *)
(* whatever kills, stops and refused prompts do in between, it does not    *)
(* stay working with nothing running for it (waitExecPrompt).              *)
WorkingHasWaiter ==
    Up /\ state = "working" => \E p \in Prompts : call[p] \in {"running", "reaped", "wrote", "settling"}

(* Stop saves the inventory only when no process of an unfinished prompt   *)
(* and no summary of the daemon is left, but for these exceptions: a start *)
(* that races beginStop is drained or rejected.  (Tool processes that an   *)
(* agent left behind in an earlier prompt are nobody's any more.)  What it *)
(* saves is settled: no restart turns a prompt that was under way at the   *)
(* stop into an idle session.                                              *)
CleanWhenSaved ==
    stop \in {"saved", "unsaved"} /\ ~Exceptional =>
        /\ summary # "running" /\ \A p \in Prompts : call[p] # "done" => ~Alive(p)
        /\ state # "working" /\ (stop = "saved" => saved # "working")

(* A caller that waited for the agent to become idle is answered only after *)
(* the waiter wrote its output (or failed to, which is only logged): unless *)
(* the session was killed, or its first prompt failed, or prompts displaced. *)
AnsweredAfterOutput ==
    [][\A p \in Prompts : Answer(p) =>
          \/ call[p] \notin {"running", "reaped"}
          \/ state \in {"exited", "stuck"} \/ Exceptional]_vars

(* A daemon asked to stop ends, although agents and clients may go on for  *)
(* ever, but for two exceptions.  The prompt whose entry was displaced is  *)
(* not killed, and a caller that waits for it holds up the shutdown; and   *)
(* so does a client that keeps a stream open for as long as it does.       *)
StopEnds ==
    []<>(stop \in {"up", "down"} \/ displaced \/ (~Serving /\ stream # "none"))
=============================================================================
