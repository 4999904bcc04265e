--------------------------- MODULE SessionRuntime ---------------------------
(***************************************************************************)
(* The tmux sessions of one (name, owner) in the daemon (internal/daemon/  *)
(* daemon.go, internal/session/state.go) and the health monitor that       *)
(* watches them (internal/health/monitor.go).  Creates, the lifecycle      *)
(* goroutine, prompts, monitor ticks and kills all set the session state   *)
(* without looking at it first, so each is split where it lets go of its   *)
(* locks between reading and writing.                                      *)
(***************************************************************************)
EXTENDS Naturals

CONSTANTS
    Ids,         \* session ids the daemon can generate
    NoId,
    Creators,    \* clients that create the session of that name and owner
    Prompted     \* sessions whose clients call SendPrompt themselves

ASSUME RuntimeAssumption == NoId \notin Ids /\ Prompted \subseteq Ids

VARIABLES
    st,          \* d.sessions: the state of each session, "none" if not there
    pane,        \* sessions whose tmux pane is alive (survives the daemon)
    used,        \* ids ever generated
    mon,         \* sessions with a running monitor
    tick,        \* the verdict of a monitor tick that is yet to be written
    life,        \* startAgentLifecycle of each session
    prompt,      \* a client's SendPrompt on each session
    killing,     \* sessions whose pane Kill has found dead
    saved,       \* sessions.json
    creating     \* createSessionWithIdempotency of each client

runtimeVars ==
    <<st, pane, used, mon, tick, life, prompt, killing, saved, creating>>

Terminal == {"exited", "failed"}
State == {"none", "starting", "handshaking", "idle", "working", "stuck", "escalated"}
            \cup Terminal

\* told and untold: a prompt whose delivery is settled but not yet recorded.
LifeSteps == {"none", "start", "handshake", "ready", "broken", "deliver", "told", "untold"}
PromptSteps == {"none", "told", "untold"}
NotCreating == [pc |-> "idle", id |-> NoId]

RuntimeTypeOK ==
    /\ st \in [Ids -> State]
    /\ pane \subseteq Ids /\ used \subseteq Ids /\ mon \subseteq Ids
    /\ tick \in [Ids -> State]
    /\ life \in [Ids -> LifeSteps]
    /\ prompt \in [Ids -> PromptSteps]
    /\ killing \subseteq Ids
    /\ saved \in [Ids -> State]
    /\ creating \in [Creators -> [pc : {"idle", "pane", "store"}, id : Ids \cup {NoId}]]

RuntimeInit ==
    /\ st = [s \in Ids |-> "none"]
    /\ pane = {} /\ used = {} /\ mon = {} /\ killing = {}
    /\ tick = [s \in Ids |-> "none"]
    /\ life = [s \in Ids |-> "none"]
    /\ prompt = [s \in Ids |-> "none"]
    /\ saved = [s \in Ids |-> "none"]
    /\ creating = [c \in Creators |-> NotCreating]

Known(s) == st[s] # "none"
Live(s) == Known(s) /\ st[s] \notin Terminal

\* A goroutine that still holds a session no longer in d.sessions writes to a
\* struct nobody will look up.
SetState(s, state) == st' = [st EXCEPT ![s] = IF @ = "none" THEN "none" ELSE state]

\* persistSessions is best effort; it skips terminal sessions.
Snapshot(table) == [s \in Ids |-> IF table[s] \in Terminal THEN "none" ELSE table[s]]
Persists(table) == saved' = saved \/ saved' = Snapshot(table)

-----------------------------------------------------------------------------
(* createSessionWithIdempotency.                                            *)

\* findNonTerminalByNameOwner: a match ends the create with that session and
\* changes nothing; no match starts a new one.
CreateMiss(c) ==
    /\ creating[c].pc = "idle"
    /\ \A s \in Ids : ~Live(s)
    /\ creating' = [creating EXCEPT ![c].pc = "pane"]
    /\ UNCHANGED <<st, pane, used, mon, tick, life, prompt, killing, saved>>

\* setupTmuxPane: the tmux session name follows from name and owner, and tmux
\* refuses a name that is taken.  A create whose pane id cannot be resolved
\* fails and leaves its pane behind.
CreatePane(c) ==
    /\ creating[c].pc = "pane"
    /\ \/ \E s \in Ids \ used, resolved \in BOOLEAN :
            /\ pane = {}
            /\ pane' = {s}
            /\ used' = used \cup {s}
            /\ creating' = [creating EXCEPT ![c] =
                  IF resolved THEN [pc |-> "store", id |-> s] ELSE NotCreating]
       \/ /\ creating' = [creating EXCEPT ![c] = NotCreating]
          /\ UNCHANGED <<pane, used>>
    /\ UNCHANGED <<st, mon, tick, life, prompt, killing, saved>>

CreateStore(c) ==
    LET s == creating[c].id IN
    /\ creating[c].pc = "store"
    /\ st' = [st EXCEPT ![s] = "starting"]
    /\ life' = [life EXCEPT ![s] = "start"]
    /\ Persists(st')
    /\ creating' = [creating EXCEPT ![c] = NotCreating]
    /\ UNCHANGED <<pane, used, mon, tick, prompt, killing>>

-----------------------------------------------------------------------------
(* startAgentLifecycle.                                                     *)

LifeStart(s) ==
    /\ life[s] = "start"
    /\ SetState(s, "handshaking")
    /\ life' = [life EXCEPT ![s] = "handshake"]
    /\ UNCHANGED <<pane, used, mon, tick, prompt, killing, saved, creating>>

\* performHandshake: ready needs a pane that could be captured.
Handshake(s) ==
    /\ life[s] = "handshake"
    /\ \/ s \in pane /\ life' = [life EXCEPT ![s] = "ready"]
       \/ life' = [life EXCEPT ![s] = "broken"]
    /\ UNCHANGED <<st, pane, used, mon, tick, prompt, killing, saved, creating>>

\* The session is idle; the initial prompt, if there is one, comes first and
\* the monitor afterwards.
LifeReady(s) ==
    /\ life[s] = "ready"
    /\ SetState(s, "idle")
    /\ \/ life' = [life EXCEPT ![s] = "deliver"] /\ UNCHANGED mon
       \/ life' = [life EXCEPT ![s] = "none"] /\ mon' = mon \cup {s}
    /\ UNCHANGED <<pane, used, tick, prompt, killing, saved, creating>>

LifeBroken(s) ==
    /\ life[s] = "broken"
    /\ SetState(s, "failed")
    /\ life' = [life EXCEPT ![s] = "none"]
    /\ UNCHANGED <<pane, used, mon, tick, prompt, killing, saved, creating>>

LifeDeliver(s) ==
    /\ life[s] = "deliver"
    /\ \/ s \in pane /\ life' = [life EXCEPT ![s] = "told"]
       \/ life' = [life EXCEPT ![s] = "untold"]
    /\ UNCHANGED <<st, pane, used, mon, tick, prompt, killing, saved, creating>>

\* A failed initial prompt returns before startMonitor.
LifeDelivered(s) ==
    /\ \/ /\ life[s] = "told"
          /\ SetState(s, "working")
          /\ mon' = mon \cup {s}
       \/ /\ life[s] = "untold"
          /\ SetState(s, "stuck")
          /\ UNCHANGED mon
    /\ life' = [life EXCEPT ![s] = "none"]
    /\ UNCHANGED <<pane, used, tick, prompt, killing, saved, creating>>

-----------------------------------------------------------------------------
(* SendPrompt of some client: any session it knows, whatever its state.     *)

SendPrompt(s) ==
    /\ s \in Prompted
    /\ Known(s)
    /\ prompt[s] = "none"
    /\ \/ s \in pane /\ prompt' = [prompt EXCEPT ![s] = "told"]
       \/ prompt' = [prompt EXCEPT ![s] = "untold"]
    /\ UNCHANGED <<st, pane, used, mon, tick, life, killing, saved, creating>>

SendPromptReturns(s) ==
    /\ prompt[s] # "none"
    /\ SetState(s, IF prompt[s] = "told" THEN "working" ELSE "stuck")
    /\ prompt' = [prompt EXCEPT ![s] = "none"]
    /\ UNCHANGED <<pane, used, mon, tick, life, killing, saved, creating>>

-----------------------------------------------------------------------------
(* The health monitor: Check and the snapshot, then the verdict.            *)

\* Mutant: only a working session is checked for a dead pane.
VerdictWorkingOnly(s, alive) ==
    CASE st[s] = "working" -> IF alive THEN {"stuck", "escalated", "idle"} ELSE {"exited"}
      [] st[s] = "idle" /\ alive -> {"working"}
      [] OTHER -> {}

\* A dead pane is final.  A working session may turn out stuck (nudged or
\* escalated) or idle; an idle one whose capture failed counts as working.
Verdict(s, alive) ==
    IF ~alive THEN {"exited"}
    ELSE CASE st[s] = "working" -> {"stuck", "escalated", "idle"}
           [] st[s] = "idle" -> {"working"}
           [] OTHER -> {}

\* PaneExists takes every failure of the tmux command for a dead pane, the
\* context that Stop cancels included.
TickRead(s) ==
    /\ s \in mon
    /\ tick[s] = "none"
    /\ \E alive \in {(s \in pane), FALSE} : \E v \in Verdict(s, alive) :
          tick' = [tick EXCEPT ![s] = v]
    /\ UNCHANGED <<st, pane, used, mon, life, prompt, killing, saved, creating>>

\* A tick under way when its monitor is cancelled still writes.
TickWrite(s) ==
    /\ tick[s] # "none"
    /\ SetState(s, tick[s])
    /\ tick' = [tick EXCEPT ![s] = "none"]
    /\ UNCHANGED <<pane, used, mon, life, prompt, killing, saved, creating>>

-----------------------------------------------------------------------------
(* Kill, the pane's own end, persistence and restart.                       *)

\* Kill ends the tmux session of that name, whichever pane it holds by now, and
\* goes on once the exact pane of s is gone, even if the command failed; else
\* it returns an error and changes nothing.
Kill(s) ==
    /\ Known(s)
    /\ s \notin killing
    /\ \/ pane' = {}
       \/ s \notin pane /\ UNCHANGED pane
    /\ killing' = killing \cup {s}
    /\ UNCHANGED <<st, used, mon, tick, life, prompt, saved, creating>>

KillReturns(s) ==
    /\ s \in killing
    /\ killing' = killing \ {s}
    /\ mon' = mon \ {s}
    /\ SetState(s, "exited")
    /\ Persists(st')
    /\ UNCHANGED <<pane, used, tick, life, prompt, creating>>

\* handleSessionClose (HTTP): the pane is killed if tmux obeys, the session is
\* dropped in any case and its monitor goes on.
Close(s) ==
    /\ Known(s)
    /\ pane' \in {pane, {}}
    /\ st' = [st EXCEPT ![s] = "none"]
    /\ Persists(st')
    /\ UNCHANGED <<used, mon, tick, life, prompt, killing, creating>>

\* The agent exits and tmux closes its pane.
AgentExits(s) ==
    /\ s \in pane
    /\ pane' = pane \ {s}
    /\ UNCHANGED <<st, used, mon, tick, life, prompt, killing, saved, creating>>

PersistLoop ==
    /\ saved' = Snapshot(st)
    /\ UNCHANGED <<st, pane, used, mon, tick, life, prompt, killing, creating>>

\* A crash, or Stop, whose last save is a PersistLoop step, and the next start:
\* restoreSessions revives the saved sessions whose pane lives and starts a
\* monitor for the working, idle and stuck ones only.
Restart ==
    /\ st' = [s \in Ids |-> IF s \in pane THEN saved[s] ELSE "none"]
    /\ mon' = {s \in Ids : st'[s] \in {"working", "idle", "stuck"}}
    /\ tick' = [s \in Ids |-> "none"]
    /\ life' = [s \in Ids |-> "none"]
    /\ prompt' = [s \in Ids |-> "none"]
    /\ killing' = {}
    /\ creating' = [c \in Creators |-> NotCreating]
    /\ UNCHANGED <<pane, used, saved>>

RuntimeNext ==
    \/ \E c \in Creators : CreateMiss(c) \/ CreatePane(c) \/ CreateStore(c)
    \/ \E s \in Ids : \/ LifeStart(s) \/ Handshake(s) \/ LifeBroken(s)
                      \/ LifeDeliver(s) \/ LifeDelivered(s)
                      \/ SendPrompt(s) \/ SendPromptReturns(s)
                      \/ TickRead(s) \/ TickWrite(s)
                      \/ Kill(s) \/ KillReturns(s) \/ Close(s) \/ AgentExits(s)
    \/ PersistLoop
=============================================================================
