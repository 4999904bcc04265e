---------------------------- MODULE SessionInbox ----------------------------
(***************************************************************************)
(* The daemon's sessions together with the durable inbox of their name     *)
(* (internal/daemon/grpc_c1.go, internal/manager/store/session_inbox.go):  *)
(* Send delivers a message or queues it, a transition into idle that goes  *)
(* through emitStateChanged drains one, and clients may acknowledge what   *)
(* they peeked themselves.                                                 *)
(***************************************************************************)
EXTENDS SessionRuntime, SequencesExt

CONSTANTS
    Msgs,       \* messages; each is sent once
    NoMsg

ASSUME NoMsgAssumption == NoMsg \notin Msgs

VARIABLES
    inbox,      \* queued messages, oldest first (durable)
    judged,     \* messages submitted to a pane and judged ingested there
    taken,      \* messages a client acknowledged itself
    sends,      \* the Send call of each message
    drain       \* the drainInboxOnIdle goroutine of each session

inboxVars == <<inbox, judged, taken, sends, drain>>
vars == <<runtimeVars, inboxVars>>

SendSteps == {"new", "deliver", "told", "untold", "queue", "delivered", "queued", "failed"}
DrainSteps == {"none", "start", "deliver", "told", "untold", "ack"}
NoDrain == [pc |-> "none", msg |-> NoMsg]

TypeOK ==
    /\ RuntimeTypeOK
    /\ inbox \in Seq(Msgs)
    /\ judged \subseteq Msgs /\ taken \subseteq Msgs
    /\ sends \in [Msgs -> [pc : SendSteps, id : Ids \cup {NoId}, force : BOOLEAN]]
    /\ drain \in [Ids -> [pc : DrainSteps, msg : Msgs \cup {NoMsg}]]
    /\ \A s \in Ids : drain[s].msg = NoMsg <=> drain[s].pc \in {"none", "start"}

Init ==
    /\ RuntimeInit
    /\ inbox = <<>>
    /\ judged = {} /\ taken = {}
    /\ sends = [m \in Msgs |-> [pc |-> "new", id |-> NoId, force |-> FALSE]]
    /\ drain = [s \in Ids |-> NoDrain]

-----------------------------------------------------------------------------
(* Send.                                                                    *)

\* sessionReady: idle, or young enough while it is still starting.
SessionReady(s) == st[s] \in {"idle", "starting", "handshaking"}
SessionNotReady(s) == st[s] # "idle"

\* FindSessionByName takes any session of that name, dead ones included; a
\* ready session, or force_direct, goes to SendPrompt, any other is queued.
Send(m, s, force) ==
    /\ sends[m].pc = "new"
    /\ Known(s)
    /\ \E step \in {"deliver", "queue"} :
          /\ step = "deliver" => force \/ SessionReady(s)
          /\ step = "queue" => ~force /\ SessionNotReady(s)
          /\ sends' = [sends EXCEPT ![m] = [pc |-> step, id |-> s, force |-> force]]
    /\ UNCHANGED <<runtimeVars, inbox, judged, taken, drain>>

\* deliverPrompt: tmux submits the message to the pane and the judge of the
\* screen holds it for ingested, rightly or not (a short message, or a screen
\* it does not know, passes on any change).  Otherwise the delivery fails,
\* although the agent may have the message.
SendDeliver(m) ==
    /\ sends[m].pc = "deliver"
    /\ \/ /\ sends[m].id \in pane
          /\ judged' = judged \cup {m}
          /\ sends' = [sends EXCEPT ![m].pc = "told"]
       \/ /\ sends' = [sends EXCEPT ![m].pc = "untold"]
          /\ UNCHANGED judged
    /\ UNCHANGED <<runtimeVars, inbox, taken, drain>>

\* SendPrompt records the outcome; a forced message falls back to the queue.
SendDelivered(m) ==
    /\ \/ /\ sends[m].pc = "told"
          /\ SetState(sends[m].id, "working")
          /\ sends' = [sends EXCEPT ![m].pc = "delivered"]
       \/ /\ sends[m].pc = "untold"
          /\ SetState(sends[m].id, "stuck")
          /\ sends' = [sends EXCEPT ![m].pc = IF sends[m].force THEN "queue" ELSE "failed"]
    /\ UNCHANGED <<pane, used, mon, tick, life, prompt, killing, saved, creating>>
    /\ UNCHANGED <<inbox, judged, taken, drain>>

SendQueue(m) ==
    /\ sends[m].pc = "queue"
    /\ \/ /\ inbox' = Append(inbox, m)
          /\ sends' = [sends EXCEPT ![m].pc = "queued"]
       \/ /\ sends' = [sends EXCEPT ![m].pc = "failed"]
          /\ UNCHANGED inbox
    /\ UNCHANGED <<runtimeVars, judged, taken, drain>>

\* The first entry with that id is deleted; an id that is not there is no error.
AckSessionInbox(m) ==
    \/ \E n \in 1..Len(inbox) : /\ inbox[n] = m /\ \A k \in 1..(n - 1) : inbox[k] # m
                                /\ inbox' = RemoveAt(inbox, n)
    \/ ~Contains(inbox, m) /\ UNCHANGED inbox

\* AckInbox by a client that peeked the message.
AckInbox(m) ==
    /\ Contains(inbox, m)
    /\ AckSessionInbox(m)
    /\ taken' = taken \cup {m}
    /\ UNCHANGED <<runtimeVars, judged, sends, drain>>

-----------------------------------------------------------------------------
(* drainInboxOnIdle, started by emitStateChanged(idle).                      *)

SetDrain(s, pc, m) == drain' = [drain EXCEPT ![s] = [pc |-> pc, msg |-> m]]

LifeReadyDrains(s) ==
    /\ LifeReady(s)
    /\ SetDrain(s, "start", NoMsg)
    /\ UNCHANGED <<inbox, judged, taken, sends>>

\* Mutant: the message leaves the queue before it is delivered.
DrainPeekPops(s) ==
    /\ drain[s].pc = "start"
    /\ IF SessionReady(s) /\ inbox # <<>>
       THEN SetDrain(s, "deliver", Head(inbox)) /\ inbox' = Tail(inbox)
       ELSE drain' = [drain EXCEPT ![s] = NoDrain] /\ UNCHANGED inbox
    /\ UNCHANGED <<runtimeVars, judged, taken, sends>>

\* The session is looked at again: it may have left idle, or the daemon.
DrainPeek(s) ==
    /\ drain[s].pc = "start"
    /\ IF SessionReady(s) /\ inbox # <<>>
       THEN SetDrain(s, "deliver", Head(inbox))
       ELSE drain' = [drain EXCEPT ![s] = NoDrain]
    /\ UNCHANGED <<runtimeVars, inbox, judged, taken, sends>>

\* deliverPrompt for the drained message, judged as in SendDeliver.
DrainDeliver(s) ==
    LET m == drain[s].msg IN
    /\ drain[s].pc = "deliver"
    /\ \/ s \in pane /\ judged' = judged \cup {m} /\ SetDrain(s, "told", m)
       \/ SetDrain(s, "untold", m) /\ UNCHANGED judged
    /\ UNCHANGED <<runtimeVars, inbox, taken, sends>>

DrainDelivered(s) ==
    /\ \/ drain[s].pc = "told" /\ SetState(s, "working") /\ SetDrain(s, "ack", drain[s].msg)
       \/ drain[s].pc = "untold" /\ SetState(s, "stuck") /\ drain' = [drain EXCEPT ![s] = NoDrain]
    /\ UNCHANGED <<pane, used, mon, tick, life, prompt, killing, saved, creating>>
    /\ UNCHANGED <<inbox, judged, taken, sends>>

\* If the acknowledgement fails, the delivered message stays queued.
DrainAck(s) ==
    /\ drain[s].pc = "ack"
    /\ AckSessionInbox(drain[s].msg) \/ UNCHANGED inbox
    /\ drain' = [drain EXCEPT ![s] = NoDrain]
    /\ UNCHANGED <<runtimeVars, judged, taken, sends>>

\* A restart ends every goroutine; the callers of Send get an error.
InboxRestart ==
    /\ Restart
    /\ drain' = [s \in Ids |-> NoDrain]
    /\ sends' = [m \in Msgs |->
                    IF sends[m].pc \in {"deliver", "told", "untold", "queue"}
                    THEN [sends[m] EXCEPT !.pc = "failed"] ELSE sends[m]]
    /\ UNCHANGED <<inbox, judged, taken>>

Next ==
    \/ RuntimeNext /\ UNCHANGED inboxVars
    \/ \E m \in Msgs, s \in Ids, force \in BOOLEAN : Send(m, s, force)
    \/ \E m \in Msgs : SendDeliver(m) \/ SendDelivered(m) \/ SendQueue(m) \/ AckInbox(m)
    \/ \E s \in Ids : \/ LifeReadyDrains(s) \/ DrainPeek(s) \/ DrainDeliver(s)
                      \/ DrainDelivered(s) \/ DrainAck(s)
    \/ InboxRestart

Spec == Init /\ [][Next]_vars

-----------------------------------------------------------------------------
(* Properties.                                                              *)

\* A message Send reported as queued stays in the inbox until it was submitted
\* to the pane of a session and judged ingested there, or a client took it:
\* no drain that fails or is not confirmed, no kill and no restart loses it.
\* (The judge can be wrong; then the message is gone all the same.)
QueuedNotLost ==
    \A m \in Msgs : sends[m].pc = "queued" =>
        m \in judged \/ m \in taken \/ Contains(inbox, m)

-----------------------------------------------------------------------------
(* Liveness: a monitor looks at its pane every few seconds, and goroutines   *)
(* go on.  No other verdict of a tick is assumed.                            *)

Fairness ==
    \A s \in Ids :
        /\ WF_vars(TickRead(s) /\ s \notin pane /\ UNCHANGED inboxVars)
        /\ WF_vars(TickWrite(s) /\ UNCHANGED inboxVars)
        /\ WF_vars(LifeStart(s) /\ UNCHANGED inboxVars)
        /\ WF_vars(Handshake(s) /\ UNCHANGED inboxVars)
        /\ WF_vars(LifeBroken(s) /\ UNCHANGED inboxVars)
        /\ WF_vars(LifeDeliver(s) /\ UNCHANGED inboxVars)
        /\ WF_vars(LifeDelivered(s) /\ UNCHANGED inboxVars)
        /\ WF_vars(LifeReadyDrains(s))
        /\ WF_vars(SendPromptReturns(s) /\ UNCHANGED inboxVars)
        /\ WF_vars(KillReturns(s) /\ UNCHANGED inboxVars)
        /\ WF_vars(DrainPeek(s)) /\ WF_vars(DrainDeliver(s))
        /\ WF_vars(DrainDelivered(s)) /\ WF_vars(DrainAck(s))

FairSpec == Spec /\ Fairness

\* A monitored session whose agent is gone becomes exited, whatever prompts
\* and late ticks write in between.  Sessions without a monitor (restored while
\* starting, handshaking or escalated, or left by a failed initial prompt) have
\* no such promise.
WatchedDeathNoticed ==
    \A s \in Ids : s \in mon /\ s \notin pane ~>
        st[s] \in Terminal \cup {"none"} \/ s \notin mon

=============================================================================
