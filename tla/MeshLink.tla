------------------------------ MODULE MeshLink ------------------------------
(***************************************************************************)
(* The link between two paired devices: one dials, over a managed tunnel,  *)
(* and the other listens (a registry refuses a peer that is both).  A      *)
(* connection has a runtime at each end that has activated it; the newest  *)
(* one replaces an older one.  Here: the connect loop, the handshake,      *)
(* activation and replacement, heartbeats, disconnecting, the published    *)
(* status, stopping and starting a manager, and crashes.  What the link    *)
(* carries is MeshRPC.                                                     *)
(***************************************************************************)
CONSTANTS Conns,   \* names of connections; a name is used again once nothing has it
          NoConn

ASSUME LinkAssumption == NoConn \notin Conns

Ends == {"dialer", "listener"}
Other(e) == IF e = "dialer" THEN "listener" ELSE "dialer"

VARIABLES run,     \* each manager: up, stopping, down
          open,    \* each end's open runtimes, with their goroutines
          cur,     \* each end's current runtime (Manager.peers)
          closing, \* runtimes taken out of use and not closed yet
          shown,   \* the published state: connected (or stale), or not
          silent,  \* no frame on the current connection for the dead-peer time
          beat,    \* runtimes whose heartbeat read that and has not acted on it
          wire,    \* the handshake of a connection
          upgrade, \* connections the listener has welcomed and not activated
          cut,     \* connections that pass nothing any more and do not fail
          loop,    \* the dialer's connect loop
          tunnel   \* the supervised tunnel runs

vars == <<run, open, cur, closing, shown, silent, beat, wire, upgrade, cut, loop, tunnel>>
runtimes == <<open, cur, closing, shown, silent, beat>>

TypeOK ==
    /\ run \in [Ends -> {"up", "stopping", "down"}]
    /\ open \in [Ends -> SUBSET Conns]
    /\ cur \in [Ends -> Conns \cup {NoConn}]
    /\ closing \in [Ends -> SUBSET Conns] /\ beat \in [Ends -> SUBSET Conns]
    /\ \A e \in Ends : closing[e] \cup beat[e] \cup ({cur[e]} \ {NoConn}) \subseteq open[e]
    /\ shown \in [Ends -> BOOLEAN] /\ silent \in [Ends -> BOOLEAN] /\ tunnel \in BOOLEAN
    /\ wire \in [Conns -> {"free", "hello", "welcome"}]
    /\ upgrade \in SUBSET Conns /\ cut \in SUBSET Conns
    /\ loop \in [pc : {"backoff", "dial", "wait", "ended"}, conn : Conns \cup {NoConn}]

At(pc) == [pc |-> pc, conn |-> NoConn]

Init ==
    /\ run = [e \in Ends |-> "up"] /\ open = [e \in Ends |-> {}]
    /\ cur = [e \in Ends |-> NoConn] /\ closing = [e \in Ends |-> {}]
    /\ shown = [e \in Ends |-> FALSE] /\ silent = [e \in Ends |-> FALSE]
    /\ beat = [e \in Ends |-> {}]
    /\ wire = [c \in Conns |-> "free"] /\ upgrade = {} /\ cut = {}
    /\ loop = At("backoff") /\ tunnel = FALSE

----------------------------------------------------------------------------
(* Runtimes.                                                               *)

\* The new runtime takes the place of the old one, which is closed after it.
Replace(e, c) ==
    /\ open' = [open EXCEPT ![e] = @ \cup {c}]
    /\ cur' = [cur EXCEPT ![e] = c]
    /\ closing' = [closing EXCEPT ![e] = @ \cup ({cur[e]} \ {NoConn})]
    /\ shown' = [shown EXCEPT ![e] = TRUE] /\ silent' = [silent EXCEPT ![e] = FALSE]
    /\ UNCHANGED beat

activate(e, c) == IF run[e] = "up" THEN Replace(e, c) ELSE UNCHANGED runtimes

\* Mutant: whoever disconnects takes the peer's entry away.
disconnectAny(e, c) ==
    /\ cur' = [cur EXCEPT ![e] = NoConn]
    /\ shown' = [shown EXCEPT ![e] = FALSE]
    /\ closing' = [closing EXCEPT ![e] = @ \cup {c}]

\* Mutant: whoever disconnects publishes it.
disconnectPublishes(e, c) ==
    /\ cur' = [cur EXCEPT ![e] = IF @ = c THEN NoConn ELSE @]
    /\ shown' = [shown EXCEPT ![e] = FALSE]
    /\ closing' = [closing EXCEPT ![e] = @ \cup {c}]

\* Only the current runtime's end changes the published state; the close follows.
disconnect(e, c) ==
    /\ cur' = [cur EXCEPT ![e] = IF @ = c THEN NoConn ELSE @]
    /\ shown' = [shown EXCEPT ![e] = IF cur[e] = c THEN FALSE ELSE @]
    /\ closing' = [closing EXCEPT ![e] = @ \cup {c}]

\* The runtime is closed and its reader, writer and heartbeat return; a reader
\* that finds it still current (after Stop) publishes that.
close(e, c) ==
    /\ c \in closing[e]
    /\ open' = [open EXCEPT ![e] = @ \ {c}] /\ beat' = [beat EXCEPT ![e] = @ \ {c}]
    /\ closing' = [closing EXCEPT ![e] = @ \ {c}]
    /\ cur' = [cur EXCEPT ![e] = IF @ = c THEN NoConn ELSE @]
    /\ shown' = [shown EXCEPT ![e] = IF cur[e] = c THEN FALSE ELSE @]
    /\ UNCHANGED <<run, silent, wire, upgrade, cut, loop, tunnel>>

\* Whether the other end still holds the connection, or may yet.
Held(e, c) == \/ c \in open[Other(e)]
              \/ e = "dialer" /\ c \in upgrade
              \/ e = "listener" /\ loop = [pc |-> "dial", conn |-> c]

Alive(e, c) == c \notin cut /\ Held(e, c)

\* A read or a write fails, or its context is cancelled.
ReaderFails(e, c) ==
    /\ c \in open[e] \ closing[e]
    /\ disconnect(e, c)
    /\ UNCHANGED <<run, open, silent, beat, wire, upgrade, cut, loop, tunnel>>

\* updateCurrent: a ping, a pong or a frame of the application.
FrameArrives(e, c) ==
    /\ cur[e] = c /\ c \in open[Other(e)] \ cut
    /\ silent' = [silent EXCEPT ![e] = FALSE]
    /\ UNCHANGED <<run, open, cur, closing, shown, beat, wire, upgrade, cut, loop, tunnel>>

TimePasses(e) ==
    /\ cur[e] # NoConn
    /\ silent' = [silent EXCEPT ![e] = TRUE]
    /\ UNCHANGED <<run, open, cur, closing, shown, beat, wire, upgrade, cut, loop, tunnel>>

\* The heartbeat reads under the lock...
HeartbeatReads(e, c) ==
    /\ cur[e] = c /\ silent[e]
    /\ beat' = [beat EXCEPT ![e] = @ \cup {c}]
    /\ UNCHANGED <<run, open, cur, closing, shown, silent, wire, upgrade, cut, loop, tunnel>>

\* Mutant: a dead peer is only pinged again.
heartbeatPings(e, c) ==
    /\ c \in beat[e] /\ beat' = [beat EXCEPT ![e] = @ \ {c}]
    /\ UNCHANGED <<run, open, cur, closing, shown, silent, wire, upgrade, cut, loop, tunnel>>

\* ...and acts later on what it read.
heartbeat(e, c) ==
    /\ c \in beat[e] /\ beat' = [beat EXCEPT ![e] = @ \ {c}]
    /\ disconnect(e, c)
    /\ UNCHANGED <<run, open, silent, wire, upgrade, cut, loop, tunnel>>

----------------------------------------------------------------------------
(* The connect loop and the listener's handshake.                          *)

Unused(c) == /\ \A e \in Ends : c \notin open[e]
             /\ wire[c] = "free" /\ c \notin upgrade /\ loop.conn # c

\* The probe goes through, and the hello is sent on a new connection.
Dial(c) ==
    /\ loop.pc = "backoff" /\ run["dialer"] = "up" /\ tunnel /\ Unused(c)
    /\ loop' = [pc |-> "dial", conn |-> c]
    /\ shown' = [shown EXCEPT !["dialer"] = FALSE]
    /\ wire' = [wire EXCEPT ![c] = "hello"] /\ cut' = cut \ {c}
    /\ UNCHANGED <<run, open, cur, closing, silent, beat, upgrade, tunnel>>

\* The dial or the handshake fails or takes too long.
AttemptFails ==
    /\ loop.pc = "dial"
    /\ loop' = At("backoff")
    /\ shown' = [shown EXCEPT !["dialer"] = FALSE]
    /\ wire' = [c \in Conns |-> IF c = loop.conn /\ wire[c] = "welcome" THEN "free" ELSE wire[c]]
    /\ UNCHANGED <<run, open, cur, closing, silent, beat, upgrade, cut, tunnel>>

\* The listener authorises the credential, checks the hello and welcomes; the
\* dialer may have given up meanwhile.
handleUpgrade(c) ==
    /\ wire[c] = "hello" /\ run["listener"] = "up" /\ c \notin cut
    /\ wire' = [wire EXCEPT ![c] = IF loop.conn = c THEN "welcome" ELSE "free"]
    /\ upgrade' = upgrade \cup {c}
    /\ UNCHANGED <<run, runtimes, cut, loop, tunnel>>

UpgradeFails(c) ==
    /\ wire[c] = "hello"
    /\ wire' = [wire EXCEPT ![c] = "free"]
    /\ UNCHANGED <<run, runtimes, upgrade, cut, loop, tunnel>>

ListenerActivates(c) ==
    /\ c \in upgrade /\ upgrade' = upgrade \ {c}
    /\ activate("listener", c)
    /\ UNCHANGED <<run, wire, cut, loop, tunnel>>

DialerActivates ==
    /\ loop.pc = "dial" /\ wire[loop.conn] = "welcome" /\ loop.conn \notin cut
    /\ wire' = [wire EXCEPT ![loop.conn] = "free"]
    /\ activate("dialer", loop.conn)
    /\ loop' = IF run["dialer"] = "up" THEN [loop EXCEPT !.pc = "wait"] ELSE At("ended")
    /\ UNCHANGED <<run, upgrade, cut, tunnel>>

Dropped ==
    /\ loop.pc = "wait" /\ loop.conn \notin open["dialer"] /\ run["dialer"] = "up"
    /\ loop' = At("backoff")
    /\ shown' = [shown EXCEPT !["dialer"] = FALSE]
    /\ UNCHANGED <<run, open, cur, closing, silent, beat, wire, upgrade, cut, tunnel>>

LoopEnds ==
    /\ loop.pc \in {"wait", "backoff"} /\ run["dialer"] = "stopping"
    /\ loop' = At("ended")
    /\ UNCHANGED <<run, runtimes, wire, upgrade, cut, tunnel>>

----------------------------------------------------------------------------
(* The tunnel, faults, and the managers' own life.                         *)

\* The child is started again after it ended; a stop kills and reaps it.
superviseTunnel ==
    /\ tunnel' = ~ tunnel
    /\ run["dialer"] = IF tunnel THEN "stopping" ELSE "up"
    /\ UNCHANGED <<run, runtimes, wire, upgrade, cut, loop>>

\* The child exits; the connections through it pass nothing.
TunnelFails ==
    /\ tunnel /\ run["dialer"] = "up"
    /\ tunnel' = FALSE /\ cut' = Conns
    /\ UNCHANGED <<run, runtimes, wire, upgrade, loop>>

Cut(c) ==
    /\ c \notin cut /\ ~ Unused(c) /\ cut' = cut \cup {c}
    /\ UNCHANGED <<run, runtimes, wire, upgrade, loop, tunnel>>

Stop(e) ==
    /\ run[e] = "up" /\ run' = [run EXCEPT ![e] = "stopping"]
    /\ closing' = [closing EXCEPT ![e] = @ \cup ({cur[e]} \ {NoConn})]
    /\ UNCHANGED <<open, cur, shown, silent, beat, wire, upgrade, cut, loop, tunnel>>

\* The wait group: every goroutine of connections, loop and tunnel returned.
waitStopped(e) ==
    /\ run[e] = "stopping" /\ open[e] = {}
    /\ e = "dialer" => loop.pc = "ended" /\ ~ tunnel
    /\ run' = [run EXCEPT ![e] = "down"]
    /\ UNCHANGED <<runtimes, wire, upgrade, cut, loop, tunnel>>

Fresh(e) ==
    /\ open' = [open EXCEPT ![e] = {}] /\ cur' = [cur EXCEPT ![e] = NoConn]
    /\ closing' = [closing EXCEPT ![e] = {}] /\ shown' = [shown EXCEPT ![e] = FALSE]
    /\ silent' = [silent EXCEPT ![e] = FALSE] /\ beat' = [beat EXCEPT ![e] = {}]
    /\ run' = [run EXCEPT ![e] = "up"] /\ UNCHANGED cut
    /\ IF e = "dialer"
       THEN /\ loop' = At("backoff") /\ tunnel' = FALSE /\ UNCHANGED upgrade
            /\ wire' = [c \in Conns |-> IF wire[c] = "welcome" THEN "free" ELSE wire[c]]
       ELSE /\ upgrade' = {} /\ UNCHANGED <<loop, tunnel>>
            /\ wire' = [c \in Conns |-> IF wire[c] = "hello" THEN "free" ELSE wire[c]]

\* A new manager after a stop, or a daemon that died and is started again.
Start(e) == run[e] = "down" /\ Fresh(e)
Crash(e) == run[e] = "up" /\ Fresh(e)

Disturbance ==
    \/ \E e \in Ends : Stop(e) \/ Crash(e) \/ Start(e)
    \/ \E e \in Ends : TimePasses(e) /\ Alive(e, cur[e])
    \/ \E e \in Ends, c \in Conns : ReaderFails(e, c) /\ run[e] = "up" /\ Held(e, c)
    \/ \E c \in Conns : Cut(c) \/ UpgradeFails(c)
    \/ AttemptFails /\ wire[loop.conn] # "free" /\ loop.conn \notin cut
    \/ TunnelFails

ConnectLoop == DialerActivates \/ Dropped \/ LoopEnds \/ \E c \in Conns : Dial(c)
Runtime(e, c) == close(e, c) \/ HeartbeatReads(e, c) \/ heartbeat(e, c) \/ ReaderFails(e, c)
Next ==
    \/ \E e \in Ends, c \in Conns : Runtime(e, c) \/ FrameArrives(e, c)
    \/ \E e \in Ends : TimePasses(e) \/ Stop(e) \/ waitStopped(e) \/ Start(e) \/ Crash(e)
    \/ \E c \in Conns : handleUpgrade(c) \/ UpgradeFails(c) \/ ListenerActivates(c) \/ Cut(c)
    \/ ConnectLoop \/ AttemptFails \/ superviseTunnel \/ TunnelFails

Spec == Init /\ [][Next]_vars

\* Goroutines go on; an end whose connection the other end has closed finds out
\* if packets pass, and otherwise time passes and the heartbeat finds out.
Fairness ==
    /\ WF_vars(ConnectLoop) /\ WF_vars(superviseTunnel)
    /\ WF_vars(AttemptFails /\ (wire[loop.conn] = "free" \/ loop.conn \in cut))
    /\ \A c \in Conns : WF_vars(handleUpgrade(c)) /\ WF_vars(ListenerActivates(c))
                        /\ WF_vars(UpgradeFails(c) /\ loop.conn # c)
    /\ \A e \in Ends :
          /\ WF_vars(TimePasses(e) /\ ~ Alive(e, cur[e]))
          /\ \A c \in Conns :
                /\ WF_vars(close(e, c))
                /\ WF_vars(HeartbeatReads(e, c)) /\ WF_vars(heartbeat(e, c))
                /\ WF_vars(ReaderFails(e, c) /\ (run[e] # "up" \/ (~ Held(e, c) /\ c \notin cut)))
FairSpec == Spec /\ Fairness

----------------------------------------------------------------------------
\* An open runtime is the one calls are sent on, or is being closed: a late
\* reader or heartbeat of a replaced connection cannot orphan its successor,
\* and none is made or left once Stop has returned, although a handshake may
\* still have been under way (activate, disconnect, Stop).
NoOrphan ==
    \A e \in Ends : /\ open[e] \subseteq {cur[e]} \cup closing[e]
                    /\ run[e] = "down" => open[e] = {}

\* While a manager runs, its published state says connected or stale exactly when
\* it has a current connection (Status, updateStatus, updateCurrent).
StatusTruthful == \A e \in Ends : run[e] = "up" => (shown[e] <=> cur[e] # NoConn)

\* When faults rest, two running managers end up with one connection that is the
\* current one of both, whatever half-open or crossed connections there were
\* (connectLoop, heartbeat, handleUpgrade).
Reconnects ==
    (<>[][~ Disturbance]_vars) =>
        <>[]((\A e \in Ends : run[e] = "up") => cur["dialer"] # NoConn /\ cur["dialer"] = cur["listener"])
=============================================================================
