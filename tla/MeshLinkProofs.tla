--------------------------- MODULE MeshLinkProofs ---------------------------
(* MeshLink orphans no runtime and publishes no wrong status, for any set  *)
(* of connections: any number of replacements, late heartbeats, stops,     *)
(* crashes and restarts of either end.                                     *)
EXTENDS MeshLink, TLAPS

\* While the dialer runs, its current connection is the one its loop waits on,
\* and a handshake under way is one on a connection.
LoopOwns ==
    /\ run["dialer"] = "up" /\ cur["dialer"] # NoConn =>
          loop.pc = "wait" /\ loop.conn = cur["dialer"]
    /\ loop.pc = "dial" => loop.conn \in Conns

IInv == TypeOK /\ NoOrphan /\ StatusTruthful /\ LoopOwns

----------------------------------------------------------------------------
(* One lemma per group of actions.                                         *)

\* A new runtime takes over at an end that runs: at the dialer it is the one the
\* loop goes on to wait for.
LEMMA ReplaceStep ==
    ASSUME IInv, NEW e \in Ends, NEW c \in Conns, Replace(e, c),
           e = "dialer" => loop'.pc = "wait" /\ loop'.conn = c,
           e = "listener" => loop' = loop,
           run' = run, run[e] = "up", tunnel' = tunnel, cut' = cut,
           wire' \in [Conns -> {"free", "hello", "welcome"}], upgrade' \in SUBSET Conns,
           loop' \in [pc : {"backoff", "dial", "wait", "ended"}, conn : Conns \cup {NoConn}]
    PROVE  IInv'
<1>1. TypeOK'
  BY DEF IInv, TypeOK, Replace
<1>2. NoOrphan' /\ StatusTruthful'
  BY LinkAssumption DEF IInv, TypeOK, NoOrphan, StatusTruthful, Replace
<1>3. LoopOwns'
  BY DEF IInv, TypeOK, LoopOwns, Replace, Ends
<1>4. QED BY <1>1, <1>2, <1>3 DEF IInv

\* Goroutines of the runtimes: late ones too.
LEMMA RuntimeStep ==
    ASSUME IInv, NEW e \in Ends, NEW c \in Conns,
           Runtime(e, c) \/ FrameArrives(e, c) \/ TimePasses(e)
    PROVE  IInv'
<1>1. CASE close(e, c)
  <2>1. TypeOK'
    BY <1>1 DEF IInv, TypeOK, close
  <2>2. NoOrphan' /\ StatusTruthful'
    BY <1>1, LinkAssumption DEF IInv, TypeOK, NoOrphan, StatusTruthful, close
  <2>3. LoopOwns'
    BY <1>1 DEF IInv, TypeOK, LoopOwns, close, Ends
  <2>4. QED BY <2>1, <2>2, <2>3 DEF IInv
<1>2. CASE ReaderFails(e, c) \/ heartbeat(e, c)
  <2>1. /\ c \in open[e]
        /\ disconnect(e, c)
        /\ beat' \in [Ends -> SUBSET Conns] /\ \A x \in Ends : beat'[x] \subseteq beat[x]
        /\ UNCHANGED <<run, open, silent, wire, upgrade, cut, loop, tunnel>>
    BY <1>2 DEF IInv, TypeOK, ReaderFails, heartbeat
  <2>2. TypeOK'
    <3>1. /\ cur' \in [Ends -> Conns \cup {NoConn}] /\ closing' \in [Ends -> SUBSET Conns]
          /\ shown' \in [Ends -> BOOLEAN]
      <4>1. cur' \in [Ends -> Conns \cup {NoConn}]
        BY <2>1 DEF IInv, TypeOK, disconnect
      <4>2. closing' \in [Ends -> SUBSET Conns]
        BY <2>1 DEF IInv, TypeOK, disconnect
      <4>3. shown' \in [Ends -> BOOLEAN]
        BY <2>1 DEF IInv, TypeOK, disconnect
      <4>4. QED BY <4>1, <4>2, <4>3
    <3>2. \A x \in Ends : closing'[x] \cup beat'[x] \cup ({cur'[x]} \ {NoConn}) \subseteq open'[x]
      BY <2>1 DEF IInv, TypeOK, disconnect
    <3>3. QED BY <2>1, <3>1, <3>2 DEF IInv, TypeOK
  <2>3. NoOrphan'
    BY <2>1 DEF IInv, TypeOK, NoOrphan, disconnect
  <2>4. StatusTruthful'
    BY <2>1 DEF IInv, TypeOK, StatusTruthful, disconnect
  <2>5. LoopOwns'
    BY <2>1 DEF IInv, TypeOK, LoopOwns, disconnect, Ends
  <2>6. QED BY <2>2, <2>3, <2>4, <2>5 DEF IInv
<1>3. CASE FrameArrives(e, c) \/ TimePasses(e) \/ HeartbeatReads(e, c)
  <2>1. /\ UNCHANGED <<run, open, cur, closing, shown, wire, upgrade, cut, loop, tunnel>>
        /\ silent' \in [Ends -> BOOLEAN] /\ beat' \in [Ends -> SUBSET Conns]
    <3>1. UNCHANGED <<run, open, cur, closing, shown, wire, upgrade, cut, loop, tunnel>>
      BY <1>3 DEF FrameArrives, TimePasses, HeartbeatReads
    <3>2. silent' \in [Ends -> BOOLEAN]
      BY <1>3 DEF IInv, TypeOK, FrameArrives, TimePasses, HeartbeatReads
    <3>3. beat' \in [Ends -> SUBSET Conns]
      BY <1>3 DEF IInv, TypeOK, FrameArrives, TimePasses, HeartbeatReads
    <3>4. QED BY <3>1, <3>2, <3>3
  <2>2. \A x \in Ends : beat'[x] \subseteq open[x]
    <3>1. beat' = beat \/ (cur[e] = c /\ beat' = [beat EXCEPT ![e] = @ \cup {c}])
      BY <1>3 DEF FrameArrives, TimePasses, HeartbeatReads
    <3>2. QED BY <3>1, LinkAssumption DEF IInv, TypeOK
  <2>3. QED BY <2>1, <2>2 DEF IInv, TypeOK, NoOrphan, StatusTruthful, LoopOwns
<1>4. QED BY <1>1, <1>2, <1>3 DEF Runtime

\* The connect loop: it publishes "not connected" only when it has no connection.
LEMMA LoopStep ==
    ASSUME IInv, ConnectLoop \/ AttemptFails
    PROVE  IInv'
<1>1. CASE DialerActivates
  <2>1. loop.conn \in Conns
    BY <1>1 DEF IInv, LoopOwns, DialerActivates
  <2>2. wire' \in [Conns -> {"free", "hello", "welcome"}] /\ upgrade' \in SUBSET Conns
    BY <1>1 DEF IInv, TypeOK, DialerActivates
  <2>3. CASE run["dialer"] = "up"
    <3>1. loop' = [loop EXCEPT !.pc = "wait"]
      BY <1>1, <2>3 DEF DialerActivates
    <3>2. /\ loop'.pc = "wait" /\ loop'.conn = loop.conn
          /\ loop' \in [pc : {"backoff", "dial", "wait", "ended"}, conn : Conns \cup {NoConn}]
      BY <3>1 DEF IInv, TypeOK
    <3>3. Replace("dialer", loop.conn) /\ run' = run /\ tunnel' = tunnel /\ cut' = cut /\ "dialer" \in Ends
      BY <1>1, <2>3 DEF DialerActivates, activate, Ends
    <3>4. QED BY <2>1, <2>2, <2>3, <3>2, <3>3, ReplaceStep
  <2>4. CASE run["dialer"] # "up"
    BY <1>1, <2>2, <2>4 DEF DialerActivates, activate, runtimes, At, IInv, TypeOK, NoOrphan, StatusTruthful, LoopOwns
  <2>5. QED BY <2>3, <2>4
<1>2. CASE Dropped \/ AttemptFails \/ \E c \in Conns : Dial(c)
  <2>1. /\ run' = run /\ open' = open /\ cur' = cur /\ closing' = closing /\ silent' = silent
        /\ beat' = beat /\ upgrade' = upgrade /\ tunnel' = tunnel
        /\ shown' = [shown EXCEPT !["dialer"] = FALSE]
    BY <1>2 DEF Dropped, AttemptFails, Dial
  <2>2. /\ loop' \in [pc : {"backoff", "dial", "wait", "ended"}, conn : Conns \cup {NoConn}]
        /\ loop'.pc = "dial" => loop'.conn \in Conns
    BY <1>2 DEF Dropped, AttemptFails, Dial, At
  <2>3. wire' \in [Conns -> {"free", "hello", "welcome"}] /\ cut' \in SUBSET Conns
    BY <1>2 DEF Dropped, AttemptFails, Dial, IInv, TypeOK
  <2>4. run["dialer"] = "up" => cur["dialer"] = NoConn
    BY <1>2 DEF Dropped, AttemptFails, Dial, IInv, TypeOK, LoopOwns, Ends
  <2>5. QED BY <2>1, <2>2, <2>3, <2>4 DEF IInv, TypeOK, NoOrphan, StatusTruthful, LoopOwns, Ends
<1>3. CASE LoopEnds
  BY <1>3 DEF LoopEnds, At, runtimes, IInv, TypeOK, NoOrphan, StatusTruthful, LoopOwns
<1>4. QED BY <1>1, <1>2, <1>3 DEF ConnectLoop

\* The listener: a handshake that ends after Stop activates nothing.
LEMMA ListenerStep ==
    ASSUME IInv, NEW c \in Conns,
           handleUpgrade(c) \/ UpgradeFails(c) \/ ListenerActivates(c) \/ Cut(c)
    PROVE  IInv'
<1>1. CASE handleUpgrade(c) \/ UpgradeFails(c) \/ Cut(c)
  BY <1>1 DEF handleUpgrade, UpgradeFails, Cut, runtimes, IInv, TypeOK, NoOrphan, StatusTruthful, LoopOwns
<1>2. CASE ListenerActivates(c)
  <2>1. CASE run["listener"] = "up"
    BY <1>2, <2>1, ReplaceStep DEF ListenerActivates, activate, IInv, TypeOK, Ends
  <2>2. CASE run["listener"] # "up"
    BY <1>2, <2>2 DEF ListenerActivates, activate, runtimes, IInv, TypeOK, NoOrphan, StatusTruthful, LoopOwns
  <2>3. QED BY <2>1, <2>2
<1>3. QED BY <1>1, <1>2

\* Managers stop, start and die; the tunnel comes and goes.
LEMMA ManagerStep ==
    ASSUME IInv,
           \/ \E e \in Ends : Stop(e) \/ waitStopped(e) \/ Start(e) \/ Crash(e)
           \/ superviseTunnel \/ TunnelFails
    PROVE  IInv'
<1>1. CASE superviseTunnel \/ TunnelFails
  BY <1>1 DEF superviseTunnel, TunnelFails, runtimes, IInv, TypeOK, NoOrphan, StatusTruthful, LoopOwns
<1>2. ASSUME NEW e \in Ends, Stop(e) PROVE IInv'
  <2>1. TypeOK'
    BY <1>2 DEF Stop, IInv, TypeOK
  <2>2. QED BY <1>2, <2>1 DEF Stop, IInv, TypeOK, NoOrphan, StatusTruthful, LoopOwns, Ends
<1>3. ASSUME NEW e \in Ends, waitStopped(e) PROVE IInv'
  BY <1>3 DEF waitStopped, runtimes, IInv, TypeOK, NoOrphan, StatusTruthful, LoopOwns, Ends
<1>4. ASSUME NEW e \in Ends, Fresh(e) PROVE IInv'
  <2>1. /\ loop' \in [pc : {"backoff", "dial", "wait", "ended"}, conn : Conns \cup {NoConn}]
        /\ loop'.pc = "dial" => loop'.conn \in Conns
        /\ tunnel' \in BOOLEAN /\ upgrade' \in SUBSET Conns
        /\ wire' \in [Conns -> {"free", "hello", "welcome"}]
        /\ e = "listener" => loop' = loop
    <3>1. CASE e = "dialer"
      <4>1. loop' = [pc |-> "backoff", conn |-> NoConn] /\ tunnel' = FALSE /\ upgrade' = upgrade
        BY <1>4, <3>1 DEF Fresh, At
      <4>2. wire' \in [Conns -> {"free", "hello", "welcome"}]
        BY <1>4, <3>1 DEF Fresh, IInv, TypeOK
      <4>3. QED BY <3>1, <4>1, <4>2 DEF IInv, TypeOK
    <3>2. CASE e = "listener"
      <4>1. loop' = loop /\ tunnel' = tunnel /\ upgrade' = {}
        BY <1>4, <3>2 DEF Fresh
      <4>2. wire' \in [Conns -> {"free", "hello", "welcome"}]
        BY <1>4, <3>2 DEF Fresh, IInv, TypeOK
      <4>3. QED BY <3>2, <4>1, <4>2 DEF IInv, TypeOK, LoopOwns
    <3>3. QED BY <3>1, <3>2 DEF Ends
  <2>2. TypeOK'
    BY <1>4, <2>1 DEF Fresh, IInv, TypeOK
  <2>3. NoOrphan' /\ StatusTruthful'
    <3>1. run' \in [Ends -> {"up", "stopping", "down"}] /\ run'[e] = "up"
      BY <1>4 DEF Fresh, IInv, TypeOK
    <3>2. NoOrphan'
      BY <1>4, <3>1 DEF Fresh, IInv, TypeOK, NoOrphan
    <3>3. StatusTruthful'
      BY <1>4, <3>1 DEF Fresh, IInv, TypeOK, StatusTruthful
    <3>4. QED BY <3>2, <3>3
  <2>4. LoopOwns'
    BY <1>4, <2>1 DEF Fresh, IInv, TypeOK, LoopOwns, Ends
  <2>5. QED BY <2>2, <2>3, <2>4 DEF IInv
<1>5. QED BY <1>1, <1>2, <1>3, <1>4 DEF Start, Crash

----------------------------------------------------------------------------

\* The inductive invariant holds throughout.
THEOREM Invariance == Spec => []IInv
<1>1. Init => IInv
  <2>1. SUFFICES ASSUME Init PROVE IInv
    OBVIOUS
  <2>2. TypeOK
    BY <2>1 DEF Init, At, TypeOK
  <2>3. NoOrphan /\ StatusTruthful
    BY <2>1 DEF Init, NoOrphan, StatusTruthful
  <2>4. LoopOwns
    BY <2>1 DEF Init, At, LoopOwns, Ends
  <2>5. QED BY <2>2, <2>3, <2>4 DEF IInv
<1>2. IInv /\ [Next]_vars => IInv'
  <2>1. SUFFICES ASSUME IInv, [Next]_vars PROVE IInv'
    OBVIOUS
  <2>2. CASE UNCHANGED vars
    BY <2>1, <2>2 DEF vars, IInv, TypeOK, NoOrphan, StatusTruthful, LoopOwns
  <2>3. ASSUME NEW e \in Ends, TimePasses(e) PROVE IInv'
    <3>1. cur[e] \in Conns
      BY <2>1, <2>3 DEF IInv, TypeOK, TimePasses
    <3>2. QED BY <2>1, <2>3, <3>1, RuntimeStep
  <2>4. QED BY <2>1, <2>2, <2>3, RuntimeStep, LoopStep, ListenerStep, ManagerStep DEF Next
<1>3. QED BY <1>1, <1>2, PTL DEF Spec

\* Type correctness of the link: a runtime that is current, closing or about to
\* be acted on by a heartbeat is an open one.
THEOREM TypeCorrect == Spec => []TypeOK
<1>1. IInv => TypeOK
  BY DEF IInv
<1>2. QED BY <1>1, Invariance, PTL

\* No late reader, heartbeat or handshake leaves a runtime nobody will close,
\* and none is left after Stop (activate, disconnect, Stop).
THEOREM NothingOrphaned == Spec => []NoOrphan
<1>1. IInv => NoOrphan
  BY DEF IInv
<1>2. QED BY <1>1, Invariance, PTL

\* What a running manager publishes is whether it has a current connection
\* (updateStatus, updateCurrent).
THEOREM StatusIsTrue == Spec => []StatusTruthful
<1>1. IInv => StatusTruthful
  BY DEF IInv
<1>2. QED BY <1>1, Invariance, PTL
=============================================================================
