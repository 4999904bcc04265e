------------------------- MODULE SessionInboxProofs -------------------------
(* SessionInbox drops no queued message unconfirmed, for any sessions, creators and    *)
(* messages.                                                               *)
EXTENDS SessionInbox, SequenceTheorems, TLAPS

\* What a drain is about to acknowledge was judged ingested.
DrainedJudged == \A s \in Ids : drain[s].pc \in {"told", "ack"} => drain[s].msg \in judged

IInv == TypeOK /\ DrainedJudged /\ QueuedNotLost

----------------------------------------------------------------------------
(* The queue.                                                              *)

\* Deleting one entry of a queue keeps every other one.
LEMMA RemoveAtFacts ==
    ASSUME NEW S, NEW q \in Seq(S), NEW n \in 1..Len(q)
    PROVE  /\ RemoveAt(q, n) \in Seq(S)
           /\ \A x : Contains(q, x) /\ x # q[n] => Contains(RemoveAt(q, n), x)
<1> DEFINE a == SubSeq(q, 1, n - 1)
           b == SubSeq(q, n + 1, Len(q))
<1>1. Len(q) \in Nat /\ n \in Nat /\ \A k \in 1..Len(q) : q[k] \in S
  BY ElementOfSeq, LenProperties
<1>2. a \in Seq(S) /\ Len(a) = n - 1 /\ \A k \in 1..(n - 1) : a[k] = q[k]
  <2>1. 1 \in Int /\ n - 1 \in Int /\ \A k \in 1..(n - 1) : q[k] \in S
    BY <1>1
  <2>2. /\ a \in Seq(S) /\ Len(a) = (IF 1 <= n - 1 THEN (n - 1) - 1 + 1 ELSE 0)
        /\ \A k \in 1..((n - 1) - 1 + 1) : a[k] = q[1 + k - 1]
    BY <2>1, SubSeqProperties
  <2> HIDE DEF a
  <2>3. QED BY <1>1, <2>2
<1>3. b \in Seq(S) /\ Len(b) = Len(q) - n /\ \A k \in 1..(Len(q) - n) : b[k] = q[n + k]
  <2>1. n + 1 \in Int /\ Len(q) \in Int /\ \A k \in (n + 1)..Len(q) : q[k] \in S
    BY <1>1
  <2>2. /\ b \in Seq(S) /\ Len(b) = (IF n + 1 <= Len(q) THEN Len(q) - (n + 1) + 1 ELSE 0)
        /\ \A k \in 1..(Len(q) - (n + 1) + 1) : b[k] = q[(n + 1) + k - 1]
    BY <2>1, SubSeqProperties
  <2> HIDE DEF b
  <2>3. QED BY <1>1, <2>2
<1>4. RemoveAt(q, n) = a \o b
  BY DEF RemoveAt
<1> HIDE DEF a, b
<1>5. /\ a \o b \in Seq(S) /\ Len(a \o b) = Len(a) + Len(b)
      /\ \A i \in 1 .. Len(a) + Len(b) : (a \o b)[i] = IF i <= Len(a) THEN a[i] ELSE b[i - Len(a)]
  BY <1>2, <1>3, ConcatProperties
<1>6. ASSUME NEW x, NEW k \in 1..Len(q), q[k] = x, x # q[n]
      PROVE  \E i \in 1..Len(a \o b) : (a \o b)[i] = x
  <2>1. CASE k < n
    <3>1. k \in 1..Len(a \o b) /\ (a \o b)[k] = q[k]
      BY <1>1, <1>2, <1>3, <1>5, <2>1
    <3>2. QED BY <1>6, <3>1
  <2>2. CASE k > n
    <3>1. k - 1 \in 1..Len(a \o b) /\ (a \o b)[k - 1] = b[k - n]
      BY <1>1, <1>2, <1>3, <1>5, <2>2
    <3>2. b[k - n] = q[k]
      BY <1>1, <1>3, <2>2
    <3>3. QED BY <1>6, <3>1, <3>2
  <2>3. QED BY <1>1, <1>6, <2>1, <2>2
<1>7. QED BY <1>4, <1>5, <1>6 DEF Contains

\* An acknowledgement removes the message it names and no other.
LEMMA AckFacts ==
    ASSUME TypeOK, NEW m, AckSessionInbox(m)
    PROVE  /\ inbox' \in Seq(Msgs)
           /\ \A x : Contains(inbox, x) /\ x # m => Contains(inbox', x)
<1>1. inbox \in Seq(Msgs)
  BY DEF TypeOK
<1>2. CASE UNCHANGED inbox
  BY <1>1, <1>2
<1>3. ASSUME NEW n \in 1..Len(inbox), inbox[n] = m, inbox' = RemoveAt(inbox, n)
      PROVE  /\ inbox' \in Seq(Msgs)
             /\ \A x : Contains(inbox, x) /\ x # m => Contains(inbox', x)
  BY <1>1, <1>3, RemoveAtFacts
<1>4. QED BY <1>2, <1>3 DEF AckSessionInbox

\* Queueing a message keeps the others.
LEMMA AppendFacts ==
    ASSUME NEW q \in Seq(Msgs), NEW m \in Msgs
    PROVE  /\ Append(q, m) \in Seq(Msgs) /\ Contains(Append(q, m), m)
           /\ \A x : Contains(q, x) => Contains(Append(q, m), x)
<1>1. /\ Append(q, m) \in Seq(Msgs) /\ Len(Append(q, m)) = Len(q) + 1 /\ Len(q) \in Nat
      /\ Append(q, m)[Len(q) + 1] = m
  OBVIOUS
<1>2. \A k \in 1..Len(q) : Append(q, m)[k] = q[k] /\ k \in 1..Len(Append(q, m))
  OBVIOUS
<1>3. Len(q) + 1 \in 1..Len(Append(q, m))
  BY <1>1
<1>4. QED BY <1>1, <1>2, <1>3 DEF Contains

----------------------------------------------------------------------------
(* Types of the runtime.                                                   *)

\* What sets a session's state to a state keeps the table well typed.
LEMMA SetStateType ==
    ASSUME RuntimeTypeOK, NEW s, NEW v \in State, SetState(s, v)
    PROVE  st' \in [Ids -> State]
BY DEF RuntimeTypeOK, SetState, State

\* What is saved is a table of states.
LEMMA PersistsType ==
    ASSUME saved \in [Ids -> State], NEW t \in [Ids -> State], Persists(t)
    PROVE  saved' \in [Ids -> State]
BY DEF Persists, Snapshot, State

\* Creates, lifecycles, prompts, monitors, kills and restarts keep the types.
LEMMA RuntimeType ==
    ASSUME RuntimeTypeOK, RuntimeNext \/ Restart \/ \E s \in Ids : LifeReady(s)
    PROVE  RuntimeTypeOK'
<1> USE RuntimeAssumption
<1>1. /\ "none" \in State /\ "starting" \in State /\ "handshaking" \in State /\ "idle" \in State
      /\ "working" \in State /\ "stuck" \in State /\ "exited" \in State /\ "failed" \in State
      /\ "escalated" \in State
  BY DEF State, Terminal
<1>2. ASSUME NEW c \in Creators, CreateMiss(c) \/ CreatePane(c) \/ CreateStore(c) PROVE RuntimeTypeOK'
  <2>1. CASE CreateMiss(c)
    BY <2>1 DEF CreateMiss, RuntimeTypeOK
  <2>2. CASE CreatePane(c)
    BY <2>2 DEF CreatePane, RuntimeTypeOK, NotCreating
  <2>3. CASE CreateStore(c)
    <3>1. st' \in [Ids -> State]
      BY <1>1, <2>3 DEF CreateStore, RuntimeTypeOK
    <3>2. saved' \in [Ids -> State]
      BY <2>3, <3>1, PersistsType DEF CreateStore, RuntimeTypeOK
    <3>3. QED BY <2>3, <3>1, <3>2 DEF CreateStore, RuntimeTypeOK, LifeSteps, NotCreating
  <2>4. QED BY <1>2, <2>1, <2>2, <2>3
<1>3. ASSUME NEW s \in Ids,
             \/ LifeStart(s) \/ Handshake(s) \/ LifeReady(s) \/ LifeBroken(s)
             \/ LifeDeliver(s) \/ LifeDelivered(s) \/ SendPrompt(s) \/ SendPromptReturns(s)
      PROVE  RuntimeTypeOK'
  <2>1. CASE Handshake(s) \/ LifeDeliver(s)
    BY <2>1 DEF Handshake, LifeDeliver, RuntimeTypeOK, LifeSteps
  <2>2. CASE SendPrompt(s)
    BY <2>2 DEF SendPrompt, RuntimeTypeOK, PromptSteps
  <2>3. CASE LifeStart(s) \/ LifeReady(s) \/ LifeBroken(s) \/ LifeDelivered(s) \/ SendPromptReturns(s)
    <3>1. PICK v \in State : SetState(s, v)
      BY <1>1, <2>3 DEF LifeStart, LifeReady, LifeBroken, LifeDelivered, SendPromptReturns
    <3>2. st' \in [Ids -> State]
      BY <3>1, SetStateType
    <3>3. life' \in [Ids -> LifeSteps] /\ prompt' \in [Ids -> PromptSteps] /\ mon' \subseteq Ids
      BY <2>3 DEF LifeStart, LifeReady, LifeBroken, LifeDelivered, SendPromptReturns, RuntimeTypeOK,
                  LifeSteps, PromptSteps
    <3>4. UNCHANGED <<pane, used, tick, killing, saved, creating>>
      BY <2>3 DEF LifeStart, LifeReady, LifeBroken, LifeDelivered, SendPromptReturns
    <3>5. QED BY <3>2, <3>3, <3>4 DEF RuntimeTypeOK
  <2>4. QED BY <1>3, <2>1, <2>2, <2>3
<1>4. ASSUME NEW s \in Ids, TickRead(s) \/ TickWrite(s) PROVE RuntimeTypeOK'
  <2>1. CASE TickRead(s)
    <3>1. PICK v \in State : tick' = [tick EXCEPT ![s] = v]
      BY <1>1, <2>1 DEF TickRead, Verdict
    <3>2. QED BY <2>1, <3>1 DEF TickRead, RuntimeTypeOK
  <2>2. CASE TickWrite(s)
    <3>1. st' \in [Ids -> State]
      BY <2>2, SetStateType DEF TickWrite, RuntimeTypeOK
    <3>2. QED BY <1>1, <2>2, <3>1 DEF TickWrite, RuntimeTypeOK
  <2>3. QED BY <1>4, <2>1, <2>2
<1>5. ASSUME NEW s \in Ids, Kill(s) \/ KillReturns(s) \/ Close(s) \/ AgentExits(s) PROVE RuntimeTypeOK'
  <2>1. CASE Kill(s) \/ AgentExits(s)
    BY <2>1 DEF Kill, AgentExits, RuntimeTypeOK
  <2>2. CASE KillReturns(s)
    <3>1. st' \in [Ids -> State]
      BY <1>1, <2>2, SetStateType DEF KillReturns
    <3>2. saved' \in [Ids -> State]
      BY <2>2, <3>1, PersistsType DEF KillReturns, RuntimeTypeOK
    <3>3. QED BY <2>2, <3>1, <3>2 DEF KillReturns, RuntimeTypeOK
  <2>3. CASE Close(s)
    <3>1. st' \in [Ids -> State]
      BY <1>1, <2>3 DEF Close, RuntimeTypeOK
    <3>2. saved' \in [Ids -> State]
      BY <2>3, <3>1, PersistsType DEF Close, RuntimeTypeOK
    <3>3. QED BY <2>3, <3>1, <3>2 DEF Close, RuntimeTypeOK
  <2>4. QED BY <1>5, <2>1, <2>2, <2>3
<1>6. CASE PersistLoop
  <2>1. saved' \in [Ids -> State]
    BY <1>6, PersistsType DEF PersistLoop, Persists, RuntimeTypeOK
  <2>2. QED BY <1>6, <2>1 DEF PersistLoop, RuntimeTypeOK
<1>7. CASE Restart
  <2>1. st' \in [Ids -> State] /\ tick' \in [Ids -> State]
    BY <1>1, <1>7 DEF Restart, RuntimeTypeOK
  <2>2. QED BY <1>7, <2>1 DEF Restart, RuntimeTypeOK, LifeSteps, PromptSteps, NotCreating
<1>8. QED BY <1>2, <1>3, <1>4, <1>5, <1>6, <1>7 DEF RuntimeNext

----------------------------------------------------------------------------
(* The inbox.                                                              *)

SendRec == [pc : SendSteps, id : Ids \cup {NoId}, force : BOOLEAN]
DrainRec == [pc : DrainSteps, msg : Msgs \cup {NoMsg}]
DrainOK(d) == d \in DrainRec /\ (d.msg = NoMsg <=> d.pc \in {"none", "start"})

\* A step that sets one drain to d, whose message an agent has if it was told,
\* and leaves the messages alone.
LEMMA DrainStep ==
    ASSUME IInv, RuntimeTypeOK', NEW s \in Ids, NEW d, DrainOK(d),
           drain' = [drain EXCEPT ![s] = d],
           inbox' \in Seq(Msgs), judged' \in SUBSET Msgs, judged \subseteq judged',
           d.pc \in {"told", "ack"} => d.msg \in judged',
           UNCHANGED <<taken, sends>>,
           \A x \in Msgs : Contains(inbox, x) => Contains(inbox', x) \/ x \in judged
    PROVE  IInv'
<1>1. TypeOK'
  BY DEF IInv, TypeOK, DrainOK, DrainRec
<1>2. DrainedJudged'
  BY DEF IInv, TypeOK, DrainedJudged
<1>3. QueuedNotLost'
  BY DEF IInv, QueuedNotLost
<1>4. QED BY <1>1, <1>2, <1>3 DEF IInv

\* The steps of a drain.
LEMMA DrainActions ==
    ASSUME IInv, NEW s \in Ids,
           LifeReadyDrains(s) \/ DrainPeek(s) \/ DrainDeliver(s) \/ DrainDelivered(s) \/ DrainAck(s)
    PROVE  IInv'
<1> USE NoMsgAssumption
<1>0. /\ RuntimeTypeOK /\ inbox \in Seq(Msgs) /\ judged \in SUBSET Msgs
      /\ drain[s] \in DrainRec /\ (drain[s].msg = NoMsg <=> drain[s].pc \in {"none", "start"})
  BY DEF IInv, TypeOK, DrainRec
<1>1. DrainOK(NoDrain) /\ NoDrain.pc = "none"
  BY DEF DrainOK, DrainRec, NoDrain, DrainSteps
<1>2. \A m \in Msgs : \A pc \in {"deliver", "told", "untold", "ack"} : DrainOK([pc |-> pc, msg |-> m])
  BY DEF DrainOK, DrainRec, DrainSteps
<1>3. CASE LifeReadyDrains(s)
  <2> DEFINE d == [pc |-> "start", msg |-> NoMsg]
  <2>1. DrainOK(d) /\ d.pc = "start"
    BY DEF DrainOK, DrainRec, DrainSteps
  <2>2. drain' = [drain EXCEPT ![s] = d] /\ UNCHANGED <<inbox, judged, taken, sends>> /\ LifeReady(s)
    BY <1>3 DEF LifeReadyDrains, SetDrain
  <2> HIDE DEF d
  <2>3. RuntimeTypeOK'
    BY <1>0, <2>2, RuntimeType
  <2>4. QED BY <1>0, <2>1, <2>2, <2>3, DrainStep
<1>4. ASSUME UNCHANGED runtimeVars PROVE RuntimeTypeOK'
  BY <1>0, <1>4 DEF runtimeVars, RuntimeTypeOK
<1>5. CASE DrainPeek(s)
  <2>1. UNCHANGED <<inbox, judged, taken, sends>> /\ UNCHANGED runtimeVars
    BY <1>5 DEF DrainPeek
  <2>2. PICK d : DrainOK(d) /\ d.pc \in {"none", "deliver"} /\ drain' = [drain EXCEPT ![s] = d]
    <3>1. CASE drain' = [drain EXCEPT ![s] = NoDrain]
      BY <1>1, <3>1
    <3>2. CASE inbox # <<>> /\ drain' = [drain EXCEPT ![s] = [pc |-> "deliver", msg |-> Head(inbox)]]
      <4>1. Head(inbox) \in Msgs
        BY <1>0, <3>2
      <4>2. QED BY <1>2, <3>2, <4>1
    <3>3. QED BY <1>5, <3>1, <3>2 DEF DrainPeek, SetDrain
  <2>3. QED BY <1>0, <1>4, <2>1, <2>2, DrainStep
<1>6. CASE DrainDeliver(s)
  <2> DEFINE m == drain[s].msg
  <2>1. m \in Msgs
    BY <1>0, <1>6 DEF DrainDeliver, DrainRec
  <2>2. UNCHANGED <<inbox, taken, sends>> /\ UNCHANGED runtimeVars
    BY <1>6 DEF DrainDeliver
  <2>3. PICK pc \in {"told", "untold"} :
           /\ drain' = [drain EXCEPT ![s] = [pc |-> pc, msg |-> m]]
           /\ judged' \in {judged, judged \cup {m}} /\ (pc = "told" => m \in judged')
    BY <1>6 DEF DrainDeliver, SetDrain
  <2> HIDE DEF m
  <2>4. DrainOK([pc |-> pc, msg |-> m])
    BY <1>2, <2>1
  <2>5. judged' \in SUBSET Msgs /\ judged \subseteq judged'
    BY <1>0, <2>1, <2>3
  <2>6. QED BY <1>0, <1>4, <2>2, <2>3, <2>4, <2>5, DrainStep
<1>7. CASE DrainDelivered(s)
  <2>1. UNCHANGED <<inbox, judged, taken, sends>>
    BY <1>7 DEF DrainDelivered
  <2>2. RuntimeTypeOK'
    <3>1. st' \in [Ids -> State]
      <4>1. "working" \in State /\ "stuck" \in State
        BY DEF State
      <4>2. QED BY <1>0, <1>7, <4>1, SetStateType DEF DrainDelivered
    <3>2. QED BY <1>0, <1>7, <3>1 DEF DrainDelivered, RuntimeTypeOK
  <2>3. PICK d : /\ DrainOK(d) /\ drain' = [drain EXCEPT ![s] = d]
                 /\ d.pc \in {"told", "ack"} => d.msg \in judged
    <3>1. CASE drain[s].pc = "told" /\ drain' = [drain EXCEPT ![s] = [pc |-> "ack", msg |-> drain[s].msg]]
      <4>1. drain[s].msg \in Msgs /\ drain[s].msg \in judged
        BY <1>0, <3>1 DEF DrainRec, IInv, DrainedJudged
      <4> DEFINE d == [pc |-> "ack", msg |-> drain[s].msg]
      <4>2. DrainOK(d) /\ d.msg = drain[s].msg /\ drain' = [drain EXCEPT ![s] = d]
        BY <1>2, <3>1, <4>1
      <4> HIDE DEF d
      <4>3. QED BY <4>1, <4>2
    <3>2. CASE drain' = [drain EXCEPT ![s] = NoDrain]
      BY <1>1, <3>2
    <3>3. QED BY <1>7, <3>1, <3>2 DEF DrainDelivered, SetDrain
  <2>4. QED BY <1>0, <2>1, <2>2, <2>3, DrainStep
<1>8. CASE DrainAck(s)
  <2>1. /\ drain' = [drain EXCEPT ![s] = NoDrain] /\ UNCHANGED <<judged, taken, sends>>
        /\ UNCHANGED runtimeVars /\ drain[s].msg \in judged
    BY <1>8 DEF DrainAck, IInv, DrainedJudged
  <2>2. inbox' \in Seq(Msgs) /\ \A x \in Msgs : Contains(inbox, x) => Contains(inbox', x) \/ x \in judged
    BY <1>0, <1>8, <2>1, AckFacts DEF DrainAck, IInv
  <2>3. QED BY <1>0, <1>1, <1>4, <2>1, <2>2, DrainStep
<1>9. QED BY <1>3, <1>5, <1>6, <1>7, <1>8

\* The steps of Send, and a client's acknowledgement.
LEMMA SendStep ==
    ASSUME IInv, NEW m \in Msgs,
           \/ \E s \in Ids, force \in BOOLEAN : Send(m, s, force)
           \/ SendDeliver(m) \/ SendDelivered(m) \/ SendQueue(m) \/ AckInbox(m)
    PROVE  IInv'
<1>0. /\ RuntimeTypeOK /\ inbox \in Seq(Msgs) /\ judged \in SUBSET Msgs
      /\ sends \in [Msgs -> SendRec]
  BY DEF IInv, TypeOK, SendRec
<1>1. drain' = drain
  BY DEF Send, SendDeliver, SendDelivered, SendQueue, AckInbox
<1>2. RuntimeTypeOK'
  <2>1. CASE UNCHANGED runtimeVars
    BY <1>0, <2>1 DEF runtimeVars, RuntimeTypeOK
  <2>2. CASE SendDelivered(m)
    <3>1. st' \in [Ids -> State]
      <4>1. "working" \in State /\ "stuck" \in State
        BY DEF State
      <4>2. QED BY <1>0, <2>2, <4>1, SetStateType DEF SendDelivered
    <3>2. QED BY <1>0, <2>2, <3>1 DEF SendDelivered, RuntimeTypeOK
  <2>3. QED BY <2>1, <2>2 DEF Send, SendDeliver, SendQueue, AckInbox
<1>3. sends' \in [Msgs -> SendRec]
  BY <1>0 DEF Send, SendDeliver, SendDelivered, SendQueue, AckInbox, SendRec, SendSteps
<1>4. /\ judged' \in SUBSET Msgs /\ judged \subseteq judged' /\ taken \subseteq taken'
      /\ taken' \in SUBSET Msgs
  BY DEF Send, SendDeliver, SendDelivered, SendQueue, AckInbox, IInv, TypeOK
<1>5. /\ inbox' \in Seq(Msgs)
      /\ \A x \in Msgs : Contains(inbox, x) => Contains(inbox', x) \/ x \in taken'
      /\ \A x \in Msgs : sends'[x].pc = "queued" => sends[x].pc = "queued" \/ Contains(inbox', x)
  <2>1. CASE UNCHANGED inbox /\ \A x \in Msgs : sends'[x].pc = "queued" => sends[x].pc = "queued"
    BY <1>0, <2>1
  <2>2. CASE inbox' = Append(inbox, m) /\ sends' = [sends EXCEPT ![m].pc = "queued"]
    BY <1>0, <2>2, AppendFacts
  <2>3. CASE AckInbox(m)
    BY <1>0, <2>3, AckFacts DEF AckInbox, IInv
  <2>4. CASE (\E s \in Ids, force \in BOOLEAN : Send(m, s, force)) \/ SendDeliver(m) \/ SendDelivered(m)
    <3>1. UNCHANGED inbox /\ \A x \in Msgs : sends'[x].pc = "queued" => sends[x].pc = "queued"
      BY <1>0, <2>4 DEF Send, SendDeliver, SendDelivered, SendRec, SendSteps
    <3>2. QED BY <2>1, <3>1
  <2>5. CASE SendQueue(m)
    <3>1. CASE sends' = [sends EXCEPT ![m].pc = "failed"] /\ UNCHANGED inbox
      <4>1. \A x \in Msgs : sends'[x].pc = "queued" => sends[x].pc = "queued"
        BY <1>0, <3>1 DEF SendRec
      <4>2. QED BY <2>1, <3>1, <4>1
    <3>2. QED BY <2>2, <2>5, <3>1 DEF SendQueue
  <2>6. QED BY <2>3, <2>4, <2>5
<1>6. TypeOK'
  BY <1>1, <1>2, <1>3, <1>4, <1>5 DEF IInv, TypeOK, SendRec
<1>7. DrainedJudged' /\ QueuedNotLost'
  BY <1>1, <1>4, <1>5 DEF IInv, DrainedJudged, QueuedNotLost
<1>8. QED BY <1>6, <1>7 DEF IInv

----------------------------------------------------------------------------

\* The inductive invariant holds throughout.
THEOREM Invariance == Spec => []IInv
<1>1. Init => IInv
  <2>1. SUFFICES ASSUME Init PROVE IInv
    OBVIOUS
  <2>2. RuntimeTypeOK
    BY <2>1 DEF Init, RuntimeInit, RuntimeTypeOK, State, LifeSteps, PromptSteps, NotCreating
  <2>3. TypeOK
    BY <2>1, <2>2 DEF Init, TypeOK, NoDrain, SendSteps, DrainSteps
  <2>4. DrainedJudged /\ QueuedNotLost
    BY <2>1 DEF Init, DrainedJudged, QueuedNotLost, NoDrain
  <2>5. QED BY <2>3, <2>4 DEF IInv
<1>2. IInv /\ [Next]_vars => IInv'
  <2>1. SUFFICES ASSUME IInv, [Next]_vars PROVE IInv'
    OBVIOUS
  <2>2. ASSUME RuntimeTypeOK', UNCHANGED inboxVars PROVE IInv'
    BY <2>1, <2>2 DEF inboxVars, IInv, TypeOK, DrainedJudged, QueuedNotLost
  <2>3. CASE UNCHANGED vars
    <3>1. RuntimeTypeOK'
      BY <2>1, <2>3 DEF vars, runtimeVars, IInv, TypeOK, RuntimeTypeOK
    <3>2. QED BY <2>2, <2>3, <3>1 DEF vars
  <2>4. CASE RuntimeNext /\ UNCHANGED inboxVars
    BY <2>1, <2>2, <2>4, RuntimeType DEF IInv, TypeOK
  <2>5. CASE InboxRestart
    <3>1. RuntimeTypeOK'
      BY <2>1, <2>5, RuntimeType DEF InboxRestart, IInv, TypeOK
    <3>2. /\ drain' = [s \in Ids |-> NoDrain] /\ UNCHANGED <<inbox, judged, taken>>
          /\ sends' \in [Msgs -> SendRec]
          /\ \A m \in Msgs : sends'[m].pc = "queued" => sends[m].pc = "queued"
      BY <2>1, <2>5 DEF InboxRestart, IInv, TypeOK, SendRec, SendSteps
    <3>3. TypeOK'
      BY <2>1, <3>1, <3>2 DEF IInv, TypeOK, NoDrain, DrainSteps, SendRec
    <3>4. DrainedJudged' /\ QueuedNotLost'
      BY <2>1, <3>2 DEF IInv, DrainedJudged, QueuedNotLost, NoDrain
    <3>5. QED BY <3>3, <3>4 DEF IInv
  <2>6. QED BY <2>1, <2>3, <2>4, <2>5, SendStep, DrainActions DEF Next
<1>3. QED BY <1>1, <1>2, PTL DEF Spec

\* Type correctness of the sessions and their inbox.
THEOREM TypeCorrect == Spec => []TypeOK
<1>1. IInv => TypeOK
  BY DEF IInv
<1>2. QED BY <1>1, Invariance, PTL

\* A queued message is in the inbox until it was submitted to a pane and judged
\* ingested there, or a client took it (Send, drainInboxOnIdle,
\* AckSessionInbox).
THEOREM NothingQueuedIsLost == Spec => []QueuedNotLost
<1>1. IInv => QueuedNotLost
  BY DEF IInv
<1>2. QED BY <1>1, Invariance, PTL
=============================================================================
