---------------------------- MODULE MeshRPCProofs ----------------------------
(* MeshRPC keeps no call, blocks no reader and hides no loss, for any      *)
(* calls and any capacities of its tables and queues.                      *)
EXTENDS MeshRPC, FiniteSetTheorems, TLAPS

\* A registered call has not returned, and one that is not registered yet has
\* an empty channel.
Registered ==
    \A i \in Calls : /\ i \in pending => call[i] \in {"registered", "waiting"}
                     /\ call[i] \in {"idle", "found"} => box[i] = "empty"

\* A gap that counts as sent is queued, being written, or just written.
GapOnItsWay == out.gapSent => out.writing \in {"gap", "wroteGap"} \/ GapQueued(out.q)

\* The part about calls and the part about events: most actions change one.
CallInv == CallType /\ Registered /\ NoCallLeft /\ ReaderNeverBlocks /\ HandlersCancellable
EventInv == EventType /\ GapOnItsWay /\ LossReported
IInv == CallInv /\ EventInv

----------------------------------------------------------------------------
(* Sequences and tables.                                                   *)

Has(q, kinds) == \E n \in 1..Len(q) : q[n] \in kinds

\* What is in a queue stays in it when something is appended to it.
LEMMA AppendHas ==
    ASSUME NEW S, NEW q \in Seq(S), NEW x \in S, NEW kinds
    PROVE  /\ Append(q, x) \in Seq(S) /\ Len(Append(q, x)) = Len(q) + 1
           /\ Has(q, kinds) \/ x \in kinds => Has(Append(q, x), kinds)
<1>1. Append(q, x) \in Seq(S) /\ Len(Append(q, x)) = Len(q) + 1 /\ Len(q) \in Nat
  OBVIOUS
<1>2. ASSUME NEW n \in 1..Len(q), q[n] \in kinds PROVE Has(Append(q, x), kinds)
  <2>1. Append(q, x)[n] = q[n] /\ n \in 1..Len(Append(q, x))
    OBVIOUS
  <2>2. QED BY <1>2, <2>1 DEF Has
<1>3. ASSUME x \in kinds PROVE Has(Append(q, x), kinds)
  <2>1. Append(q, x)[Len(q) + 1] = x /\ Len(q) + 1 \in 1..Len(Append(q, x))
    OBVIOUS
  <2>2. QED BY <1>3, <2>1 DEF Has
<1>4. QED BY <1>1, <1>2, <1>3 DEF Has

\* What is in a queue is its head or in its tail.
LEMMA TailHas ==
    ASSUME NEW S, NEW q \in Seq(S), q # <<>>, NEW kinds
    PROVE  /\ Head(q) \in S /\ Tail(q) \in Seq(S) /\ Len(Tail(q)) = Len(q) - 1
           /\ Has(q, kinds) => Head(q) \in kinds \/ Has(Tail(q), kinds)
<1>1. /\ Head(q) \in S /\ Tail(q) \in Seq(S) /\ Len(Tail(q)) = Len(q) - 1
      /\ Head(q) = q[1] /\ Len(q) \in Nat
  OBVIOUS
<1>2. ASSUME NEW n \in 1..Len(q), q[n] \in kinds
      PROVE  Head(q) \in kinds \/ Has(Tail(q), kinds)
  <2>1. CASE n = 1
    BY <1>1, <1>2, <2>1
  <2>2. CASE n # 1
    <3>1. n - 1 \in 1..Len(Tail(q)) /\ Tail(q)[n - 1] = q[n]
      BY <1>1, <2>2
    <3>2. QED BY <1>2, <3>1 DEF Has
  <2>3. QED BY <2>1, <2>2
<1>3. QED BY <1>1, <1>2 DEF Has

\* A table of bounded size takes one more entry, or gives one up.
LEMMA TableSize ==
    ASSUME NEW S, NEW i, NEW max \in Nat, IsFiniteSet(S), Cardinality(S) <= max
    PROVE  /\ IsFiniteSet(S \ {i}) /\ Cardinality(S \ {i}) <= max
           /\ IsFiniteSet(S \cup {i})
           /\ Cardinality(S) < max => Cardinality(S \cup {i}) <= max
<1>1. Cardinality(S) \in Nat
  BY FS_CardinalityType
<1>2. IsFiniteSet(S \cup {i}) /\ Cardinality(S \cup {i}) <= Cardinality(S) + 1
  <2>1. /\ IsFiniteSet(S \cup {i})
        /\ Cardinality(S \cup {i}) = IF i \in S THEN Cardinality(S) ELSE Cardinality(S) + 1
    BY FS_AddElement, Zenon
  <2>2. QED BY <1>1, <2>1
<1>3. IsFiniteSet(S \ {i}) /\ Cardinality(S \ {i}) <= Cardinality(S)
  <2>1. /\ IsFiniteSet(S \ {i})
        /\ Cardinality(S \ {i}) = IF i \in S THEN Cardinality(S) - 1 ELSE Cardinality(S)
    BY FS_RemoveElement, Zenon
  <2>2. QED BY <1>1, <2>1
<1>4. Cardinality(S \cup {i}) \in Nat /\ Cardinality(S \ {i}) \in Nat
  BY <1>2, <1>3, FS_CardinalityType
<1>5. QED BY <1>1, <1>2, <1>3, <1>4

----------------------------------------------------------------------------
(* Calls.                                                                  *)

\* A queue keeps its capacity.
LEMMA EnqueueType ==
    ASSUME CallType, NEW e \in Ends, NEW f \in Frames \ {NoFrame}
    PROVE  /\ enqueueApp(e, f) \in [Ends -> Seq(Frames \ {NoFrame})]
           /\ \A x \in Ends : Len(enqueueApp(e, f)[x]) <= WriterQueue
<1>1. CASE CanEnqueue(e)
  <2>1. enqueueApp(e, f) = [app EXCEPT ![e] = Append(@, f)]
    BY <1>1 DEF enqueueApp
  <2>2. Append(app[e], f) \in Seq(Frames \ {NoFrame}) /\ Len(Append(app[e], f)) = Len(app[e]) + 1
    <3>1. app[e] \in Seq(Frames \ {NoFrame})
      BY DEF CallType
    <3> HIDE DEF Frames
    <3>2. QED BY <3>1, AppendHas
  <2>3. Len(app[e]) + 1 <= WriterQueue
    <3>1. app[e] \in Seq(Frames \ {NoFrame})
      BY DEF CallType
    <3>2. Len(app[e]) \in Nat /\ WriterQueue \in Nat
      BY <3>1, RPCAssumption
    <3>3. QED BY <1>1, <3>2 DEF CanEnqueue
  <2>4. QED BY <2>1, <2>2, <2>3 DEF CallType
<1>2. CASE ~ CanEnqueue(e)
  BY <1>2 DEF enqueueApp, CallType
<1>3. QED BY <1>1, <1>2

\* A frame names its call.
LEMMA FrameType ==
    ASSUME NEW i \in Calls, NEW t \in {"request", "response", "cancel"}
    PROVE  Frame(t, i) \in Frames \ {NoFrame}
BY DEF Frame, Frames, NoFrame

\* What a call does to itself, its entry and its request.
LEMMA CallStep ==
    ASSUME CallInv, NEW i \in Calls,
           \/ CallFinds(i) \/ CallRegisters(i) \/ CallSends(i)
           \/ CallReturns(i) \/ CallTimesOut(i)
    PROVE  CallInv'
<1>0. MaxPendingCalls \in Nat
  BY RPCAssumption
<1>1. UNCHANGED <<life, reading, box, handler, inflight>>
  BY DEF CallFinds, CallRegisters, CallSends, CallReturns, CallTimesOut
<1>2. PICK v \in {"found", "registered", "waiting", "returned"} :
        /\ call' = [call EXCEPT ![i] = v]
        /\ \/ v = "found" /\ call[i] = "idle" /\ pending' = pending
           \/ /\ v = "registered" /\ call[i] = "found" /\ pending' = pending \cup {i}
              /\ life["caller"] = "open" /\ Cardinality(pending) < MaxPendingCalls
           \/ v = "waiting" /\ call[i] = "registered" /\ pending' = pending
           \/ v = "returned" /\ pending' = pending \ {i}
           \/ v = "returned" /\ pending' = pending /\ call[i] = "found"
           \/ v = "returned" /\ pending' = pending /\ box[i] # "empty"
  BY DEF CallFinds, CallRegisters, CallSends, CallReturns, CallTimesOut, Register
<1>3. /\ app' \in [Ends -> Seq(Frames \ {NoFrame})]
      /\ \A e \in Ends : Len(app'[e]) <= WriterQueue
  <2>1. app' = app \/ \E t \in {"request", "response", "cancel"} : app' = enqueueApp("caller", Frame(t, i))
    BY DEF CallFinds, CallRegisters, CallSends, CallReturns, CallTimesOut
  <2>2. "caller" \in Ends
    BY DEF Ends
  <2>3. CASE app' = app
    BY <2>3 DEF CallInv, CallType
  <2>4. ASSUME NEW t \in {"request", "response", "cancel"}, app' = enqueueApp("caller", Frame(t, i))
        PROVE  /\ app' \in [Ends -> Seq(Frames \ {NoFrame})]
               /\ \A e \in Ends : Len(app'[e]) <= WriterQueue
    <3>1. Frame(t, i) \in Frames \ {NoFrame}
      BY FrameType
    <3>2. QED BY <2>2, <2>4, <3>1, EnqueueType DEF CallInv
  <2>5. QED BY <2>1, <2>3, <2>4
<1>4. pending' \subseteq Calls /\ IsFiniteSet(pending') /\ Cardinality(pending') <= MaxPendingCalls
  <2>1. pending \subseteq Calls /\ IsFiniteSet(pending) /\ Cardinality(pending) <= MaxPendingCalls
    BY DEF CallInv, CallType
  <2>2. QED BY <1>0, <1>2, <2>1, TableSize
<1>5. CallType'
  BY <1>1, <1>2, <1>3, <1>4 DEF CallInv, CallType
<1>6. Registered'
  BY <1>1, <1>2 DEF CallInv, CallType, Registered, ReaderNeverBlocks
<1>7. NoCallLeft'
  BY <1>1, <1>2 DEF CallInv, NoCallLeft
<1>8. ReaderNeverBlocks'
  BY <1>1, <1>2 DEF CallInv, CallType, Registered, ReaderNeverBlocks
<1>9. HandlersCancellable'
  BY <1>1 DEF CallInv, HandlersCancellable
<1>10. QED BY <1>5, <1>6, <1>7, <1>8, <1>9 DEF CallInv

\* A handler ends, and answers unless it was cancelled.
LEMMA HandlerStep ==
    ASSUME CallInv, NEW i \in Calls, runHandler(i)
    PROVE  CallInv'
<1>1. /\ UNCHANGED <<life, reading, call, pending, box>>
      /\ handler' = [handler EXCEPT ![i] = "over"] /\ inflight' = inflight \ {i}
      /\ app' = app \/ app' = enqueueApp("callee", Frame("response", i))
  BY DEF runHandler
<1>2. /\ app' \in [Ends -> Seq(Frames \ {NoFrame})]
      /\ \A e \in Ends : Len(app'[e]) <= WriterQueue
  <2>1. Frame("response", i) \in Frames \ {NoFrame} /\ "callee" \in Ends
    BY FrameType DEF Ends
  <2>2. CASE app' = app
    BY <2>2 DEF CallInv, CallType
  <2>3. CASE app' = enqueueApp("callee", Frame("response", i))
    BY <2>1, <2>3, EnqueueType DEF CallInv
  <2>4. QED BY <1>1, <2>2, <2>3
<1>3. inflight' \subseteq Calls /\ IsFiniteSet(inflight') /\ Cardinality(inflight') <= MaxPendingCalls
  <2>1. inflight \subseteq Calls /\ IsFiniteSet(inflight) /\ Cardinality(inflight) <= MaxPendingCalls
    BY DEF CallInv, CallType
  <2>2. QED BY <1>1, <2>1, RPCAssumption, TableSize
<1>4. CallType'
  BY <1>1, <1>2, <1>3 DEF CallInv, CallType
<1>5. HandlersCancellable'
  BY <1>1 DEF CallInv, CallType, HandlersCancellable
<1>6. QED BY <1>1, <1>4, <1>5 DEF CallInv, Registered, NoCallLeft, ReaderNeverBlocks

\* A reader takes a frame.
LEMMA ReaderStep ==
    ASSUME CallInv, NEW e \in Ends, ReaderTakes(e)
    PROVE  CallInv'
<1>1. /\ UNCHANGED <<life, call, pending, box, handler, inflight>>
      /\ app[Peer(e)] # <<>> /\ Peer(e) \in Ends
      /\ reading' = [reading EXCEPT ![e] = Head(app[Peer(e)])]
      /\ app' = [app EXCEPT ![Peer(e)] = Tail(@)]
  BY DEF ReaderTakes, Peer, Ends
<1>2. app[Peer(e)] \in Seq(Frames \ {NoFrame}) /\ Len(app[Peer(e)]) <= WriterQueue
  BY <1>1 DEF CallInv, CallType
<1>3. /\ Head(app[Peer(e)]) \in Frames /\ Tail(app[Peer(e)]) \in Seq(Frames \ {NoFrame})
      /\ Len(Tail(app[Peer(e)])) <= WriterQueue
  <2> HIDE DEF Frames
  <2>1. /\ Head(app[Peer(e)]) \in Frames \ {NoFrame}
        /\ Tail(app[Peer(e)]) \in Seq(Frames \ {NoFrame})
        /\ Len(Tail(app[Peer(e)])) = Len(app[Peer(e)]) - 1
        /\ Len(app[Peer(e)]) \in Nat
    BY <1>1, <1>2, TailHas
  <2>2. QED BY <1>2, <2>1, RPCAssumption
<1>4. CallType'
  <2>1. reading' \in [Ends -> Frames]
    BY <1>1, <1>3 DEF CallInv, CallType
  <2>2. app' \in [Ends -> Seq(Frames \ {NoFrame})] /\ \A x \in Ends : Len(app'[x]) <= WriterQueue
    BY <1>1, <1>3 DEF CallInv, CallType
  <2>3. QED BY <1>1, <2>1, <2>2 DEF CallInv, CallType
<1>5. QED BY <1>1, <1>4 DEF CallInv, Registered, NoCallLeft, ReaderNeverBlocks, HandlersCancellable

\* A request, a cancel or a response is handled, even after the runtime was
\* closed.
LEMMA EnvelopeStep ==
    ASSUME CallInv, NEW e \in Ends, handleApplicationEnvelope(e)
    PROVE  CallInv'
<1> DEFINE i == reading[e].id
<1>1. UNCHANGED <<life, call>> /\ reading' \in [Ends -> Frames]
  <2>1. reading' = [reading EXCEPT ![e] = NoFrame] /\ UNCHANGED <<life, call>>
    BY DEF handleApplicationEnvelope
  <2>2. NoFrame \in Frames
    BY DEF Frames
  <2>3. QED BY <2>1, <2>2 DEF CallInv, CallType
<1>2. i \in Calls
  BY DEF handleApplicationEnvelope, CallInv, CallType, Frames, NoFrame
<1>3. \A S \in {pending, inflight} :
          S \subseteq Calls /\ IsFiniteSet(S) /\ Cardinality(S) <= MaxPendingCalls
  BY DEF CallInv, CallType
<1>4. MaxPendingCalls \in Nat
  BY RPCAssumption
<1>5. CASE handleRequest(i) /\ UNCHANGED <<pending, box>>
  <2>1. CASE app' = enqueueApp("callee", Frame("response", i)) /\ UNCHANGED <<inflight, handler>>
    <3>1. Frame("response", i) \in Frames \ {NoFrame} /\ "callee" \in Ends
      BY <1>2, FrameType DEF Ends
    <3>2. /\ app' \in [Ends -> Seq(Frames \ {NoFrame})]
          /\ \A x \in Ends : Len(app'[x]) <= WriterQueue
      BY <2>1, <3>1, EnqueueType DEF CallInv
    <3>3. QED BY <1>1, <1>5, <2>1, <3>2 DEF CallInv, CallType, Registered, NoCallLeft, ReaderNeverBlocks, HandlersCancellable
  <2>2. CASE /\ Cardinality(inflight) < MaxPendingCalls
             /\ inflight' = inflight \cup {i} /\ handler' = [handler EXCEPT ![i] = "running"]
             /\ UNCHANGED app
    <3>1. inflight' \subseteq Calls /\ IsFiniteSet(inflight') /\ Cardinality(inflight') <= MaxPendingCalls
      BY <1>2, <1>3, <1>4, <2>2, TableSize
    <3>2. CallType'
      BY <1>1, <1>2, <1>5, <2>2, <3>1 DEF CallInv, CallType
    <3>3. HandlersCancellable'
      BY <1>1, <1>2, <2>2 DEF CallInv, CallType, HandlersCancellable
    <3>4. QED BY <1>1, <1>5, <3>2, <3>3 DEF CallInv, Registered, NoCallLeft, ReaderNeverBlocks
  <2>3. QED BY <1>5, <2>1, <2>2 DEF handleRequest
<1>6. CASE handleCancel(i) /\ UNCHANGED <<app, pending, box>>
  <2>1. inflight' \subseteq Calls /\ IsFiniteSet(inflight') /\ Cardinality(inflight') <= MaxPendingCalls
    BY <1>3, <1>4, <1>6, TableSize DEF handleCancel
  <2>2. CallType'
    BY <1>1, <1>2, <1>6, <2>1 DEF CallInv, CallType, handleCancel
  <2>3. HandlersCancellable'
    BY <1>1, <1>2, <1>6 DEF CallInv, CallType, HandlersCancellable, handleCancel
  <2>4. QED BY <1>1, <1>6, <2>2, <2>3 DEF CallInv, Registered, NoCallLeft, ReaderNeverBlocks
<1>7. CASE handleResponse(i) /\ UNCHANGED <<app, handler, inflight>>
  <2>1. pending' \subseteq Calls /\ IsFiniteSet(pending') /\ Cardinality(pending') <= MaxPendingCalls
    BY <1>3, <1>4, <1>7, TableSize DEF handleResponse
  <2>2. CallType'
    BY <1>1, <1>2, <1>7, <2>1 DEF CallInv, CallType, handleResponse
  <2>3. Registered' /\ ReaderNeverBlocks'
    BY <1>1, <1>2, <1>3, <1>7 DEF CallInv, CallType, Registered, ReaderNeverBlocks, handleResponse
  <2>4. NoCallLeft' /\ HandlersCancellable'
    BY <1>1, <1>7 DEF CallInv, NoCallLeft, HandlersCancellable, handleResponse
  <2>5. QED BY <2>2, <2>3, <2>4 DEF CallInv
<1>8. QED BY <1>5, <1>6, <1>7 DEF handleApplicationEnvelope

\* A runtime is closed, and its tables are emptied.
LEMMA ClosingStep ==
    ASSUME CallInv, NEW e \in Ends, close(e) \/ Drain(e)
    PROVE  CallInv'
<1>1. CASE close(e)
  BY <1>1 DEF close, rpc, CallInv, CallType, Registered, NoCallLeft, ReaderNeverBlocks, HandlersCancellable, Ends
<1>2. CASE Drain(e)
  <2>1. /\ IsFiniteSet({}) /\ Cardinality({}) = 0
        /\ MaxPendingCalls \in Nat
    BY FS_EmptySet, RPCAssumption
  <2>2. UNCHANGED <<app, reading, call>> /\ life' = [life EXCEPT ![e] = "drained"] /\ life[e] = "done"
    BY <1>2 DEF Drain
  <2>3. CASE e = "caller"
    <3>1. /\ box' = [i \in Calls |-> IF i \in pending THEN "disconnected" ELSE box[i]]
          /\ pending' = {} /\ UNCHANGED <<handler, inflight>>
      BY <1>2, <2>3 DEF Drain
    <3>2. CallType'
      BY <2>1, <2>2, <3>1 DEF CallInv, CallType
    <3>3. QED BY <2>2, <2>3, <3>1, <3>2 DEF CallInv, CallType, Registered, NoCallLeft, ReaderNeverBlocks, HandlersCancellable, Ends
  <2>4. CASE e = "callee"
    <3>1. /\ handler' = [i \in Calls |-> IF i \in inflight THEN "cancelled" ELSE handler[i]]
          /\ inflight' = {} /\ UNCHANGED <<box, pending>>
      BY <1>2, <2>4 DEF Drain
    <3>2. CallType'
      BY <2>1, <2>2, <3>1 DEF CallInv, CallType
    <3>3. QED BY <2>2, <2>4, <3>1, <3>2 DEF CallInv, CallType, Registered, NoCallLeft, ReaderNeverBlocks, HandlersCancellable, Ends
  <2>5. QED BY <2>3, <2>4 DEF Ends
<1>3. QED BY <1>1, <1>2

----------------------------------------------------------------------------
(* Events.                                                                 *)

OutRec == [q : Seq({"event", "gap"}), dirty : BOOLEAN, gapSent : BOOLEAN,
           writing : {"none", "event", "gap", "wroteEvent", "wroteGap"}]
GapIn(o) == o.writing = "gap" \/ Has(o.q, {"gap"})
OutOK(o) == o \in OutRec /\ Len(o.q) <= WriterQueue /\ (o.gapSent => GapIn(o) \/ o.writing = "wroteGap")
Reported(o) == (o.dirty /\ (o.q # <<>> \/ o.writing # "none")) \/ GapIn(o)

\* A gap or an event is queued where there is room.
LEMMA PutFacts ==
    ASSUME NEW o, OutOK(o), Room(o), NEW kind \in {"event", "gap"}
    PROVE  /\ OutOK(Put(o, kind)) /\ Put(o, kind).dirty = o.dirty
           /\ Put(o, kind).gapSent = o.gapSent /\ Put(o, kind).writing = o.writing
           /\ GapIn(o) \/ kind = "gap" => GapIn(Put(o, kind))
           /\ Reported(o) => Reported(Put(o, kind))
<1>1. o.q \in Seq({"event", "gap"}) /\ o \in OutRec /\ Len(o.q) \in Nat /\ WriterQueue \in Nat
  BY RPCAssumption DEF OutOK, OutRec
<1>2. /\ Append(o.q, kind) \in Seq({"event", "gap"}) /\ Len(Append(o.q, kind)) = Len(o.q) + 1
      /\ Has(o.q, {"gap"}) \/ kind \in {"gap"} => Has(Append(o.q, kind), {"gap"})
  BY <1>1, AppendHas
<1>3. /\ Put(o, kind) \in OutRec /\ Put(o, kind).q = Append(o.q, kind)
      /\ Put(o, kind).dirty = o.dirty
      /\ Put(o, kind).gapSent = o.gapSent /\ Put(o, kind).writing = o.writing
  BY <1>1, <1>2 DEF Put, OutRec
<1>4. Len(Put(o, kind).q) <= WriterQueue
  BY <1>1, <1>2, <1>3 DEF Room
<1>5. GapIn(o) \/ kind = "gap" => GapIn(Put(o, kind))
  BY <1>2, <1>3 DEF GapIn
<1>6. Put(o, kind).q # <<>>
  BY <1>1, <1>2, <1>3
<1>7. QED BY <1>3, <1>4, <1>5, <1>6 DEF OutOK, Reported

\* With the gap queued, the loss is reported.
LEMMA PutGapFacts ==
    ASSUME NEW o, OutOK(o), Room(o)
    PROVE  OutOK(PutGap(o)) /\ GapIn(PutGap(o)) /\ PutGap(o).writing = o.writing /\ PutGap(o).gapSent
<1> DEFINE p == Put(o, "gap")
<1>1. OutOK(p) /\ GapIn(p) /\ p.writing = o.writing
  BY PutFacts
<1>2. PutGap(o) = [p EXCEPT !.dirty = FALSE, !.gapSent = TRUE]
  BY DEF PutGap
<1> HIDE DEF p
<1>3. /\ PutGap(o) \in OutRec /\ PutGap(o).q = p.q /\ PutGap(o).writing = p.writing /\ PutGap(o).gapSent
  BY <1>1, <1>2 DEF OutOK, OutRec
<1>4. QED BY <1>1, <1>3 DEF OutOK, GapIn

\* What is queued where there is no room is not nothing.
LEMMA FullNotEmpty ==
    ASSUME NEW o, OutOK(o), ~ Room(o)
    PROVE  o.q # <<>>
<1>1. WriterQueue \in Nat \ {0}
  BY RPCAssumption
<1>2. QED BY <1>1 DEF Room

\* Before a later event, the gap is queued; a loss stays reported.
LEMMA FlushedFacts ==
    ASSUME NEW o, OutOK(o)
    PROVE  /\ OutOK(Flushed(o)) /\ Flushed(o).writing = o.writing
           /\ Reported(o) \/ o.dirty => Reported(Flushed(o))
<1>1. CASE o.dirty /\ ~ o.gapSent /\ Room(o)
  BY <1>1, PutGapFacts DEF Flushed, Reported
<1>2. CASE ~ (o.dirty /\ ~ o.gapSent /\ Room(o))
  <2>1. Flushed(o) = o
    BY <1>2 DEF Flushed
  <2>2. o.dirty => GapIn(o) \/ o.writing = "wroteGap" \/ ~ Room(o)
    BY <1>2 DEF OutOK
  <2>3. QED BY <2>1, <2>2, FullNotEmpty DEF Reported
<1>3. QED BY <1>1, <1>2

\* A change of the flag for losses alone.
LEMMA DirtyFacts ==
    ASSUME NEW o, OutOK(o), NEW d \in BOOLEAN
    PROVE  LET p == [o EXCEPT !.dirty = d] IN
           /\ OutOK(p) /\ p.q = o.q /\ p.dirty = d /\ p.writing = o.writing /\ p.gapSent = o.gapSent
           /\ GapIn(p) <=> GapIn(o)
BY DEF OutOK, OutRec, GapIn

\* What enqueueEvent refuses is reported, unless a gap was just written, and
\* what was reported stays so.
LEMMA EnqueueFacts ==
    ASSUME NEW o, OutOK(o), NEW kind \in {"event", "gap"}
    PROVE  LET r == enqueueEvent(o, kind) IN
           /\ OutOK(r.out) /\ r.ok \in BOOLEAN
           /\ Reported(o) \/ (~ r.ok /\ o.writing # "wroteGap") => Reported(r.out)
<1>1. CASE kind = "gap"
  <2>1. CASE o.gapSent
    BY <1>1, <2>1 DEF enqueueEvent, OutOK, OutRec
  <2>2. CASE ~ o.gapSent /\ Room(o)
    BY <1>1, <2>2, PutGapFacts DEF enqueueEvent, Reported
  <2>3. CASE ~ o.gapSent /\ ~ Room(o)
    <3>1. enqueueEvent(o, kind) = [ok |-> FALSE, out |-> [o EXCEPT !.dirty = TRUE]]
      BY <1>1, <2>3 DEF enqueueEvent, OutOK, OutRec
    <3>2. o.q # <<>>
      BY <2>3, FullNotEmpty
    <3> DEFINE p == [o EXCEPT !.dirty = TRUE]
    <3>3. OutOK(p) /\ p.q = o.q /\ p.dirty = TRUE
      BY DirtyFacts
    <3> HIDE DEF p
    <3>4. enqueueEvent(o, kind).out = p /\ enqueueEvent(o, kind).ok = FALSE
      BY <3>1 DEF p
    <3>5. QED BY <3>2, <3>3, <3>4 DEF Reported
  <2>4. QED BY <2>1, <2>2, <2>3
<1>2. CASE kind # "gap"
  <2> DEFINE f == Flushed(o)
  <2>1. OutOK(f) /\ f.writing = o.writing /\ (Reported(o) => Reported(f))
    BY FlushedFacts
  <2>2. enqueueEvent(o, kind) = IF Room(f) THEN [ok |-> TRUE, out |-> Put(f, "event")]
                                ELSE [ok |-> FALSE, out |-> [f EXCEPT !.dirty = @ \/ ~ f.gapSent]]
    BY <1>2 DEF enqueueEvent
  <2> HIDE DEF f
  <2>3. CASE Room(f)
    <3>1. enqueueEvent(o, kind) = [ok |-> TRUE, out |-> Put(f, "event")]
      BY <2>2, <2>3
    <3>2. OutOK(Put(f, "event")) /\ (Reported(f) => Reported(Put(f, "event")))
      BY <2>1, <2>3, PutFacts
    <3>3. QED BY <2>1, <3>1, <3>2
  <2>4. CASE ~ Room(f)
    <3> DEFINE d == (f.dirty \/ ~ f.gapSent)
    <3>1. enqueueEvent(o, kind) = [ok |-> FALSE, out |-> [f EXCEPT !.dirty = d]]
      BY <2>2, <2>4
    <3>2. /\ d \in BOOLEAN /\ (d \/ GapIn(f) \/ o.writing = "wroteGap") /\ f.q # <<>>
          /\ Reported(f) => d \/ GapIn(f)
      BY <2>1, <2>4, FullNotEmpty DEF OutOK, Reported
    <3> HIDE DEF d
    <3> DEFINE p == [f EXCEPT !.dirty = d]
    <3>3. OutOK(p) /\ p.q = f.q /\ p.dirty = d /\ (GapIn(p) <=> GapIn(f))
      BY <2>1, <3>2, DirtyFacts
    <3>4. enqueueEvent(o, kind).out = p /\ enqueueEvent(o, kind).ok = FALSE
      BY <3>1
    <3> HIDE DEF p
    <3>5. QED BY <2>1, <3>2, <3>3, <3>4 DEF Reported
  <2>5. QED BY <2>3, <2>4
<1>3. QED BY <1>1, <1>2

\* When a written frame is accounted for, a loss stays reported.
LEMMA DeliveredFacts ==
    ASSUME NEW o, OutOK(o), o.writing \in {"wroteEvent", "wroteGap"}
    PROVE  OutOK(eventDelivered(o)) /\ (Reported(o) => Reported(eventDelivered(o)))
<1> DEFINE p == [o EXCEPT !.writing = "none", !.gapSent = @ /\ o.writing # "wroteGap"]
<1>1. /\ p \in OutRec /\ p.q = o.q /\ p.dirty = o.dirty /\ p.writing = "none"
      /\ p.gapSent = (o.gapSent /\ o.writing # "wroteGap")
  BY DEF OutOK, OutRec
<1>2. eventDelivered(o) = Flushed(p)
  BY DEF eventDelivered
<1> HIDE DEF p
<1>3. OutOK(p)
  BY <1>1 DEF OutOK, GapIn
<1>4. Reported(o) => p.dirty \/ Reported(p)
  BY <1>1 DEF Reported, GapIn
<1>5. QED BY <1>2, <1>3, <1>4, FlushedFacts

InRec == [q : Seq({"event", "gap", "other"}), dirty : BOOLEAN, gapPending : BOOLEAN]
InOK(i) == i \in InRec /\ Len(i.q) <= EventBuffer
Told(i) == i.dirty \/ i.gapPending \/ Has(i.q, {"event", "gap"})
GapTold(i) == i.dirty \/ Has(i.q, {"gap"})

\* Something is put into a subscription that has room for it.
LEMMA PutInFacts ==
    ASSUME NEW i, InOK(i), Fits(i), NEW kind \in {"event", "gap", "other"}
    PROVE  /\ InOK(PutIn(i, kind)) /\ PutIn(i, kind).dirty = i.dirty
           /\ PutIn(i, kind).gapPending = i.gapPending
           /\ Has(i.q, {"event", "gap"}) \/ kind # "other" => Has(PutIn(i, kind).q, {"event", "gap"})
           /\ Has(i.q, {"gap"}) \/ kind = "gap" => Has(PutIn(i, kind).q, {"gap"})
<1> DEFINE K == {"event", "gap", "other"}
<1>1. i.q \in Seq(K) /\ i \in InRec /\ Len(i.q) \in Nat /\ EventBuffer \in Nat
  BY RPCAssumption DEF InOK, InRec
<1>2. /\ Append(i.q, kind) \in Seq(K) /\ Len(Append(i.q, kind)) = Len(i.q) + 1
      /\ Has(i.q, {"event", "gap"}) \/ kind \in {"event", "gap"} => Has(Append(i.q, kind), {"event", "gap"})
      /\ Has(i.q, {"gap"}) \/ kind \in {"gap"} => Has(Append(i.q, kind), {"gap"})
  BY <1>1, AppendHas
<1>3. /\ PutIn(i, kind) \in InRec /\ PutIn(i, kind).q = Append(i.q, kind)
      /\ PutIn(i, kind).dirty = i.dirty /\ PutIn(i, kind).gapPending = i.gapPending
  BY <1>1, <1>2 DEF PutIn, InRec
<1>4. Len(PutIn(i, kind).q) <= EventBuffer
  BY <1>1, <1>2, <1>3 DEF Fits
<1>5. QED BY <1>2, <1>3, <1>4 DEF InOK

\* Other flags leave the queue alone.
LEMMA FlagsFacts ==
    ASSUME NEW i, InOK(i), NEW d \in BOOLEAN, NEW g \in BOOLEAN
    PROVE  LET j == [i EXCEPT !.dirty = d, !.gapPending = g] IN
           InOK(j) /\ j.q = i.q /\ j.dirty = d /\ j.gapPending = g
BY DEF InOK, InRec

\* The reader of the subscription is told of a gap.
LEMMA TellGapFacts ==
    ASSUME NEW i, InOK(i), Fits(i)
    PROVE  InOK(TellGap(i)) /\ TellGap(i).gapPending = TRUE /\ Has(TellGap(i).q, {"gap"})
<1> DEFINE p == PutIn(i, "gap")
<1>1. InOK(p) /\ Has(p.q, {"gap"})
  BY PutInFacts
<1>2. TellGap(i) = [p EXCEPT !.dirty = FALSE, !.gapPending = TRUE]
  BY DEF TellGap
<1> HIDE DEF p
<1>3. LET j == [p EXCEPT !.dirty = FALSE, !.gapPending = TRUE] IN
      InOK(j) /\ j.q = p.q /\ j.dirty = FALSE /\ j.gapPending = TRUE
  BY <1>1, FlagsFacts
<1>4. QED BY <1>1, <1>2, <1>3

\* Whatever arrives, the subscription has it or remembers that it has not; and
\* what it drops a gap will tell, unless the gap that covers it was taken.
LEMMA HandleFacts ==
    ASSUME NEW i, InOK(i), NEW kind \in {"event", "gap"}
    PROVE  /\ InOK(handleEvent(i, kind)) /\ Told(handleEvent(i, kind))
           /\ GapTold(i) \/ (Dropped(i, kind) /\ ~ GapTaken(i, kind)) => GapTold(handleEvent(i, kind))
<1>0. GapQueued(i.q) <=> Has(i.q, {"gap"})
  BY DEF GapQueued, Has
<1>1. CASE kind = "gap" /\ Fits(i)
  BY <1>1, TellGapFacts DEF handleEvent, Told, GapTold
<1>2. CASE kind = "gap" /\ ~ Fits(i)
  <2> DEFINE j == [i EXCEPT !.dirty = TRUE, !.gapPending = FALSE]
  <2>1. InOK(j) /\ j.dirty = TRUE
    BY FlagsFacts
  <2>2. handleEvent(i, kind) = j
    BY <1>2 DEF handleEvent
  <2> HIDE DEF j
  <2>3. QED BY <2>1, <2>2 DEF Told, GapTold
<1>3. CASE kind # "gap" /\ i.dirty /\ ~ Fits(i)
  BY <1>3 DEF handleEvent, Told, GapTold
<1>4. CASE kind # "gap" /\ ~ (i.dirty /\ ~ Fits(i))
  <2> DEFINE g == IF i.dirty THEN TellGap(i) ELSE i
  <2>1. InOK(g) /\ (i.dirty => Has(g.q, {"gap"})) /\ (~ i.dirty => g = i)
    BY <1>4, TellGapFacts
  <2>2. handleEvent(i, kind) = IF Fits(g) THEN [PutIn(g, "event") EXCEPT !.dirty = FALSE, !.gapPending = FALSE]
                               ELSE [g EXCEPT !.dirty = ~ g.gapPending]
    BY <1>4 DEF handleEvent
  <2>a. GapTold(i) => Has(g.q, {"gap"})
    BY <2>1 DEF GapTold
  <2>b. Dropped(i, kind) => ~ Fits(g)
    BY <1>4 DEF Dropped
  <2> HIDE DEF g
  <2>3. CASE Fits(g)
    <3> DEFINE p == PutIn(g, "event")
               j == [p EXCEPT !.dirty = FALSE, !.gapPending = FALSE]
    <3>1. InOK(p) /\ Has(p.q, {"event", "gap"}) /\ (Has(g.q, {"gap"}) => Has(p.q, {"gap"}))
      BY <2>1, <2>3, PutInFacts
    <3>2. handleEvent(i, kind) = j
      BY <2>2, <2>3
    <3> HIDE DEF p
    <3>3. InOK(j) /\ j.q = p.q
      BY <3>1, FlagsFacts
    <3> HIDE DEF j
    <3>4. QED BY <2>3, <2>a, <2>b, <3>1, <3>2, <3>3 DEF Told, GapTold
  <2>4. CASE ~ Fits(g)
    <3> DEFINE j == [g EXCEPT !.dirty = ~ g.gapPending]
    <3>1. handleEvent(i, kind) = j
      BY <2>2, <2>4
    <3>2. j \in InRec /\ j.q = g.q /\ j.dirty = ~ g.gapPending /\ j.gapPending = g.gapPending
      BY <2>1 DEF InOK, InRec
    <3> HIDE DEF j
    <3>3. ~ GapTaken(i, kind) => j.dirty \/ Has(j.q, {"gap"})
      BY <1>0, <1>4, <2>1, <3>2 DEF GapTaken
    <3>4. QED BY <2>1, <2>a, <3>1, <3>2, <3>3 DEF Told, GapTold, InOK
  <2>5. QED BY <2>3, <2>4
<1>5. QED BY <1>1, <1>2, <1>3, <1>4

\* The part of the invariant about events, in these words.
SenderOK ==
    /\ OutOK(out) /\ owesGap \in BOOLEAN /\ lost \in BOOLEAN /\ unmarked \in BOOLEAN
    /\ lost => Reported(out) \/ unmarked
SubscriberOK ==
    /\ InOK(in) /\ missed \in BOOLEAN /\ untold \in BOOLEAN
    /\ (missed => GapTold(in)) /\ (untold => Told(in))

LEMMA EventParts == EventInv <=> SenderOK /\ SubscriberOK
<1>1. GapQueued(out.q) <=> Has(out.q, {"gap"})
  BY DEF Has, GapQueued
<1>2. GapQueued(in.q) <=> Has(in.q, {"gap"})
  BY DEF Has, GapQueued
<1>3. in \in InRec =>
         ((\E n \in 1..Len(in.q) : in.q[n] # "other") <=> Has(in.q, {"event", "gap"}))
  BY DEF Has, InRec
<1>4. EventType <=> /\ out \in OutRec /\ Len(out.q) <= WriterQueue /\ InOK(in)
                    /\ owesGap \in BOOLEAN /\ lost \in BOOLEAN /\ unmarked \in BOOLEAN
                    /\ missed \in BOOLEAN /\ untold \in BOOLEAN
  BY DEF EventType, OutRec, InOK, InRec
<1>5. GapOnItsWay <=> (out.gapSent => GapIn(out) \/ out.writing = "wroteGap")
  BY <1>1 DEF GapOnItsWay, GapIn
<1>6. /\ lost => \/ out.dirty /\ (out.q # <<>> \/ out.writing # "none")
                \/ out.writing = "gap" \/ GapQueued(out.q) \/ unmarked
      <=> (lost => Reported(out) \/ unmarked)
  BY <1>1 DEF Reported, GapIn
<1>7. (missed => in.dirty \/ GapQueued(in.q)) <=> (missed => GapTold(in))
  BY <1>2 DEF GapTold
<1>8. InOK(in) => in \in InRec
  BY DEF InOK
<1>9. ASSUME InOK(in)
      PROVE  (untold => \/ in.dirty \/ in.gapPending
                        \/ \E n \in 1..Len(in.q) : in.q[n] # "other")
             <=> (untold => Told(in))
  BY <1>3, <1>8, <1>9 DEF Told
<1>10. ASSUME InOK(in)
       PROVE  LossReported <=> /\ lost => Reported(out) \/ unmarked
                               /\ missed => GapTold(in)
                               /\ untold => Told(in)
  BY <1>6, <1>7, <1>9, <1>10 DEF LossReported
<1>11. OutOK(out) <=> /\ out \in OutRec /\ Len(out.q) <= WriterQueue
                      /\ out.gapSent => GapIn(out) \/ out.writing = "wroteGap"
  BY DEF OutOK
<1>12. QED BY <1>4, <1>5, <1>10, <1>11 DEF EventInv, SenderOK, SubscriberOK

\* What leaves the sender, or the subscription, alone.
LEMMA EventFrames ==
    /\ SenderOK /\ UNCHANGED sender => SenderOK'
    /\ SubscriberOK /\ UNCHANGED subscriber => SubscriberOK'
BY DEF SenderOK, sender, OutOK, Reported, GapIn, SubscriberOK, subscriber, InOK, GapTold, Told

\* Sending, retrying, writing and taking events.
LEMMA EventStep ==
    ASSUME EventInv,
           \/ sendMeshEventToTopics \/ retryMeshGaps \/ WriterTakes \/ WriterWrites \/ WriterDone
           \/ OtherPeerEvent \/ TakeEvent \/ \E e \in Ends : close(e)
    PROVE  EventInv'
<1>1. SenderOK /\ SubscriberOK
  BY EventParts
<1> SUFFICES SenderOK' /\ SubscriberOK'
  BY EventParts, PTL
<1>2. CASE sendMeshEventToTopics \/ retryMeshGaps
  <2>1. PICK kind \in {"event", "gap"} :
          LET r == enqueueEvent(out, kind) IN
          /\ out' = r.out
          /\ owesGap' = (owesGap \/ ~ r.ok) \/ owesGap' = ~ r.ok
          /\ \/ /\ lost' = (lost \/ ~ r.ok)
                /\ unmarked' = (unmarked \/ (~ r.ok /\ out.writing = "wroteGap"))
             \/ lost' = lost /\ unmarked' = unmarked
    BY <1>2 DEF sendMeshEventToTopics, retryMeshGaps
  <2>2. UNCHANGED subscriber
    BY <1>2 DEF sendMeshEventToTopics, retryMeshGaps
  <2> DEFINE r == enqueueEvent(out, kind)
  <2>3. /\ OutOK(r.out) /\ r.ok \in BOOLEAN
        /\ Reported(out) \/ (~ r.ok /\ out.writing # "wroteGap") => Reported(r.out)
    BY <1>1, EnqueueFacts DEF SenderOK
  <2>4. /\ out' = r.out
        /\ owesGap' = (owesGap \/ ~ r.ok) \/ owesGap' = ~ r.ok
        /\ \/ /\ lost' = (lost \/ ~ r.ok)
              /\ unmarked' = (unmarked \/ (~ r.ok /\ out.writing = "wroteGap"))
           \/ lost' = lost /\ unmarked' = unmarked
    BY <2>1
  <2> HIDE DEF r
  <2>5. lost' \in BOOLEAN /\ owesGap' \in BOOLEAN /\ unmarked' \in BOOLEAN
    BY <1>1, <2>3, <2>4 DEF SenderOK
  <2>6. lost' => Reported(r.out) \/ unmarked'
    <3>1. lost => Reported(out) \/ unmarked
      BY <1>1 DEF SenderOK
    <3>2. CASE lost' = lost /\ unmarked' = unmarked
      BY <2>3, <3>1, <3>2
    <3>3. CASE /\ lost' = (lost \/ ~ r.ok)
               /\ unmarked' = (unmarked \/ (~ r.ok /\ out.writing = "wroteGap"))
      <4>1. CASE r.ok
        <5>1. (lost' => lost) /\ (unmarked => unmarked')
          BY <3>3, <4>1
        <5>2. QED BY <2>3, <3>1, <5>1
      <4>2. CASE ~ r.ok
        BY <2>3, <3>3, <4>2
      <4>3. QED BY <4>1, <4>2
    <3>4. QED BY <2>4, <3>2, <3>3
  <2>7. SenderOK'
    BY <2>3, <2>4, <2>5, <2>6 DEF SenderOK, OutOK, GapIn, Reported
  <2>8. QED BY <1>1, <2>2, <2>7, EventFrames
<1>3. CASE WriterTakes
  <2>1. /\ out.writing = "none" /\ out.q # <<>>
        /\ out' = [out EXCEPT !.writing = Head(out.q), !.q = Tail(@)]
        /\ UNCHANGED <<owesGap, lost, unmarked, subscriber>>
    BY <1>3 DEF WriterTakes
  <2>2. /\ out \in OutRec /\ out.q \in Seq({"event", "gap"})
        /\ Len(out.q) \in Nat /\ Len(out.q) <= WriterQueue /\ WriterQueue \in Nat
    BY <1>1, RPCAssumption DEF SenderOK, OutOK, OutRec
  <2>3. /\ Head(out.q) \in {"event", "gap"} /\ Tail(out.q) \in Seq({"event", "gap"})
        /\ Len(Tail(out.q)) = Len(out.q) - 1
        /\ Has(out.q, {"gap"}) => Head(out.q) \in {"gap"} \/ Has(Tail(out.q), {"gap"})
    BY <2>1, <2>2, TailHas
  <2>4. /\ out' \in OutRec /\ out'.q = Tail(out.q) /\ out'.writing = Head(out.q)
        /\ out'.dirty = out.dirty /\ out'.gapSent = out.gapSent
    BY <2>1, <2>2, <2>3 DEF OutRec
  <2>5. Len(out'.q) <= WriterQueue /\ (GapIn(out) => GapIn(out)')
    BY <2>1, <2>2, <2>3, <2>4 DEF GapIn
  <2>6. SenderOK'
    BY <1>1, <2>1, <2>3, <2>4, <2>5 DEF SenderOK, OutOK, Reported
  <2>7. QED BY <1>1, <2>1, <2>6, EventFrames
<1>4. CASE WriterWrites
  <2>1. /\ out.writing \in {"event", "gap"} /\ in' = handleEvent(in, out.writing)
        /\ out' = [out EXCEPT !.writing = IF @ = "gap" THEN "wroteGap" ELSE "wroteEvent"]
        /\ lost' = (lost /\ out.writing # "gap") /\ unmarked' = (unmarked /\ out.writing # "gap")
        /\ missed' = (missed \/ (Dropped(in, out.writing) /\ ~ GapTaken(in, out.writing)))
        /\ untold' = (untold \/ (Dropped(in, out.writing) /\ GapTaken(in, out.writing)))
        /\ owesGap' = owesGap
    BY <1>4 DEF WriterWrites
  <2>2. /\ out' \in OutRec /\ out'.q = out.q /\ out'.dirty = out.dirty /\ out'.gapSent = out.gapSent
        /\ out'.writing = IF out.writing = "gap" THEN "wroteGap" ELSE "wroteEvent"
    BY <1>1, <2>1 DEF SenderOK, OutOK, OutRec
  <2>3. lost' \in BOOLEAN /\ unmarked' \in BOOLEAN
    BY <1>1, <2>1 DEF SenderOK
  <2>4. SenderOK'
    BY <1>1, <2>1, <2>2, <2>3 DEF SenderOK, OutOK, Reported, GapIn
  <2>5. /\ InOK(in') /\ Told(in')
        /\ GapTold(in) \/ (Dropped(in, out.writing) /\ ~ GapTaken(in, out.writing)) => GapTold(in')
    BY <1>1, <2>1, HandleFacts DEF SubscriberOK
  <2>6. /\ missed' \in BOOLEAN /\ untold' \in BOOLEAN
        /\ missed' => GapTold(in')
    BY <1>1, <2>1, <2>5 DEF SubscriberOK
  <2>7. SubscriberOK'
    BY <2>5, <2>6 DEF SubscriberOK, InOK, Told, GapTold
  <2>8. QED BY <2>4, <2>7
<1>5. CASE WriterDone
  <2>1. /\ out.writing \in {"wroteEvent", "wroteGap"} /\ out' = eventDelivered(out)
        /\ UNCHANGED <<owesGap, lost, unmarked, subscriber>>
    BY <1>5 DEF WriterDone
  <2>2. OutOK(out') /\ (Reported(out) => Reported(out'))
    BY <1>1, <2>1, DeliveredFacts DEF SenderOK
  <2>3. SenderOK'
    BY <1>1, <2>1, <2>2 DEF SenderOK, OutOK, Reported, GapIn
  <2>4. QED BY <1>1, <2>1, <2>3, EventFrames
<1>6. CASE OtherPeerEvent
  <2>1. /\ Fits(in) /\ in' = PutIn(in, "other") /\ UNCHANGED <<sender, missed, untold>>
    BY <1>6 DEF OtherPeerEvent
  <2>2. /\ InOK(in') /\ in'.dirty = in.dirty /\ in'.gapPending = in.gapPending
        /\ Has(in.q, {"event", "gap"}) => Has(in'.q, {"event", "gap"})
        /\ Has(in.q, {"gap"}) => Has(in'.q, {"gap"})
    BY <1>1, <2>1, PutInFacts DEF SubscriberOK
  <2>3. SubscriberOK'
    BY <1>1, <2>1, <2>2 DEF SubscriberOK, InOK, Told, GapTold
  <2>4. QED BY <1>1, <2>1, <2>3, EventFrames
<1>7. CASE TakeEvent
  <2>1. /\ in.q # <<>> /\ in' = [in EXCEPT !.q = Tail(@)]
        /\ missed' = (missed /\ Head(in.q) # "gap") /\ untold' = (untold /\ Head(in.q) = "other")
        /\ UNCHANGED sender
    BY <1>7 DEF TakeEvent
  <2>2. /\ in \in InRec /\ in.q \in Seq({"event", "gap", "other"})
        /\ Len(in.q) \in Nat /\ Len(in.q) <= EventBuffer /\ EventBuffer \in Nat
    BY <1>1, RPCAssumption DEF SubscriberOK, InOK, InRec
  <2>3. /\ Tail(in.q) \in Seq({"event", "gap", "other"}) /\ Len(Tail(in.q)) = Len(in.q) - 1
        /\ Has(in.q, {"event", "gap"}) => Head(in.q) \in {"event", "gap"} \/ Has(Tail(in.q), {"event", "gap"})
    BY <2>1, <2>2, TailHas
  <2>4. Has(in.q, {"gap"}) => Head(in.q) \in {"gap"} \/ Has(Tail(in.q), {"gap"})
    BY <2>1, <2>2, TailHas
  <2>5. /\ in' \in InRec /\ in'.q = Tail(in.q)
        /\ in'.dirty = in.dirty /\ in'.gapPending = in.gapPending
    BY <2>1, <2>2, <2>3 DEF InRec
  <2>6. InOK(in)'
    BY <2>2, <2>3, <2>5 DEF InOK
  <2>7. /\ missed' \in BOOLEAN /\ (missed' => missed /\ Head(in.q) # "gap")
        /\ untold' \in BOOLEAN /\ (untold' => untold /\ Head(in.q) = "other")
    BY <1>1, <2>1 DEF SubscriberOK
  <2>8. (missed' => GapTold(in)') /\ (untold' => Told(in)')
    BY <1>1, <2>3, <2>4, <2>5, <2>7 DEF SubscriberOK, Told, GapTold
  <2>9. QED BY <1>1, <2>1, <2>6, <2>7, <2>8, EventFrames DEF SubscriberOK
<1>8. ASSUME NEW e \in Ends, close(e) PROVE SenderOK' /\ SubscriberOK'
  <2>1. /\ UNCHANGED <<owesGap, subscriber>>
        /\ lost' = (lost /\ e = "caller") /\ unmarked' = (unmarked /\ e = "caller")
        /\ out' = IF e = "callee" THEN EmptyOut ELSE out
    BY <1>8 DEF close
  <2>2. CASE e = "caller"
    <3>1. lost' = lost /\ unmarked' = unmarked /\ out' = out
      BY <1>1, <2>1, <2>2 DEF SenderOK
    <3>2. QED BY <1>1, <2>1, <3>1, EventFrames DEF sender
  <2>3. CASE e = "callee"
    <3>1. out' = EmptyOut /\ lost' = FALSE /\ unmarked' = FALSE
      BY <2>1, <2>3
    <3>2. WriterQueue \in Nat
      BY RPCAssumption
    <3>3. out' \in OutRec /\ Len(out'.q) <= WriterQueue /\ ~ out'.gapSent
      BY <3>1, <3>2 DEF EmptyOut, OutRec
    <3>4. SenderOK'
      BY <1>1, <2>1, <3>1, <3>3 DEF SenderOK, OutOK
    <3>5. QED BY <1>1, <2>1, <3>4, EventFrames
  <2>4. QED BY <2>2, <2>3 DEF Ends
<1>9. QED BY <1>2, <1>3, <1>4, <1>5, <1>6, <1>7, <1>8

----------------------------------------------------------------------------

\* The inductive invariant holds throughout.
THEOREM Invariance == Spec => []IInv
<1>1. Init => IInv
  <2>1. SUFFICES ASSUME Init PROVE IInv
    OBVIOUS
  <2>2. IsFiniteSet({}) /\ Cardinality({}) = 0 /\ MaxPendingCalls \in Nat /\ WriterQueue \in Nat /\ EventBuffer \in Nat
    BY FS_EmptySet, RPCAssumption
  <2>3. CallType
    BY <2>1, <2>2 DEF Init, CallType, Frames
  <2>4. Registered /\ NoCallLeft /\ ReaderNeverBlocks /\ HandlersCancellable
    BY <2>1 DEF Init, Registered, NoCallLeft, ReaderNeverBlocks, HandlersCancellable
  <2>5. EventInv
    <3>1. EventType
      <4>1. <<>> \in Seq({"event", "gap"}) /\ <<>> \in Seq({"event", "gap", "other"}) /\ Len(<<>>) = 0
        OBVIOUS
      <4>2. /\ out = [q |-> <<>>, dirty |-> FALSE, gapSent |-> FALSE, writing |-> "none"]
            /\ in = [q |-> <<>>, dirty |-> FALSE, gapPending |-> FALSE]
            /\ owesGap = FALSE /\ lost = FALSE /\ missed = FALSE
            /\ unmarked = FALSE /\ untold = FALSE
        BY <2>1 DEF Init, EmptyOut
      <4>3. out \in OutRec /\ Len(out.q) <= WriterQueue
        BY <2>2, <4>1, <4>2 DEF OutRec
      <4>4. in \in InRec /\ Len(in.q) <= EventBuffer
        BY <2>2, <4>1, <4>2 DEF InRec
      <4>5. QED BY <4>2, <4>3, <4>4 DEF EventType, OutRec, InRec
    <3>2. GapOnItsWay /\ LossReported
      BY <2>1 DEF Init, EmptyOut, GapOnItsWay, LossReported, GapQueued
    <3>3. QED BY <3>1, <3>2 DEF EventInv
  <2>6. QED BY <2>3, <2>4, <2>5 DEF IInv, CallInv
<1>2. IInv /\ [Next]_vars => IInv'
  <2>1. SUFFICES ASSUME IInv, [Next]_vars PROVE IInv'
    OBVIOUS
  <2>2. ASSUME UNCHANGED <<life, rpc>> PROVE CallInv'
    BY <2>1, <2>2 DEF rpc, IInv, CallInv, CallType, Registered, NoCallLeft, ReaderNeverBlocks, HandlersCancellable
  <2>3. ASSUME UNCHANGED events PROVE EventInv'
    <3>1. SenderOK /\ SubscriberOK
      BY <2>1, EventParts DEF IInv
    <3>2. SenderOK' /\ SubscriberOK'
      BY <2>3, <3>1, EventFrames DEF events
    <3>3. QED BY <3>2, EventParts, PTL
  <2>4. CASE UNCHANGED vars
    BY <2>2, <2>3, <2>4 DEF vars, rpc, events, sender, subscriber, IInv
  <2>5. ASSUME NEW i \in Calls,
               \/ CallFinds(i) \/ CallRegisters(i) \/ CallSends(i)
               \/ CallReturns(i) \/ CallTimesOut(i) \/ runHandler(i)
        PROVE  IInv'
    <3>1. UNCHANGED events
      BY <2>5 DEF CallFinds, CallRegisters, CallSends, CallReturns, CallTimesOut, runHandler
    <3>2. QED BY <2>1, <2>3, <2>5, <3>1, CallStep, HandlerStep DEF IInv
  <2>6. ASSUME NEW e \in Ends, ReaderTakes(e) \/ handleApplicationEnvelope(e) \/ close(e) \/ Drain(e)
        PROVE  IInv'
    <3>1. CallInv'
      BY <2>1, <2>6, ReaderStep, EnvelopeStep, ClosingStep DEF IInv
    <3>2. EventInv'
      BY <2>1, <2>3, <2>6, EventStep DEF ReaderTakes, handleApplicationEnvelope, Drain, IInv
    <3>3. QED BY <3>1, <3>2 DEF IInv
  <2>7. CASE \/ sendMeshEventToTopics \/ retryMeshGaps \/ WriterTakes \/ WriterWrites
             \/ WriterDone \/ OtherPeerEvent \/ TakeEvent
    <3>1. UNCHANGED <<life, rpc>>
      BY <2>7 DEF sendMeshEventToTopics, retryMeshGaps, WriterTakes, WriterWrites, WriterDone,
                  OtherPeerEvent, TakeEvent
    <3>2. QED BY <2>1, <2>2, <2>7, <3>1, EventStep DEF IInv
  <2>8. QED BY <2>1, <2>4, <2>5, <2>6, <2>7 DEF Next
<1>3. QED BY <1>1, <1>2, PTL DEF Spec

\* Type correctness: no table and no queue exceeds its capacity.
THEOREM TypeCorrect == Spec => []TypeOK
<1>1. IInv => TypeOK
  BY DEF TypeOK, IInv, CallInv, EventInv
<1>2. QED BY <1>1, Invariance, PTL

\* A closed connection keeps no call (Call, close).
THEOREM NoCallIsLeft == Spec => []NoCallLeft
<1>1. IInv => NoCallLeft
  BY DEF IInv, CallInv
<1>2. QED BY <1>1, Invariance, PTL

\* The reader never blocks on a call's result channel (handleResponse, close).
THEOREM NeverBlocks == Spec => []ReaderNeverBlocks
<1>1. IInv => ReaderNeverBlocks
  BY DEF IInv, CallInv
<1>2. QED BY <1>1, Invariance, PTL

\* A handler that runs on can be cancelled while the connection is open
\* (handleRequest, handleCancel, runHandler).
THEOREM AllCancellable == Spec => []HandlersCancellable
<1>1. IInv => HandlersCancellable
  BY DEF IInv, CallInv
<1>2. QED BY <1>1, Invariance, PTL

\* No event is lost without a report of it, queued or owed, but for the two
\* cases the property names: one dropped between the write of a gap and its
\* accounting, and one dropped at the subscription after its gap was taken,
\* which the peer's next event reports if anything does (enqueueEvent,
\* eventDelivered, handleEvent).
THEOREM LossIsReported == Spec => []LossReported
<1>1. IInv => LossReported
  BY DEF IInv, EventInv
<1>2. QED BY <1>1, Invariance, PTL
=============================================================================
