------------------------------- MODULE MeshRPC -------------------------------
(***************************************************************************)
(* What one connection of the mesh carries: calls from one end (the        *)
(* caller) to handlers at the other (the callee), and events from the      *)
(* callee to the caller, through bounded queues.  Each end's runtime may   *)
(* be closed at any time; MeshLink says when.  Both ends play both parts;  *)
(* the tables of the two parts are separate.                               *)
(***************************************************************************)
EXTENDS Naturals, Sequences, FiniteSets, TLC

CONSTANTS Calls,            \* request ids, never used twice
          MaxPendingCalls,
          WriterQueue,      \* capacity of an application queue and of an event queue
          EventBuffer       \* capacity of the caller's event subscription

ASSUME RPCAssumption == {MaxPendingCalls, WriterQueue, EventBuffer} \subseteq Nat \ {0}

Ends == {"caller", "callee"}

VARIABLES life,     \* each runtime: open, done (p.done is closed), drained
          app,      \* each end's application queue
          reading,  \* the frame each end's reader holds
          call,     \* where each Call is
          pending,  \* rpcPending of the caller
          box,      \* each call's result channel, of capacity 1
          handler,  \* each request's handler goroutine
          inflight, \* inflight of the callee: requests that can be cancelled
          out,      \* the callee's event queue and its loss bookkeeping
          owesGap,  \* a subscription marked by markMeshGap
          in,       \* the caller's event subscription and its loss bookkeeping
          lost,     \* history: an event was dropped before the writer, no gap was written since
          unmarked, \* history: such a one while a gap was written and not accounted for
          missed,   \* history: one was dropped at the subscription, no gap was taken since
          untold    \* history: one was dropped there after the gap that covers it was
                    \* taken, and nothing of that peer was taken since

vars == <<life, app, reading, call, pending, box, handler, inflight, out, owesGap, in, lost,
          unmarked, missed, untold>>
rpc == <<app, reading, call, pending, box, handler, inflight>>
sender == <<out, owesGap, lost, unmarked>>
subscriber == <<in, missed, untold>>
events == <<sender, subscriber>>

NoFrame == [type |-> "none"]
Frame(type, i) == [type |-> type, id |-> i]
Frames == {NoFrame} \cup [type : {"request", "response", "cancel"}, id : Calls]
EmptyOut == [q |-> <<>>, dirty |-> FALSE, gapSent |-> FALSE, writing |-> "none"]

CallType ==
    /\ life \in [Ends -> {"open", "done", "drained"}]
    /\ app \in [Ends -> Seq(Frames \ {NoFrame})]
    /\ \A e \in Ends : Len(app[e]) <= WriterQueue
    /\ reading \in [Ends -> Frames]
    /\ call \in [Calls -> {"idle", "found", "registered", "waiting", "returned"}]
    /\ \A S \in {pending, inflight} :
          S \subseteq Calls /\ IsFiniteSet(S) /\ Cardinality(S) <= MaxPendingCalls
    /\ box \in [Calls -> {"empty", "reply", "disconnected"}]
    /\ handler \in [Calls -> {"none", "running", "cancelled", "over"}]

EventType ==
    /\ out \in [q : Seq({"event", "gap"}), dirty : BOOLEAN, gapSent : BOOLEAN,
               writing : {"none", "event", "gap", "wroteEvent", "wroteGap"}]
    /\ Len(out.q) <= WriterQueue
    /\ in \in [q : Seq({"event", "gap", "other"}), dirty : BOOLEAN, gapPending : BOOLEAN]
    /\ Len(in.q) <= EventBuffer
    /\ {owesGap, lost, unmarked, missed, untold} \subseteq BOOLEAN

TypeOK == CallType /\ EventType

Init ==
    /\ life = [e \in Ends |-> "open"] /\ app = [e \in Ends |-> <<>>]
    /\ reading = [e \in Ends |-> NoFrame]
    /\ call = [i \in Calls |-> "idle"] /\ pending = {} /\ box = [i \in Calls |-> "empty"]
    /\ handler = [i \in Calls |-> "none"] /\ inflight = {}
    /\ out = EmptyOut /\ owesGap = FALSE /\ lost = FALSE /\ unmarked = FALSE
    /\ missed = FALSE /\ untold = FALSE
    /\ in = [q |-> <<>>, dirty |-> FALSE, gapPending |-> FALSE]

----------------------------------------------------------------------------
(* The caller.                                                             *)

CanEnqueue(e) == life[e] = "open" /\ Len(app[e]) < WriterQueue
enqueueApp(e, frame) == IF CanEnqueue(e) THEN [app EXCEPT ![e] = Append(@, frame)] ELSE app

\* The current runtime is looked up...
CallFinds(i) ==
    /\ call[i] = "idle" /\ life["caller"] = "open"
    /\ call' = [call EXCEPT ![i] = "found"]
    /\ UNCHANGED <<life, app, reading, pending, box, handler, inflight, events>>

\* Mutant: the runtime was open when it was looked up.
RegisterLate(i) ==
    IF Cardinality(pending) < MaxPendingCalls
    THEN pending' = pending \cup {i} /\ call' = [call EXCEPT ![i] = "registered"]
    ELSE call' = [call EXCEPT ![i] = "returned"] /\ UNCHANGED pending

\* ...the call is registered under the lock, if the runtime is not done...
Register(i) ==
    IF life["caller"] = "open" /\ Cardinality(pending) < MaxPendingCalls
    THEN pending' = pending \cup {i} /\ call' = [call EXCEPT ![i] = "registered"]
    ELSE call' = [call EXCEPT ![i] = "returned"] /\ UNCHANGED pending

CallRegisters(i) ==
    /\ call[i] = "found" /\ Register(i)
    /\ UNCHANGED <<life, app, reading, box, handler, inflight, events>>

\* ...and its request is queued or given up.
CallSends(i) ==
    /\ call[i] = "registered"
    /\ app' = enqueueApp("caller", Frame("request", i))
    /\ IF CanEnqueue("caller")
       THEN call' = [call EXCEPT ![i] = "waiting"] /\ UNCHANGED pending
       ELSE call' = [call EXCEPT ![i] = "returned"] /\ pending' = pending \ {i}
    /\ UNCHANGED <<life, reading, box, handler, inflight, events>>

\* With a result, or because the runtime is done.
CallReturns(i) ==
    /\ call[i] = "waiting" /\ (box[i] # "empty" \/ life["caller"] # "open")
    /\ call' = [call EXCEPT ![i] = "returned"]
    /\ pending' = IF box[i] # "empty" THEN pending ELSE pending \ {i}
    /\ UNCHANGED <<life, app, reading, box, handler, inflight, events>>

\* The context ends; a cancel frame is sent if there is room.
CallTimesOut(i) ==
    /\ call[i] = "waiting"
    /\ call' = [call EXCEPT ![i] = "returned"] /\ pending' = pending \ {i}
    /\ app' = IF i \in pending THEN enqueueApp("caller", Frame("cancel", i)) ELSE app
    /\ UNCHANGED <<life, reading, box, handler, inflight, events>>

\* Mutant: the entry stays until the call returns.
handleResponseKeeps(i) ==
    /\ UNCHANGED pending
    /\ box' = IF i \in pending THEN [box EXCEPT ![i] = "reply"] ELSE box

\* The result goes to whoever still waits for it.
handleResponse(i) ==
    /\ pending' = pending \ {i}
    /\ box' = IF i \in pending THEN [box EXCEPT ![i] = "reply"] ELSE box

----------------------------------------------------------------------------
(* The callee.                                                             *)

\* The request is run, or answered with an error: unknown, not permitted, or
\* too many in flight.  Nothing looks whether the runtime is done.
handleRequest(i) ==
    \/ /\ Cardinality(inflight) < MaxPendingCalls
       /\ inflight' = inflight \cup {i} /\ handler' = [handler EXCEPT ![i] = "running"]
       /\ UNCHANGED app
    \/ /\ app' = enqueueApp("callee", Frame("response", i))
       /\ UNCHANGED <<inflight, handler>>

\* A response only if nobody cancelled; it is dropped if there is no room.
runHandler(i) ==
    /\ handler[i] \in {"running", "cancelled"}
    /\ handler' = [handler EXCEPT ![i] = "over"] /\ inflight' = inflight \ {i}
    /\ app' = IF handler[i] = "running" /\ i \in inflight
              THEN enqueueApp("callee", Frame("response", i)) ELSE app
    /\ UNCHANGED <<life, reading, call, pending, box, events>>

\* Mutant: the entry is dropped and the handler goes on.
handleCancelForgets(i) == inflight' = inflight \ {i} /\ UNCHANGED handler

handleCancel(i) ==
    /\ inflight' = inflight \ {i}
    /\ handler' = IF i \in inflight THEN [handler EXCEPT ![i] = "cancelled"] ELSE handler

Peer(e) == IF e = "caller" THEN "callee" ELSE "caller"

\* A writer puts a frame on the wire and the peer's reader takes it...
ReaderTakes(e) ==
    /\ \A x \in Ends : life[x] = "open"
    /\ reading[e] = NoFrame /\ app[Peer(e)] # <<>>
    /\ reading' = [reading EXCEPT ![e] = Head(app[Peer(e)])]
    /\ app' = [app EXCEPT ![Peer(e)] = Tail(@)]
    /\ UNCHANGED <<life, call, pending, box, handler, inflight, events>>

\* ...and handles it, maybe after the runtime was closed.
handleApplicationEnvelope(e) ==
    /\ reading[e] # NoFrame /\ reading' = [reading EXCEPT ![e] = NoFrame]
    /\ LET i == reading[e].id IN
       \/ reading[e].type = "request" /\ handleRequest(i) /\ UNCHANGED <<pending, box>>
       \/ reading[e].type = "cancel" /\ handleCancel(i) /\ UNCHANGED <<app, pending, box>>
       \/ reading[e].type = "response" /\ handleResponse(i) /\ UNCHANGED <<app, handler, inflight>>
    /\ UNCHANGED <<life, call, events>>

----------------------------------------------------------------------------
(* Closing a runtime: p.done first, then the tables under their lock.  Its *)
(* queues are neither filled nor written any more.                         *)

close(e) ==
    /\ life[e] = "open" /\ life' = [life EXCEPT ![e] = "done"]
    /\ out' = IF e = "callee" THEN EmptyOut ELSE out
    /\ lost' = (lost /\ e = "caller") /\ unmarked' = (unmarked /\ e = "caller")
    /\ UNCHANGED <<rpc, owesGap, subscriber>>

Drain(e) ==
    /\ life[e] = "done" /\ life' = [life EXCEPT ![e] = "drained"]
    /\ IF e = "caller"
       THEN /\ box' = [i \in Calls |-> IF i \in pending THEN "disconnected" ELSE box[i]]
            /\ pending' = {} /\ UNCHANGED <<handler, inflight>>
       ELSE /\ handler' = [i \in Calls |-> IF i \in inflight THEN "cancelled" ELSE handler[i]]
            /\ inflight' = {} /\ UNCHANGED <<box, pending>>
    /\ UNCHANGED <<app, reading, call, events>>

----------------------------------------------------------------------------
(* Events.                                                                 *)

Room(o) == Len(o.q) < WriterQueue
Put(o, kind) == [o EXCEPT !.q = Append(@, kind)]
PutGap(o) == [Put(o, "gap") EXCEPT !.dirty = FALSE, !.gapSent = TRUE]

\* A lost event must be followed by a gap before any later event.
Flushed(o) == IF o.dirty /\ ~ o.gapSent /\ Room(o) THEN PutGap(o) ELSE o

enqueueEvent(o, kind) ==
    IF kind = "gap"
    THEN [ok |-> o.gapSent \/ Room(o),
          out |-> IF o.gapSent THEN o ELSE IF Room(o) THEN PutGap(o) ELSE [o EXCEPT !.dirty = TRUE]]
    ELSE LET f == Flushed(o)
         IN IF Room(f) THEN [ok |-> TRUE, out |-> Put(f, "event")]
            ELSE [ok |-> FALSE, out |-> [f EXCEPT !.dirty = @ \/ ~ f.gapSent]]

\* Mutant: the gap that was written still covers later losses.
eventDeliveredKeepsGap(o) == Flushed([o EXCEPT !.writing = "none"])

eventDelivered(o) ==
    Flushed([o EXCEPT !.writing = "none", !.gapSent = @ /\ o.writing # "wroteGap"])

sendMeshEventToTopics ==
    /\ life["callee"] = "open"
    /\ LET r == enqueueEvent(out, "event")
       IN /\ out' = r.out
          /\ owesGap' = (owesGap \/ ~ r.ok)
          /\ lost' = (lost \/ ~ r.ok)
          /\ unmarked' = (unmarked \/ (~ r.ok /\ out.writing = "wroteGap"))
    /\ UNCHANGED <<life, rpc, subscriber>>

retryMeshGaps ==
    /\ owesGap /\ life["callee"] = "open"
    /\ LET r == enqueueEvent(out, "gap")
       IN out' = r.out /\ owesGap' = ~ r.ok
    /\ UNCHANGED <<life, rpc, lost, unmarked, subscriber>>

WriterTakes ==
    /\ life["callee"] = "open" /\ out.writing = "none" /\ out.q # <<>>
    /\ out' = [out EXCEPT !.writing = Head(out.q), !.q = Tail(@)]
    /\ UNCHANGED <<life, rpc, owesGap, lost, unmarked, subscriber>>

Fits(i) == Len(i.q) < EventBuffer
PutIn(i, kind) == [i EXCEPT !.q = Append(@, kind)]
TellGap(i) == [PutIn(i, "gap") EXCEPT !.dirty = FALSE, !.gapPending = TRUE]
GapQueued(q) == \E n \in 1..Len(q) : q[n] = "gap"

\* Loss is remembered for each peer until its next event.
handleEvent(i, kind) ==
    IF kind = "gap"
    THEN IF Fits(i) THEN TellGap(i) ELSE [i EXCEPT !.dirty = TRUE, !.gapPending = FALSE]
    ELSE IF i.dirty /\ ~ Fits(i) THEN i
    ELSE LET g == IF i.dirty THEN TellGap(i) ELSE i
         IN IF Fits(g) THEN [PutIn(g, "event") EXCEPT !.dirty = FALSE, !.gapPending = FALSE]
            ELSE [g EXCEPT !.dirty = ~ g.gapPending]

\* The frame itself finds no room; and the gap that should cover it is gone.
Dropped(i, kind) == IF kind = "event" /\ i.dirty /\ Fits(i) THEN ~ Fits(TellGap(i)) ELSE ~ Fits(i)
GapTaken(i, kind) == kind = "event" /\ i.gapPending /\ ~ GapQueued(i.q)

\* The frame is on the wire, and handled by the caller's reader.
WriterWrites ==
    /\ out.writing \in {"event", "gap"} /\ \A e \in Ends : life[e] = "open"
    /\ out' = [out EXCEPT !.writing = IF @ = "gap" THEN "wroteGap" ELSE "wroteEvent"]
    /\ lost' = (lost /\ out.writing # "gap")
    /\ unmarked' = (unmarked /\ out.writing # "gap")
    /\ in' = handleEvent(in, out.writing)
    /\ missed' = (missed \/ (Dropped(in, out.writing) /\ ~ GapTaken(in, out.writing)))
    /\ untold' = (untold \/ (Dropped(in, out.writing) /\ GapTaken(in, out.writing)))
    /\ UNCHANGED <<life, rpc, owesGap>>

\* Only then does the writer account for it.
WriterDone ==
    /\ out.writing \in {"wroteEvent", "wroteGap"} /\ life["callee"] = "open"
    /\ out' = eventDelivered(out)
    /\ UNCHANGED <<life, rpc, owesGap, lost, unmarked, subscriber>>

\* Events of other peers share the subscription.
OtherPeerEvent ==
    /\ Fits(in) /\ in' = PutIn(in, "other")
    /\ UNCHANGED <<life, rpc, sender, missed, untold>>

TakeEvent ==
    /\ in.q # <<>> /\ in' = [in EXCEPT !.q = Tail(@)]
    /\ missed' = (missed /\ Head(in.q) # "gap")
    /\ untold' = (untold /\ Head(in.q) = "other")
    /\ UNCHANGED <<life, rpc, sender>>

Next ==
    \/ \E i \in Calls : \/ CallFinds(i) \/ CallRegisters(i) \/ CallSends(i)
                        \/ CallReturns(i) \/ CallTimesOut(i) \/ runHandler(i)
    \/ \E e \in Ends : ReaderTakes(e) \/ handleApplicationEnvelope(e) \/ close(e) \/ Drain(e)
    \/ sendMeshEventToTopics \/ retryMeshGaps \/ WriterTakes \/ WriterWrites \/ WriterDone
    \/ OtherPeerEvent \/ TakeEvent

Spec == Init /\ [][Next]_vars

CallSymmetry == Permutations(Calls)

----------------------------------------------------------------------------
\* A closed connection keeps no call: none is registered after the tables were
\* emptied, although its runtime was looked up before (Call, close).
NoCallLeft == life["caller"] = "drained" => pending = {}

\* The reader never blocks on a result channel: one that is registered has room,
\* whatever responses, timeouts and closing did (handleResponse, close).
ReaderNeverBlocks == \A i \in pending : box[i] = "empty"

\* While the callee's connection is open, a handler that runs on can still be
\* cancelled (handleRequest, handleCancel, runHandler).
HandlersCancellable ==
    life["callee"] = "open" => \A i \in Calls : handler[i] = "running" => i \in inflight

\* A lost event is reported by a gap.  Lost at the sender, a gap is queued, being
\* written, or queued by the next write: except while the writer has written a
\* gap and not accounted for it, when an event is dropped as if that gap were
\* still to come (enqueueEvent, eventDelivered).  Lost at the subscription, a
\* gap is still to be taken or the peer's next event brings it: except after
\* the gap was taken, when the peer's next event itself is all there will be
\* (handleEvent).
LossReported ==
    /\ lost => \/ out.dirty /\ (out.q # <<>> \/ out.writing # "none")
               \/ out.writing = "gap" \/ GapQueued(out.q)
               \/ unmarked
    /\ missed => in.dirty \/ GapQueued(in.q)
    /\ untold => \/ in.dirty \/ in.gapPending
                 \/ \E n \in 1..Len(in.q) : in.q[n] # "other"
=============================================================================
