-------------------------- MODULE MeshSyncProofs --------------------------
(***************************************************************************)
(* No event is swallowed by the coalescing of triggers, for any set of     *)
(* topics: the type invariant and EventAnswered, with what a worker that   *)
(* left took with it, are inductive together.                              *)
(***************************************************************************)
EXTENDS MeshSync, TLAPS

\* What a leaving worker took with it is remembered until the next one starts.
Lapse == worker.lapsed => worker.pc = "none"

IInv == TypeOK /\ EventAnswered /\ Lapse

LEMMA InitHolds == Init => IInv
<1> SUFFICES ASSUME Init PROVE IInv
  OBVIOUS
<1>1. TypeOK
  BY DEF Init, TypeOK, NoTick, NoWorker, NoOp
<1>2. EventAnswered
  BY DEF Init, EventAnswered
<1>3. Lapse
  BY DEF Init, Lapse, NoWorker
<1> QED
  BY <1>1, <1>2, <1>3 DEF IInv

(***************************************************************************)
(* What a trigger and the end of a pass leave of the worker: it is a       *)
(* worker again, and whoever is owed a fetch still is.                     *)
(***************************************************************************)
Workers == [pc : {"none", "top", "fetch", "got", "call", "answered", "leave"},
            dirty : BOOLEAN, resub : BOOLEAN, topics : SUBSET Topics, current : BOOLEAN,
            lapsed : BOOLEAN]

Will(w) == w.dirty \/ w.pc \in {"top", "fetch"}

(***************************************************************************)
(* scheduleMeshSync: after a trigger a fetch that has not begun is on its  *)
(* way, whatever the worker was doing.                                     *)
(***************************************************************************)
LEMMA ScheduleWill ==
    ASSUME TypeOK, NEW resub \in BOOLEAN
    PROVE  /\ scheduleMeshSync(resub) \in Workers /\ Will(scheduleMeshSync(resub))
           /\ Lapse => ~ scheduleMeshSync(resub).lapsed
<1>1. CASE worker.pc = "none"
  BY <1>1 DEF TypeOK, scheduleMeshSync, NoWorker, Workers, Will, Lapse
<1>2. CASE worker.pc # "none"
  BY <1>2 DEF TypeOK, scheduleMeshSync, NoWorker, Workers, Will, Lapse
<1> QED
  BY <1>1, <1>2

(***************************************************************************)
(* retryDirtyMeshSync: a failed pass that had a trigger begins anew.       *)
(***************************************************************************)
LEMMA RetryWill ==
    ASSUME TypeOK, NEW keep \in BOOLEAN
    PROVE  /\ retryDirtyMeshSync(keep) \in Workers
           /\ worker.dirty => Will(retryDirtyMeshSync(keep))
           /\ ~ worker.dirty => retryDirtyMeshSync(keep).pc = "none"
           /\ Lapse /\ worker.pc # "none" => ~ retryDirtyMeshSync(keep).lapsed
BY DEF TypeOK, retryDirtyMeshSync, NoWorker, Workers, Will, Lapse

(***************************************************************************)
(* WorkerEnds: so does one that succeeded.                                 *)
(***************************************************************************)
LEMMA EndsWill ==
    ASSUME TypeOK
    PROVE  /\ WorkerEnds \in Workers /\ (worker.dirty => Will(WorkerEnds))
           /\ Lapse /\ worker.pc # "none" => ~ WorkerEnds.lapsed
BY DEF TypeOK, WorkerEnds, NoWorker, Workers, Will, Lapse

(***************************************************************************)
(* Every step keeps the invariant.                                         *)
(***************************************************************************)
LEMMA NextHolds == IInv /\ [Next]_vars => IInv'
<1> SUFFICES ASSUME IInv, [Next]_vars PROVE IInv'
  OBVIOUS
<1> USE DEF IInv, Lapse
<1>1. CASE SourceChanges
  BY <1>1 DEF SourceChanges, intent, TypeOK, EventAnswered
<1>2. CASE handleRemoteMeshEvent
  BY <1>2, ScheduleWill DEF handleRemoteMeshEvent, intent, TypeOK, EventAnswered, Workers, Will
<1>3. CASE WorkerTop
  <2>1. worker' \in Workers /\ (owed' => Will(worker')) /\ owed' \in BOOLEAN
    <3>1. CASE outbound.topics = {}
      <4>1. worker' = [worker EXCEPT !.pc = "leave"] /\ owed' = FALSE
        BY <1>3, <3>1 DEF WorkerTop
      <4>2. worker' \in Workers
        BY <4>1 DEF TypeOK, Workers
      <4> QED
        BY <4>1, <4>2
    <3>2. CASE outbound.topics # {}
      <4>1. worker' = [worker EXCEPT !.pc = "fetch", !.topics = outbound.topics] /\ owed' = owed
        BY <1>3, <3>2 DEF WorkerTop
      <4>2. worker \in Workers /\ outbound.topics \in SUBSET Topics /\ owed \in BOOLEAN
        BY DEF TypeOK, Workers
      <4>3. worker' \in Workers /\ worker'.pc = "fetch"
        BY <4>1, <4>2 DEF Workers
      <4> QED
        BY <4>1, <4>2, <4>3 DEF Will
    <3> QED
      BY <3>1, <3>2
  <2> QED
    BY <1>3, <2>1 DEF WorkerTop, intent, TypeOK, EventAnswered, Workers, Will
<1>4. CASE WorkerFetch
  BY <1>4 DEF WorkerFetch, intent, TypeOK, EventAnswered
<1>5. CASE WorkerCommit
  <2>1. worker' \in Workers /\ (worker.dirty => Will(worker')) /\ Lapse'
    <3>1. worker \in Workers /\ worker.pc = "got" /\ ~ worker.lapsed
      BY <1>5 DEF WorkerCommit, TypeOK, Workers
    <3>2. \/ worker' = [worker EXCEPT !.pc = "call", !.resub = FALSE]
          \/ worker' = WorkerEnds
      BY <1>5 DEF WorkerCommit
    <3>3. CASE worker' = [worker EXCEPT !.pc = "call", !.resub = FALSE]
      BY <3>1, <3>3 DEF Workers, Will
    <3>4. CASE worker' = WorkerEnds
      BY <3>1, <3>4, EndsWill DEF Will
    <3> QED
      BY <3>2, <3>3, <3>4
  <2>2. behind' \in BOOLEAN
    BY <1>5 DEF WorkerCommit, TypeOK
  <2>3. \/ UNCHANGED <<desired, outbound>>
        \/ /\ desired' = worker.topics
           /\ outbound' = [topics |-> worker.topics, current |-> FALSE]
    BY <1>5 DEF WorkerCommit, setDesiredMeshTopics, intent
  <2>4. /\ desired' \in SUBSET Topics /\ outbound' \in [topics : SUBSET Topics, current : BOOLEAN]
        /\ outbound'.current => up /\ outbound'.topics # {}
    <3>1. CASE UNCHANGED <<desired, outbound>>
      BY <3>1 DEF TypeOK
    <3>2. CASE /\ desired' = worker.topics
               /\ outbound' = [topics |-> worker.topics, current |-> FALSE]
      BY <3>2 DEF TypeOK
    <3> QED
      BY <2>3, <3>1, <3>2
  <2>5. EventAnswered'
    BY <1>5, <2>1 DEF WorkerCommit, EventAnswered, Will
  <2> QED
    BY <1>5, <2>1, <2>2, <2>3, <2>4, <2>5 DEF WorkerCommit, TypeOK, Workers
<1>6. CASE WorkerCalls
  <2>1. /\ worker' \in Workers
        /\ worker.dirty => Will(worker')
        /\ worker'.pc # "none" => worker'.dirty = worker.dirty \/ Will(worker')
        /\ Lapse'
    BY <1>6, RetryWill DEF WorkerCalls, TypeOK, Workers, Will
  <2>2. EventAnswered'
    BY <1>6, <2>1, RetryWill DEF WorkerCalls, TypeOK, EventAnswered, Will
  <2> QED
    BY <1>6, <2>1, <2>2 DEF WorkerCalls, replacePeerSubscription, intent, TypeOK, Workers
<1>7. CASE WorkerAgreed
  <2>1. desired' \in SUBSET Topics /\ outbound' \in [topics : SUBSET Topics, current : BOOLEAN]
    BY <1>7 DEF WorkerAgreed, setDesiredMeshTopics, TypeOK
  <2>2. outbound'.current => up' /\ outbound'.topics # {}
    BY <1>7 DEF WorkerAgreed, setDesiredMeshTopics, TypeOK
  <2>3. worker' \in Workers /\ EventAnswered' /\ Lapse'
    BY <1>7, EndsWill DEF WorkerAgreed, TypeOK, EventAnswered, Will
  <2> QED
    BY <1>7, <2>1, <2>2, <2>3 DEF WorkerAgreed, TypeOK, Workers
<1>8. CASE WorkerFails
  <2>1. worker' \in Workers /\ (worker.dirty => Will(worker')) /\ Lapse'
    <3>1. (worker.pc \in {"call", "answered"}) \in BOOLEAN
      OBVIOUS
    <3> QED
      BY <1>8, <3>1, RetryWill DEF WorkerFails
  <2>2. owed' \in BOOLEAN /\ (owed' => worker.dirty)
    BY <1>8 DEF WorkerFails, TypeOK
  <2> QED
    BY <1>8, <2>1, <2>2 DEF WorkerFails, intent, TypeOK, EventAnswered, Workers, Will
<1>9. CASE Operator
  <2>1. PICK topics \in SUBSET Topics :
            /\ desired' = topics /\ outbound' = [topics |-> topics, current |-> FALSE]
            /\ op'.topics = topics /\ op'.pc \in {"call", "uncall"}
            /\ op' = [pc |-> op'.pc, topics |-> topics]
            /\ UNCHANGED <<up, behind, sub, known, tick, worker, owed>>
    <3>1. CASE UnsubscribeMeshPeer
      BY <3>1 DEF UnsubscribeMeshPeer, setDesiredMeshTopics
    <3>2. CASE \E topics \in SUBSET Topics \ {{}} : OperatorSubscribes(topics)
      <4>1. PICK topics \in SUBSET Topics : OperatorSubscribes(topics)
        BY <3>2
      <4>2. /\ desired' = topics /\ outbound' = [topics |-> topics, current |-> FALSE]
            /\ op' = [pc |-> "call", topics |-> topics]
            /\ UNCHANGED <<up, behind, sub, known, tick, worker, owed>>
        BY <4>1 DEF OperatorSubscribes, setDesiredMeshTopics
      <4> QED
        BY <4>2
    <3> QED
      BY <1>9, <3>1, <3>2 DEF Operator
  <2> QED
    BY <2>1 DEF TypeOK, EventAnswered
<1>10. CASE OperatorCalls
  BY <1>10 DEF OperatorCalls, replacePeerSubscription, NoOp, intent, TypeOK, EventAnswered
<1>11. CASE OperatorAgreed
  BY <1>11 DEF OperatorAgreed, setDesiredMeshTopics, NoOp, TypeOK, EventAnswered
<1>12. CASE clearPeerSubscription
  BY <1>12 DEF clearPeerSubscription, NoOp, intent, TypeOK, EventAnswered
<1>13. CASE OperatorFails
  BY <1>13 DEF OperatorFails, NoOp, intent, TypeOK, EventAnswered
<1>14. CASE LinkDrops
  BY <1>14 DEF LinkDrops, TypeOK, EventAnswered
<1>15. CASE LinkComes
  BY <1>15 DEF LinkComes, intent, TypeOK, EventAnswered
<1>16. CASE TickReads
  BY <1>16 DEF TickReads, intent, TypeOK, EventAnswered
<1>17. CASE reconcileMeshStatuses
  <2>1. worker' \in Workers /\ (owed => Will(worker') \/ worker'.lapsed) /\ Lapse'
    BY <1>17, ScheduleWill DEF reconcileMeshStatuses, TypeOK, EventAnswered, Workers, Will
  <2> QED
    BY <1>17, <2>1 DEF reconcileMeshStatuses, restoreDesiredMeshPeer, NoTick, TypeOK,
        EventAnswered, Workers, Will
<1>18. CASE PeriodicPass
  <2>1. meshSubscriptionNeedsRestore \in BOOLEAN
    BY DEF meshSubscriptionNeedsRestore, TypeOK
  <2> QED
    BY <1>18, <2>1, ScheduleWill DEF PeriodicPass, intent, TypeOK, EventAnswered, Workers, Will
<1>19. CASE RuntimeRestarts
  BY <1>19 DEF RuntimeRestarts, NoTick, NoWorker, NoOp, TypeOK, EventAnswered
<1>20. CASE finishMeshSync
  BY <1>20 DEF finishMeshSync, NoWorker, intent, TypeOK, EventAnswered
<1>21. CASE UNCHANGED vars
  BY <1>21 DEF vars, TypeOK, EventAnswered
<1> QED
  BY <1>1, <1>2, <1>3, <1>4, <1>5, <1>6, <1>7, <1>8, <1>9, <1>10, <1>11, <1>12, <1>13, <1>14,
     <1>15, <1>16, <1>17, <1>18, <1>19, <1>20, <1>21 DEF Next, Worker

(***************************************************************************)
(* The invariant holds in every behaviour.                                 *)
(***************************************************************************)
THEOREM Invariance == Spec => []IInv
BY InitHolds, NextHolds, PTL DEF Spec

(***************************************************************************)
(* Every variable keeps its type; a subscription is current only while     *)
(* there is a link and something is wanted, and the source has none for a  *)
(* link that is gone.                                                      *)
(***************************************************************************)
THEOREM TypeCorrect == Spec => []TypeOK
<1>1. IInv => TypeOK
  BY DEF IInv
<1> QED
  BY <1>1, Invariance, PTL

(***************************************************************************)
(* An event that was handled is answered by a fetch that begins after it,  *)
(* for any set of topics, unless a failure, or a worker that had found     *)
(* nothing wanted as it left, leaves it to the periodic pass               *)
(* (scheduleMeshSync, retryDirtyMeshSync, finishMeshSync).                 *)
(***************************************************************************)
THEOREM EventIsAnswered == Spec => []EventAnswered
<1>1. IInv => EventAnswered
  BY DEF IInv
<1> QED
  BY <1>1, Invariance, PTL
=============================================================================
