------------------------- MODULE ExecTransportProofs -------------------------
(* ExecTransport, for any number of prompts: a working session has a       *)
(* waiter, a stop saves a clean inventory, and no caller is answered early. *)
EXTENDS ExecTransport, TLAPS

Busy      == {"registered", "running", "reaped", "wrote", "settling", "closing", "settled"}

\* The table's entry is that of a prompt between its registration and the end
\* of its waiter, and unless entries were displaced, of the only one.
OneBusy ==
    /\ registry # NoRun => call[registry] \in Busy
    /\ ~displaced => \A p \in Prompts : call[p] \in Busy => registry = p

\* Only a registered prompt has had a process.
NotStarted == \A p \in Prompts :
    call[p] \in {"none", "called", "checked"} => proc[p] = "none"

\* A prompt whose output is not written yet is what the state is about.
RunningShown ==
    ~displaced => \A p \in Prompts :
        call[p] \in {"running", "reaped"} => state \in {"working", "exited", "stuck"}

\* How far a stop is, and what it has done to the table and the summaries.
StopOrder ==
    /\ stop = "interrupted" => draining \in Prompts /\ call[draining] \in Busy \cup {"done"}
    /\ stop \in {"interrupted", "killed"} => registry \in {draining, NoRun}
    /\ stop \in {"drained", "saved", "unsaved"} => (registry = NoRun \/ gaveUp) /\ summary # "running"
    /\ stop = "saved" /\ ~Exceptional => saved # "working"

\* A daemon that is down has no calls, nor has one that does not know the session.
Nobody ==
    /\ stop = "down" \/ state = "gone" => \A p \in Prompts : call[p] \in {"none", "done"}
    /\ stop # "down" /\ state = "gone" => saved = "gone"

IInv == /\ TypeOK /\ OneBusy /\ NotStarted /\ RunningShown
        /\ StopOrder /\ Nobody /\ WorkingHasWaiter

----------------------------------------------------------------------------

\* Types: one case per action.
LEMMA TypeStep ==
    ASSUME IInv, [Next]_vars
    PROVE  TypeOK'
<1> USE PromptsAssumption DEF IInv, TypeOK, States, CallSteps, Groups, StopSteps, Streams
<1>1. CASE UNCHANGED vars
  BY <1>1 DEF vars
<1>2. ASSUME NEW p \in Prompts, PromptStep(p) PROVE TypeOK'
  <2>1. CASE SendPrompt(p)
    BY <2>1 DEF SendPrompt, Serving, session, ending, history
  <2>2. CASE Check(p)
    BY <2>2 DEF Check, session, ending, history, Refuse, waitForSessionIdle, Up
  <2>3. CASE Register(p)
    BY <2>3 DEF Register, session, ending, Up, Stopping
  <2>4. CASE RegisterFails(p)
    BY <2>4 DEF RegisterFails, Refuse, Up, ending, history
  <2>5. CASE Publish(p)
    BY <2>5 DEF Publish, ending, history, persistSessions, Up
  <2>6. CASE Answer(p)
    BY <2>6 DEF Answer, session, ending, history, waitForSessionIdle, Up
  <2>7. CASE GiveUp(p)
    BY <2>7 DEF GiveUp, session, ending, history, Up
  <2>8. CASE ProcessExits(p)
    BY <2>8 DEF ProcessExits, session, calls, ending, history, Killed
  <2>9. CASE Reap(p)
    BY <2>9 DEF Reap, session, ending, history, Up
  <2>10. CASE Look(p)
    BY <2>10 DEF Look, session, ending, history, Up
  <2>11. CASE Settle(p)
    BY <2>11 DEF Settle, ending, history, persistSessions, Up
  <2>12. CASE Unregister(p)
    BY <2>12 DEF Unregister, session, ending, Up
  <2>13. CASE WriteOutput(p)
    BY <2>13 DEF WriteOutput, session, ending, history, Up
  <2>14. QED BY <1>2, <2>1, <2>2, <2>3, <2>4, <2>5, <2>6, <2>7, <2>8, <2>9, <2>10, <2>11, <2>12, <2>13 DEF PromptStep
<1>3. CASE KillBegin
  BY <1>3 DEF KillBegin, Serving, session, calls, history, NoKill
<1>4. CASE KillSignal
  BY <1>4 DEF KillSignal, session, calls, ending, history, Killed, Alive, Up
<1>5. CASE KillUnlist
  BY <1>5 DEF KillUnlist, session, calls, Alive, Up
<1>6. CASE KillFinish
  BY <1>6 DEF KillFinish, calls, history, persistSessions, NoKill, Up
<1>7. CASE SummaryClaim
  BY <1>7 DEF SummaryClaim, session, calls, history, Up, Stopping
<1>8. CASE SummaryGate
  BY <1>8 DEF SummaryGate, session, calls, history, Up, Stopping
<1>9. CASE SummaryEnds
  BY <1>9 DEF SummaryEnds, session, calls, history, Up
<1>10. CASE beginStop
  BY <1>10 DEF beginStop, session, calls, history
<1>11. CASE StopSnapshot
  BY <1>11 DEF StopSnapshot, session, calls, history
<1>12. CASE StopKill
  BY <1>12 DEF StopKill, session, calls, history, Killed, StopOrder
<1>13. CASE StopDrained
  BY <1>13 DEF StopDrained, session, calls, treesExited, Alive
<1>14. CASE StopSave
  BY <1>14 DEF StopSave, calls, history, persistSessions
<1>15. CASE StopFinish
  BY <1>15 DEF StopFinish, NoKill, Exit, session
<1>16. CASE Crash
  BY <1>16 DEF Crash, Exit, Up, session, NoKill
<1>17. CASE Restart
  BY <1>17 DEF Restart, calls, history
<1>18. CASE persistLoop
  BY <1>18 DEF persistLoop, calls, ending, history, persistSessions, Up
<1>19. CASE StreamOutputEnds \/ StreamClientLeaves
  BY <1>19 DEF StreamOutputEnds, StreamClientLeaves, session, calls, history
<1>20. QED BY <1>1, <1>2, <1>3, <1>4, <1>5, <1>6, <1>7, <1>8, <1>9, <1>10, <1>11, <1>12, <1>13, <1>14,
              <1>15, <1>16, <1>17, <1>18, <1>19 DEF Next

\* The rest: one case per action.
LEMMA InductiveStep ==
    ASSUME IInv, [Next]_vars
    PROVE  IInv'
<1>1. TypeOK'
  BY TypeStep
<1> USE PromptsAssumption DEF IInv, TypeOK, OneBusy, NotStarted, RunningShown, StopOrder,
        Nobody, WorkingHasWaiter, Exceptional, Busy, Up
<1>2. CASE UNCHANGED vars
  BY <1>2 DEF vars
<1>3. ASSUME NEW p \in Prompts, PromptStep(p) PROVE IInv'
  <2>1. CASE SendPrompt(p)
    BY <1>1, <2>1 DEF SendPrompt, Serving, session, ending, history
  <2>2. CASE Check(p)
    BY <1>1, <2>2 DEF Check, session, ending, history, Refuse, waitForSessionIdle, Up
  <2>3. CASE Register(p)
    <3>1. /\ call' = [call EXCEPT ![p] = "registered"] /\ call[p] = "checked" /\ registry' = p
          /\ proc' = [proc EXCEPT ![p] = "running"] /\ displaced' = (displaced \/ registry # NoRun)
          /\ stop = "up"
          /\ UNCHANGED <<state, autoClose, saved, waits, kill, stop, draining, summary, stream, gaveUp>>
      BY <2>3 DEF Register, session, ending, Stopping
    <3>2. OneBusy' /\ NotStarted'
      BY <3>1
    <3>3. RunningShown' /\ StopOrder' /\ Nobody'
      BY <3>1
    <3>4. WorkingHasWaiter'
      BY <3>1
    <3>5. QED BY <1>1, <3>2, <3>3, <3>4 DEF IInv
  <2>4. CASE RegisterFails(p)
    BY <1>1, <2>4 DEF RegisterFails, Refuse, Up, ending, history
  <2>5. CASE Publish(p)
    BY <1>1, <2>5 DEF Publish, ending, history, persistSessions, Up
  <2>6. CASE Answer(p)
    BY <1>1, <2>6 DEF Answer, session, ending, history, waitForSessionIdle, Up
  <2>7. CASE GiveUp(p)
    BY <1>1, <2>7 DEF GiveUp, session, ending, history, Up
  <2>8. CASE ProcessExits(p)
    BY <1>1, <2>8 DEF ProcessExits, session, calls, ending, history, Killed
  <2>9. CASE Reap(p)
    BY <1>1, <2>9 DEF Reap, session, ending, history, Up
  <2>10. CASE Look(p)
    BY <1>1, <2>10 DEF Look, session, ending, history, Up
  <2>11. CASE Settle(p)
    BY <1>1, <2>11 DEF Settle, ending, history, persistSessions, Up
  <2>12. CASE Unregister(p)
    BY <1>1, <2>12 DEF Unregister, session, ending, Up
  <2>13. CASE WriteOutput(p)
    BY <1>1, <2>13 DEF WriteOutput, session, ending, history, Up
  <2>14. QED BY <1>3, <2>1, <2>2, <2>3, <2>4, <2>5, <2>6, <2>7, <2>8, <2>9, <2>10, <2>11, <2>12, <2>13 DEF PromptStep
<1>4. CASE KillBegin
  BY <1>1, <1>4 DEF KillBegin, Serving, session, calls, history, NoKill
<1>5. CASE KillSignal
  BY <1>1, <1>5 DEF KillSignal, session, calls, ending, history, Killed, Alive, Up
<1>6. CASE KillUnlist
  BY <1>1, <1>6 DEF KillUnlist, session, calls, Alive, Up
<1>7. CASE KillFinish
  BY <1>1, <1>7 DEF KillFinish, calls, history, persistSessions, NoKill, Up
<1>8. CASE SummaryClaim
  BY <1>1, <1>8 DEF SummaryClaim, session, calls, history, Up, Stopping
<1>9. CASE SummaryGate
  BY <1>1, <1>9 DEF SummaryGate, session, calls, history, Up, Stopping
<1>10. CASE SummaryEnds
  BY <1>1, <1>10 DEF SummaryEnds, session, calls, history, Up
<1>11. CASE beginStop
  BY <1>1, <1>11 DEF beginStop, session, calls, history
<1>12. CASE StopSnapshot
  BY <1>1, <1>12 DEF StopSnapshot, session, calls, history
<1>13. CASE StopKill
  BY <1>1, <1>13 DEF StopKill, session, calls, history, Killed
<1>14. CASE StopDrained
  BY <1>1, <1>14 DEF StopDrained, session, calls, treesExited, Alive
<1>15. CASE StopSave
  BY <1>1, <1>15 DEF StopSave, calls, history, persistSessions
<1>16. CASE StopFinish
  BY <1>1, <1>16 DEF StopFinish, NoKill, Exit, session
<1>17. CASE Crash
  BY <1>1, <1>17 DEF Crash, Exit, Up, session, NoKill
<1>18. CASE Restart
  BY <1>1, <1>18 DEF Restart, calls, history
<1>19. CASE persistLoop
  BY <1>1, <1>19 DEF persistLoop, calls, ending, history, persistSessions, Up
<1>20. CASE StreamOutputEnds \/ StreamClientLeaves
  BY <1>1, <1>20 DEF StreamOutputEnds, StreamClientLeaves, session, calls, history
<1>21. QED BY <1>2, <1>3, <1>4, <1>5, <1>6, <1>7, <1>8, <1>9, <1>10, <1>11, <1>12, <1>13, <1>14,
              <1>15, <1>16, <1>17, <1>18, <1>19, <1>20 DEF Next

----------------------------------------------------------------------------

\* The inductive invariant holds throughout.
THEOREM Invariance == Spec => []IInv
<1>1. Init => IInv
  <2>1. SUFFICES ASSUME Init PROVE IInv
    OBVIOUS
  <2>2. TypeOK
    BY <2>1 DEF Init, NoKill, TypeOK, States, CallSteps, Groups, StopSteps, Streams
  <2>3. OneBusy /\ NotStarted
    BY <2>1 DEF Init, OneBusy, NotStarted, Busy
  <2>4. RunningShown /\ StopOrder /\ Nobody /\ WorkingHasWaiter
    BY <2>1 DEF Init, RunningShown, StopOrder, Nobody, WorkingHasWaiter
  <2>5. QED BY <2>2, <2>3, <2>4 DEF IInv
<1>2. IInv /\ [Next]_vars => IInv'
  BY InductiveStep
<1>3. QED BY <1>1, <1>2, PTL DEF Spec

\* Type correctness, for any number of prompts.
THEOREM TypeCorrect == Spec => []TypeOK
<1>1. IInv => TypeOK
  BY DEF IInv
<1>2. QED BY <1>1, Invariance, PTL

\* A working session has a waiter that will settle it (waitExecPrompt).
THEOREM AlwaysWaiter == Spec => []WorkingHasWaiter
<1>1. IInv => WorkingHasWaiter
  BY DEF IInv
<1>2. QED BY <1>1, Invariance, PTL

\* Stop saves the inventory when nothing of the daemon runs any more, but for
\* displaced entries and a wait that ran out (stopExecProcesses, Stop).
THEOREM SavedClean == Spec => []CleanWhenSaved
<1>1. IInv => CleanWhenSaved
  <2>1. SUFFICES ASSUME IInv, stop \in {"saved", "unsaved"}, ~Exceptional PROVE CleanWhenSaved
    BY DEF CleanWhenSaved
  <2>2. registry = NoRun /\ summary # "running" /\ (stop = "saved" => saved # "working")
    BY <2>1 DEF IInv, StopOrder, Exceptional
  <2>3. \A p \in Prompts : call[p] \notin Busy
    BY <2>1, <2>2, PromptsAssumption DEF IInv, OneBusy, Exceptional
  <2>4. \A p \in Prompts : call[p] # "done" => ~Alive(p)
    BY <2>1, <2>3 DEF IInv, TypeOK, NotStarted, CallSteps, Busy, Alive
  <2>5. state # "working"
    BY <2>1, <2>3 DEF IInv, WorkingHasWaiter, Busy, Up
  <2>6. QED BY <2>2, <2>4, <2>5 DEF CleanWhenSaved
<1>2. QED BY <1>1, Invariance, PTL

\* A caller that is told of an idle agent is told after the waiter wrote the
\* output or failed to, but for kills, a failed first prompt and displaced
\* prompts (waitForSessionIdle, waitExecPrompt).
THEOREM OutputBeforeAnswer == Spec => AnsweredAfterOutput
<1>1. ASSUME IInv, NEW p \in Prompts, Answer(p)
      PROVE  call[p] \notin {"running", "reaped"} \/ state \in {"exited", "stuck"} \/ Exceptional
  BY <1>1 DEF IInv, RunningShown, Exceptional, Answer, waitForSessionIdle
<1>2. IInv /\ [Next]_vars =>
        [\A p \in Prompts : Answer(p) =>
            \/ call[p] \notin {"running", "reaped"}
            \/ state \in {"exited", "stuck"} \/ Exceptional]_vars
  BY <1>1
<1>3. QED BY <1>2, Invariance, PTL DEF Spec, AnsweredAfterOutput
=============================================================================
