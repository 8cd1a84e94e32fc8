------------------------ MODULE WorkflowTurn_proofs ------------------------
(***************************************************************************)
(* What holds of a workflow turn for every definition, every bound and any *)
(* number of runs: types, events and gates; the data of one run apart from *)
(* another's; announcements; what a turn may call out for; and that turns, *)
(* with their steps, waits and cuts, implement the life of a ticket.       *)
(***************************************************************************)
EXTENDS WorkflowTurn, SequenceTheorems, TLAPS

-----------------------------------------------------------------------------
(* What the handlers leave alone. *)

(* Routing a message touches no committed state and sends nothing. *)
LEMMA RouteFrame ==
  ASSUME NEW in \in Request,
         StartRun(in) \/ Chat(in) \/ CancelRun(in) \/ Reprompt(in) \/ Resume(in) \/ Continue(in)
  PROVE  /\ pc = "idle" /\ said' = in /\ pc' \in {"step", "commit"}
         /\ UNCHANGED <<defn, saved, plan, attempt, unsure, pending, owed, published, calls, acks>>
<1> USE DEF RoutingFrame, BeginTurn, Finish
<1>1. CASE StartRun(in) BY <1>1 DEF StartRun
<1>2. CASE Chat(in) BY <1>2 DEF Chat
<1>3. CASE CancelRun(in) BY <1>3 DEF CancelRun
<1>4. CASE Reprompt(in) BY <1>4 DEF Reprompt
<1>5. CASE Resume(in) BY <1>5 DEF Resume, Advance, Enter
<1>6. CASE Continue(in) BY <1>6 DEF Continue
<1> QED BY <1>1, <1>2, <1>3, <1>4, <1>5, <1>6

(* No step handler ends the turn, commits, or dispatches an event. *)
LEMMA ExecuteFrame ==
  ASSUME Execute
  PROVE  /\ pc \notin {"idle", "commit", "flush"} /\ pc' \notin {"idle", "flush"}
         /\ UNCHANGED <<defn, saved, start, said, runs, owed, published>>
<1> USE DEF AtStep, StepFrame, Finish, turn, history, session, Advance, FollowFallback, Enter, Rollback
<1>1. CASE RefuseStep BY <1>1 DEF RefuseStep
<1>2. CASE Collect BY <1>2 DEF Collect
<1>3. CASE Validate BY <1>3 DEF Validate
<1>4. CASE Confirm BY <1>4 DEF Confirm
<1>5. CASE ShowGate BY <1>5 DEF ShowGate
<1>6. CASE DenyGate BY <1>6 DEF DenyGate
<1>7. CASE EnterToolCall BY <1>7 DEF EnterToolCall
<1>8. CASE CallTool BY <1>8 DEF CallTool
<1>9. CASE ToolSucceeds BY <1>9 DEF ToolSucceeds
<1>10. CASE ToolFails BY <1>10 DEF ToolFails
<1>11. CASE AskDecision BY <1>11 DEF AskDecision
<1>12. CASE DecisionAccepted BY <1>12 DEF DecisionAccepted
<1>13. CASE DecisionRejected BY <1>13 DEF DecisionRejected
<1>14. CASE PauseForReview BY <1>14 DEF PauseForReview
<1>15. CASE Complete BY <1>15 DEF Complete
<1>16. CASE SendWebhook BY <1>16 DEF SendWebhook
<1>17. CASE WebhookDelivered BY <1>17 DEF WebhookDelivered
<1>18. CASE WebhookFailed BY <1>18 DEF WebhookFailed
<1> QED BY <1>1, <1>2, <1>3, <1>4, <1>5, <1>6, <1>7, <1>8, <1>9, <1>10, <1>11, <1>12, <1>13,
           <1>14, <1>15, <1>16, <1>17, <1>18 DEF Execute

-----------------------------------------------------------------------------
(* Announcing events. *)

(* The inductive strengthening: what waits to be dispatched after the commit
   was committed. *)
EventInv == NoPhantomEvents /\ (pc = "flush" => pending \subseteq owed)

(* Subscribers hear only of transitions that were committed, whatever aborts
   the turn (WorkflowExecutor.pending_events, _flush_pending_events). *)
THEOREM NoPhantom == Spec => []NoPhantomEvents
<1>1. Init => EventInv
  BY DEF Init, EventInv, NoPhantomEvents
<1>2. EventInv /\ [Next]_vars => EventInv'
  <2> SUFFICES ASSUME EventInv, [Next]_vars PROVE EventInv'
    OBVIOUS
  <2> USE DEF EventInv, NoPhantomEvents
  <2>1. CASE Route
    BY <2>1, RouteFrame DEF Route
  <2>2. CASE Execute
    BY <2>2, ExecuteFrame
  <2>3. CASE StartFails
    BY <2>3 DEF StartFails, Finish, StepFrame, history
  <2>4. CASE Commit
    BY <2>4 DEF Commit, EndTurn
  <2>5. CASE FlushEvents
    BY <2>5 DEF FlushEvents, EndTurn
  <2>6. CASE TurnAborted
    BY <2>6 DEF TurnAborted, EndTurn, history
  <2>7. CASE AbortedInCommit
    BY <2>7 DEF AbortedInCommit, EndTurn
  <2>8. CASE EditWorkflow
    BY <2>8 DEF EditWorkflow, history
  <2>9. CASE UNCHANGED vars
    BY <2>9 DEF vars
  <2> QED BY <2>1, <2>2, <2>3, <2>4, <2>5, <2>6, <2>7, <2>8, <2>9 DEF Next, Deliver
<1>3. EventInv => NoPhantomEvents
  BY DEF EventInv
<1> QED BY <1>1, <1>2, <1>3, PTL DEF Spec

-----------------------------------------------------------------------------
(* The building blocks of the handlers keep the session well formed. *)

WellFormed(w) == w \in WfState /\ Len(w.snaps) <= MaxSnapshots

(* A handler that works on the state w ends its turn or enters one more step
   of the same run. *)
Lands(w) ==
  /\ WellFormed(wf') /\ wf'.run = w.run
  /\ pc' \in {"step", "commit"} /\ result' \in Result /\ depth' \in Nat
  /\ pc' = "step" => depth' = depth + 1

LEMMA StepsTyped ==
  ASSUME NEW steps \in Definitions, NEW i \in DOMAIN steps
  PROVE  steps \in Seq(Step) /\ i \in Nat /\ steps[i] \in Step
BY ConstantsOK

LEMMA SnapTyped ==
  ASSUME NEW w \in WfState, WellFormed(w), NEW d \in SUBSET Cells
  PROVE  /\ WellFormed(Snap(w, d))
         /\ Snap(w, d).run = w.run /\ Snap(w, d).idx = w.idx
         /\ Snap(w, d).status = w.status /\ Snap(w, d).gate = w.gate
<1> DEFINE e == [idx |-> w.idx, data |-> d]
           s == IF w.snaps = <<>> \/ w.snaps[Len(w.snaps)].idx # w.idx
                THEN Append(w.snaps, e) ELSE w.snaps
           t == IF Len(s) > MaxSnapshots
                THEN SubSeq(s, Len(s) - MaxSnapshots + 1, Len(s)) ELSE s
<1>1. w.snaps \in Seq(Snapshot) /\ e \in Snapshot
  BY DEF WfState, Snapshot
<1>2. s \in Seq(Snapshot) /\ Len(s) \in Nat
  BY <1>1, AppendProperties, LenProperties
<1>3. t \in Seq(Snapshot) /\ Len(t) <= MaxSnapshots
  <2>1. CASE Len(s) <= MaxSnapshots
    BY <2>1, <1>2, ConstantsOK
  <2>2. CASE Len(s) > MaxSnapshots
    <3>1. \A i \in Len(s) - MaxSnapshots + 1 .. Len(s) : s[i] \in Snapshot
      BY <1>2, <2>2, ConstantsOK, ElementOfSeq
    <3> QED BY <3>1, <1>2, <2>2, ConstantsOK, SubSeqProperties
  <2> QED BY <2>1, <2>2, <1>2, ConstantsOK
<1>4. Snap(w, d) = [w EXCEPT !.snaps = t]
  BY DEF Snap
<1> QED BY <1>3, <1>4 DEF WfState, WellFormed

LEMMA EnterLands ==
  ASSUME NEW steps, NEW w \in WfState, WellFormed(w), NEW n \in Nat,
         depth \in Nat, result \in Result, Enter(steps, w, n)
  PROVE  Lands(w) /\ wf'.snaps = w.snaps
<1>1. /\ wf' = [w EXCEPT !.idx = n, !.status = "in_progress"]
      /\ wf' \in WfState /\ wf'.run = w.run /\ wf'.snaps = w.snaps
  BY DEF Enter, WfState, Status
<1>2. /\ pc' \in {"step", "commit"} /\ result' \in Result /\ depth' \in Nat
      /\ pc' = "step" => depth' = depth + 1
  BY DEF Enter, Finish, Result
<1> QED BY <1>1, <1>2 DEF Lands, WellFormed

LEMMA AdvanceLands ==
  ASSUME NEW steps \in Definitions, NEW w \in WfState, WellFormed(w), w.idx \in DOMAIN steps, NEW d,
         depth \in Nat, result \in Result, Advance(steps, w, d)
  PROVE  Lands(w) /\ wf'.snaps = w.snaps
<1>1. Targets(steps, w.idx, d) \subseteq Nat
  BY StepsTyped DEF Targets, IndexOf, First
<1>2. CASE wf' = w /\ Finish("error") /\ depth' = depth
  BY <1>2 DEF Lands, Finish, WellFormed, Result
<1>3. ASSUME NEW n \in Targets(steps, w.idx, d), Enter(steps, w, n)
      PROVE  Lands(w) /\ wf'.snaps = w.snaps
  BY <1>3, <1>1, EnterLands
<1>4. ASSUME NEW n \in Targets(steps, w.idx, d),
             wf' = [w EXCEPT !.idx = n, !.status = "completed"], Finish("completed"), depth' = depth
      PROVE  Lands(w) /\ wf'.snaps = w.snaps
  BY <1>4, <1>1 DEF Lands, Finish, WellFormed, WfState, Status, Result
<1> QED BY <1>2, <1>3, <1>4 DEF Advance

LEMMA FallbackLands ==
  ASSUME NEW steps \in Definitions, NEW w \in WfState, WellFormed(w), NEW targets \in SUBSET Nat,
         depth \in Nat, result \in Result, FollowFallback(steps, w, targets)
  PROVE  Lands(w) /\ wf'.snaps = w.snaps
<1>1. CASE wf' = w /\ Finish("error") /\ depth' = depth
  BY <1>1 DEF Lands, Finish, WellFormed, Result
<1>2. ASSUME NEW n \in targets, Enter(steps, w, n)
      PROVE  Lands(w) /\ wf'.snaps = w.snaps
  BY <1>2, EnterLands
<1> QED BY <1>1, <1>2 DEF FollowFallback

LEMMA FallbacksTyped ==
  ASSUME NEW steps \in Definitions, NEW i
  PROVE  Fallbacks(steps, i) \in SUBSET Nat /\ SafeFallbacks(steps, i) \in SUBSET Nat
BY StepsTyped DEF Fallbacks, SafeFallbacks, IndexOf, First

LEMMA RollbackLands ==
  ASSUME NEW steps \in Definitions, NEW w \in WfState, WellFormed(w),
         data \in SUBSET Cells, depth \in Nat, depth' = depth, Rollback(steps, w)
  PROVE  Lands(w) /\ data' \in SUBSET Cells /\ pc' = "commit"
<1>1. CASE wf' = w /\ data' = data /\ Finish("error")
  BY <1>1 DEF Lands, Finish, WellFormed, Result
<1>2. ASSUME NEW i \in EditTargets(steps, w),
             wf' = [w EXCEPT !.idx = w.snaps[i].idx, !.status = "in_progress", !.gate = NoStep,
                             !.snaps = SubSeq(w.snaps, 1, i)],
             data' = w.snaps[i].data, Finish("waiting_input")
      PROVE  Lands(w) /\ data' \in SUBSET Cells /\ pc' = "commit"
  <2>1. w.snaps \in Seq(Snapshot) /\ i \in 1..Len(w.snaps)
    BY LenProperties DEF EditTargets, WfState
  <2>2. w.snaps[i].idx \in Nat /\ w.snaps[i].data \in SUBSET Cells
    <3>1. w.snaps[i] \in Snapshot
      BY <2>1, ElementOfSeq
    <3> QED BY <3>1 DEF Snapshot
  <2>3. SubSeq(w.snaps, 1, i) \in Seq(Snapshot) /\ Len(SubSeq(w.snaps, 1, i)) = i
    <3>1. \A j \in 1..i : w.snaps[j] \in Snapshot
      BY <2>1, ElementOfSeq, LenProperties
    <3> QED BY <3>1, <2>1, SubSeqProperties, LenProperties
  <2>4. i <= MaxSnapshots
    BY <2>1, LenProperties, ConstantsOK DEF WellFormed
  <2> QED BY <1>2, <2>2, <2>3, <2>4 DEF Lands, Finish, WellFormed, WfState, Status, Result
<1> QED BY <1>1, <1>2 DEF Rollback

-----------------------------------------------------------------------------
(* Type correctness. *)

Working == {"step", "tool", "calling", "decide", "hook", "hooking"}
Outside == {"tool", "calling", "decide", "hook", "hooking"}

(* The strengthening: a step that works belongs to a run, one that calls out
   is a step of the plan, and between turns the session object is the
   committed row. *)
TypeInv ==
  /\ TypeOK
  /\ wf.run = 0 => wf.status = "none"
  /\ saved.wf.run = 0 => saved.wf.status = "none"
  /\ pc \in Working => wf.run # 0
  /\ pc \in Outside => plan \in Definitions /\ wf.idx \in DOMAIN plan
  /\ pc = "decide" => This.type = "decision" /\ This.bound
  /\ pc \in {"idle", "flush"} => wf = saved.wf /\ data = saved.data

LEMMA NoWfTyped == WellFormed(NoWf) /\ NoWf.run = 0 /\ NoWf.status = "none" /\ NoWf.gate = NoStep
<1>1. <<>> \in Seq(Snapshot) /\ Len(<<>>) = 0
  BY EmptySeq
<1> QED BY <1>1, ConstantsOK DEF NoWf, WfState, Status, WellFormed

(* What the part of the state a handler changes owes to the invariant. *)
Handled ==
  /\ WellFormed(wf') /\ data' \in SUBSET Cells /\ pc' \in PC /\ depth' \in Nat
  /\ plan' \in Definitions \cup {<<>>} /\ attempt' \in Nat /\ result' \in Result
  /\ unsure' \in BOOLEAN /\ pending' \in SUBSET Event
  /\ calls' \in SUBSET Call /\ acks' \in SUBSET Key
  /\ wf'.run = 0 => wf'.status = "none"
  /\ pc' \in Working => wf'.run # 0
  /\ pc' \in Outside => plan' \in Definitions /\ wf'.idx \in DOMAIN plan'
  /\ pc' = "decide" => plan'[wf'.idx].type = "decision" /\ plan'[wf'.idx].bound

LEMMA LandsHandled ==
  ASSUME TypeInv, NEW w, w.run = wf.run, wf.run # 0, Lands(w), data' \in SUBSET Cells,
         UNCHANGED <<plan, attempt, calls, acks>>, unsure' \in BOOLEAN, pending' \in SUBSET Event
  PROVE  Handled
BY DEF TypeInv, TypeOK, Lands, Handled, Working, Outside, PC

(* At a step of the definition ... *)
LEMMA AtStepTyped ==
  ASSUME TypeInv, NEW type, AtStep(type)
  PROVE  /\ defn \in Definitions /\ wf.idx \in DOMAIN defn /\ defn[wf.idx] \in Step
         /\ wf \in WfState /\ WellFormed(wf) /\ wf.run # 0 /\ wf.run \in Runs
         /\ Snap(wf, data) \in WfState /\ WellFormed(Snap(wf, data))
         /\ Snap(wf, data).run = wf.run /\ Snap(wf, data).idx = wf.idx
         /\ Snap(wf, data).gate = wf.gate
<1>1. wf \in WfState /\ WellFormed(wf) /\ data \in SUBSET Cells /\ wf.run # 0
  BY DEF TypeInv, TypeOK, WellFormed, AtStep, Working
<1>2. defn \in Definitions /\ wf.idx \in DOMAIN defn
  BY DEF AtStep, Refused, TypeInv, TypeOK
<1>3. wf.run \in Runs
  BY <1>1, ConstantsOK DEF WfState, Runs
<1> QED BY <1>1, <1>2, <1>3, StepsTyped, SnapTyped DEF WellFormed

(* ... and while its external call is under way. *)
LEMMA OutsideTyped ==
  ASSUME TypeInv, pc \in Outside
  PROVE  /\ plan \in Definitions /\ wf.idx \in DOMAIN plan /\ This \in Step
         /\ wf \in WfState /\ WellFormed(wf) /\ wf.run # 0 /\ wf.run \in Runs
         /\ data \in SUBSET Cells
<1>1. wf \in WfState /\ WellFormed(wf) /\ data \in SUBSET Cells /\ wf.run # 0
  BY DEF TypeInv, TypeOK, WellFormed, Outside, Working
<1>2. plan \in Definitions /\ wf.idx \in DOMAIN plan
  BY DEF TypeInv
<1>3. wf.run \in Runs
  BY <1>1, ConstantsOK DEF WfState, Runs
<1> QED BY <1>1, <1>2, <1>3, StepsTyped DEF This

LEMMA RecordsTyped ==
  ASSUME NEW step \in Step, wf \in WfState, data \in SUBSET Cells,
         NEW kind \in {"completed", "escalated", "submit_failed"}
  PROVE  EventFor(kind, step) \in Event /\ CallOf(step) \in Call /\ KeyOf(step) \in Key
BY DEF EventFor, Submits, CallOf, KeyOf, Event, Call, Key, Step, WfState

LEMMA CellsTyped ==
  ASSUME NEW d \in SUBSET Cells, NEW e \in SUBSET Cells, NEW fs
  PROVE  Overlay(d, e) \in SUBSET Cells /\ Without(d, fs) \in SUBSET Cells
BY DEF Overlay, Without

LEMMA EnteredTyped ==
  ASSUME NEW step \in Step, NEW answer \in Answers(step), wf.run \in Runs
  PROVE  Entered(step, answer) \in SUBSET Cells
BY DEF Entered, Answers, Valid, Cells, Cell, Step

LEMMA HandlersTyped ==
  ASSUME TypeInv, Execute
  PROVE  Handled
<1> USE DEF Working, Outside
<1>0. /\ depth \in Nat /\ result \in Result /\ attempt \in Nat /\ data \in SUBSET Cells
      /\ plan \in Definitions \cup {<<>>} /\ unsure \in BOOLEAN /\ pending \in SUBSET Event
      /\ calls \in SUBSET Call /\ acks \in SUBSET Key
  BY DEF TypeInv, TypeOK
<1> DEFINE w == Snap(wf, data)
<1>1. CASE RefuseStep
  BY <1>1, <1>0 DEF RefuseStep, TypeInv, TypeOK, Handled, WellFormed, Finish, StepFrame, turn, history,
                    session, PC, Result
<1>2. CASE Collect
  <2>1. /\ AtStep("collect") /\ UNCHANGED <<plan, attempt, pending>> /\ StepFrame
    BY <1>2 DEF Collect
  <2> DEFINE step == defn[wf.idx]
  <2>2. CASE Advance(defn, w, data) /\ data' = data
    BY <2>1, <2>2, <1>0, AtStepTyped, AdvanceLands, LandsHandled DEF StepFrame, turn, history
  <2>3. CASE wf' = w /\ data' = data /\ depth' = depth /\ Finish("waiting_input")
    BY <2>1, <2>3, <1>0, AtStepTyped DEF StepFrame, turn, history, Handled, Finish, PC, Result
  <2>4. ASSUME NEW answer \in Answers(step), NEW refused, NEW blanked,
               data' = Without(Overlay(data, Entered(step, answer)), refused \cup blanked),
               \/ Advance(defn, w, data')
               \/ wf' = w /\ depth' = depth /\ Finish("waiting_input")
        PROVE  Handled
    <3>1. data' \in SUBSET Cells
      <4>1. Overlay(data, Entered(step, answer)) \in SUBSET Cells
        BY <2>1, <2>4, <1>0, AtStepTyped, EnteredTyped, CellsTyped
      <4> QED BY <4>1, <2>4, CellsTyped
    <3>2. CASE Advance(defn, w, data')
      BY <2>1, <3>1, <3>2, <1>0, AtStepTyped, AdvanceLands, LandsHandled DEF StepFrame, turn, history
    <3>3. CASE wf' = w /\ depth' = depth /\ Finish("waiting_input")
      BY <2>1, <3>1, <3>3, <1>0, AtStepTyped DEF StepFrame, turn, history, Handled, Finish, PC, Result
    <3> QED BY <2>4, <3>2, <3>3
  <2> QED BY <1>2, <2>2, <2>3, <2>4 DEF Collect
<1>3. CASE Validate
  <2>1. /\ AtStep("validate") /\ UNCHANGED <<plan, attempt, pending>> /\ StepFrame
    BY <1>3 DEF Validate
  <2>2. CASE Advance(defn, w, data) /\ data' = data
    BY <2>1, <2>2, <1>0, AtStepTyped, AdvanceLands, LandsHandled DEF StepFrame, turn, history
  <2>3. CASE FollowFallback(defn, w, Fallbacks(defn, wf.idx)) /\ data' = data
    BY <2>1, <2>3, <1>0, AtStepTyped, FallbacksTyped, FallbackLands, LandsHandled
       DEF StepFrame, turn, history
  <2>4. CASE Rollback(defn, w) /\ depth' = depth
    BY <2>1, <2>4, <1>0, AtStepTyped, RollbackLands, LandsHandled DEF StepFrame, turn, history
  <2>5. CASE wf' = w /\ data' = data /\ depth' = depth /\ Finish("waiting_input")
    BY <2>1, <2>5, <1>0, AtStepTyped DEF StepFrame, turn, history, Handled, Finish, PC, Result
  <2> QED BY <1>3, <2>2, <2>3, <2>4, <2>5 DEF Validate
<1>4. CASE Confirm
  <2>1. /\ AtStep("confirm") /\ UNCHANGED <<plan, attempt, pending>> /\ StepFrame
    BY <1>4 DEF Confirm
  <2>2. CASE Advance(defn, w, data) /\ data' = data
    BY <2>1, <2>2, <1>0, AtStepTyped, AdvanceLands, LandsHandled DEF StepFrame, turn, history
  <2>4. CASE Rollback(defn, w) /\ depth' = depth
    BY <2>1, <2>4, <1>0, AtStepTyped, RollbackLands, LandsHandled DEF StepFrame, turn, history
  <2>5. CASE wf' = w /\ data' = data /\ depth' = depth /\ Finish("waiting_input")
    BY <2>1, <2>5, <1>0, AtStepTyped DEF StepFrame, turn, history, Handled, Finish, PC, Result
  <2> QED BY <1>4, <2>2, <2>4, <2>5 DEF Confirm
<1>5. CASE ShowGate
  <2>1. AtStep("tool_call") /\ wf' = [w EXCEPT !.gate = defn[wf.idx].id] /\ Finish("waiting_input")
        /\ UNCHANGED <<data, depth, plan, attempt, pending>> /\ StepFrame
    BY <1>5 DEF ShowGate
  <2>2. WellFormed(wf') /\ wf'.run = wf.run /\ wf'.run # 0
    BY <2>1, AtStepTyped DEF WellFormed, WfState, Step
  <2> QED BY <2>1, <2>2, <1>0 DEF StepFrame, turn, history, Handled, Finish, PC, Result
<1>6. CASE DenyGate
  <2> DEFINE v == [w EXCEPT !.gate = NoStep]
  <2>1. AtStep("tool_call") /\ Rollback(defn, v)
        /\ UNCHANGED <<depth, plan, attempt, pending>> /\ StepFrame
    BY <1>6 DEF DenyGate
  <2>2. v \in WfState /\ WellFormed(v) /\ v.run = wf.run /\ wf.run # 0 /\ defn \in Definitions
    BY <2>1, AtStepTyped DEF WellFormed, WfState
  <2>3. Lands(v) /\ data' \in SUBSET Cells
    BY <2>1, <2>2, <1>0, RollbackLands
  <2> QED BY <2>1, <2>2, <2>3, <1>0, LandsHandled DEF StepFrame, turn, history
<1>7. CASE EnterToolCall
  <2> DEFINE v == IF defn[wf.idx].gated THEN [w EXCEPT !.gate = NoStep] ELSE w
  <2>1. AtStep("tool_call") /\ UNCHANGED <<data, attempt, pending>> /\ StepFrame
    BY <1>7 DEF EnterToolCall
  <2>2. v \in WfState /\ WellFormed(v) /\ v.run = wf.run /\ v.idx = wf.idx /\ wf.run # 0
    BY <2>1, AtStepTyped DEF WellFormed, WfState
  <2>3. CASE Advance(defn, v, data) /\ plan' = plan
    <3>1. Lands(v)
      BY <2>1, <2>2, <2>3, <1>0, AtStepTyped, AdvanceLands
    <3> QED BY <2>1, <2>2, <2>3, <3>1, <1>0, LandsHandled DEF StepFrame, turn, history
  <2>4. CASE wf' = v /\ plan' = defn /\ pc' = "tool" /\ UNCHANGED <<depth, result>>
    BY <2>1, <2>2, <2>4, <1>0, AtStepTyped DEF StepFrame, turn, history, Handled, PC, Result
  <2> QED BY <1>7, <2>3, <2>4 DEF EnterToolCall
<1>8. CASE CallTool \/ SendWebhook
  <2>1. pc \in Outside /\ calls' = calls \cup {CallOf(This)} /\ pc' \in {"calling", "hooking"}
        /\ UNCHANGED <<session, turn, depth, plan, attempt, result, pending, acks>>
    BY <1>8 DEF CallTool, SendWebhook
  <2>2. CallOf(This) \in Call
    BY <2>1, OutsideTyped, RecordsTyped
  <2> QED BY <2>1, <2>2, <1>0, OutsideTyped DEF Handled, session, turn, PC
<1>9. CASE ToolSucceeds
  <2>1. pc \in Outside /\ UNCHANGED <<plan, attempt, pending>> /\ StepFrame
    BY <1>9 DEF ToolSucceeds
  <2>2. PICK v \in Value :
          data' = IF This.out = NoField THEN data
                  ELSE Overlay(data, {[field |-> This.out, val |-> v, run |-> wf.run]})
    BY <1>9 DEF ToolSucceeds
  <2>3. This.out # NoField => {[field |-> This.out, val |-> v, run |-> wf.run]} \in SUBSET Cells
    BY <2>1, OutsideTyped DEF Cells, Cell, Step
  <2>4. data' \in SUBSET Cells
    BY <2>2, <2>3, <1>0, CellsTyped
  <2>5. Advance(plan, wf, data')
    BY <1>9 DEF ToolSucceeds
  <2> QED BY <2>1, <2>4, <2>5, <1>0, OutsideTyped, AdvanceLands, LandsHandled DEF StepFrame, turn, history
<1>10. CASE ToolFails
  <2>1. pc \in Outside /\ UNCHANGED <<plan, attempt>> /\ StepFrame
    BY <1>10 DEF ToolFails
  <2>2. CASE FollowFallback(plan, wf, Fallbacks(plan, wf.idx)) /\ UNCHANGED <<data, pending>>
    BY <2>1, <2>2, <1>0, OutsideTyped, FallbacksTyped, FallbackLands, LandsHandled
       DEF StepFrame, turn, history
  <2>3. CASE Advance(plan, wf, data) /\ UNCHANGED <<data, pending>>
    BY <2>1, <2>3, <1>0, OutsideTyped, AdvanceLands, LandsHandled DEF StepFrame, turn, history
  <2>4. CASE /\ pending' = pending \cup {EventFor("escalated", This)}
             /\ wf' = NoWf /\ data' = {} /\ depth' = depth
             /\ Finish("escalated")
    <3>1. EventFor("escalated", This) \in Event
      BY <2>1, OutsideTyped, RecordsTyped
    <3> QED BY <2>1, <2>4, <3>1, <1>0, NoWfTyped DEF StepFrame, turn, history, Handled, Finish, PC, Result
  <2>5. CASE Rollback(plan, wf) /\ UNCHANGED <<depth, pending>>
    BY <2>1, <2>5, <1>0, OutsideTyped, RollbackLands, LandsHandled DEF StepFrame, turn, history
  <2>6. CASE Finish("error") /\ UNCHANGED <<session, depth, pending>>
    BY <2>1, <2>6, <1>0, OutsideTyped DEF StepFrame, turn, history, session, Handled, Finish, PC, Result
  <2> QED BY <1>10, <2>2, <2>3, <2>4, <2>5, <2>6 DEF ToolFails
<1>11. CASE AskDecision
  <2>1. AtStep("decision") /\ wf' = w /\ UNCHANGED <<data, depth, attempt, pending>> /\ StepFrame
    BY <1>11 DEF AskDecision
  <2>2. CASE plan' = plan /\ Finish("error")
    BY <2>1, <2>2, <1>0, AtStepTyped DEF StepFrame, turn, history, Handled, Finish, PC, Result
  <2>3. CASE defn[wf.idx].bound /\ plan' = defn /\ pc' = "decide" /\ result' = result
    <3>1. defn[wf.idx].type = "decision"
      BY <2>1 DEF AtStep
    <3> QED BY <2>1, <2>3, <3>1, <1>0, AtStepTyped DEF StepFrame, turn, history, Handled, PC
  <2> QED BY <1>11, <2>1, <2>2, <2>3 DEF AskDecision
<1>12. CASE DecisionAccepted
  <2>1. pc = "decide" /\ UNCHANGED <<plan, attempt, pending>> /\ StepFrame /\ Advance(plan, wf, data')
    BY <1>12 DEF DecisionAccepted
  <2>2. PICK v \in Value :
          data' = Overlay(data, {[field |-> This.out, val |-> v, run |-> wf.run]})
    BY <1>12 DEF DecisionAccepted
  <2>3. This.out \in Field
    BY <2>1, DecisionsWrite, OutsideTyped DEF TypeInv, This
  <2>4. {[field |-> This.out, val |-> v, run |-> wf.run]} \in SUBSET Cells
    BY <2>1, <2>3, OutsideTyped DEF Cells, Cell
  <2>5. data' \in SUBSET Cells
    BY <2>2, <2>4, <1>0, CellsTyped
  <2> QED BY <2>1, <2>5, <1>0, OutsideTyped, AdvanceLands, LandsHandled DEF StepFrame, turn, history
<1>13. CASE DecisionRejected
  <2>1. /\ pc = "decide" /\ unsure' = TRUE /\ data' = Without(data, {This.out})
        /\ FollowFallback(plan, wf, SafeFallbacks(plan, wf.idx))
        /\ UNCHANGED <<plan, attempt, pending, calls, acks>>
    BY <1>13 DEF DecisionRejected, history
  <2>2. data' \in SUBSET Cells
    BY <2>1, <1>0, CellsTyped
  <2> QED BY <2>1, <2>2, <1>0, OutsideTyped, FallbacksTyped, FallbackLands, LandsHandled
<1>14. CASE PauseForReview
  <2>1. /\ AtStep("human_review") /\ wf' = [w EXCEPT !.status = "paused_for_review"]
        /\ pending' = pending \cup {EventFor("escalated", defn[wf.idx])}
        /\ Finish("escalated") /\ UNCHANGED <<data, depth, plan, attempt>> /\ StepFrame
    BY <1>14 DEF PauseForReview
  <2>2. WellFormed(wf') /\ wf'.run # 0
    BY <2>1, AtStepTyped DEF WellFormed, WfState, Status
  <2>3. EventFor("escalated", defn[wf.idx]) \in Event
    BY <2>1, <1>0, AtStepTyped, RecordsTyped
  <2> QED BY <2>1, <2>2, <2>3, <1>0 DEF StepFrame, turn, history, Handled, Finish, PC, Result
<1>15. CASE Complete
  <2>1. /\ AtStep("complete") /\ wf' = [w EXCEPT !.status = "completed"]
        /\ UNCHANGED <<data, depth>> /\ StepFrame
    BY <1>15 DEF Complete
  <2>2. WellFormed(wf') /\ wf'.run # 0 /\ wf'.idx = wf.idx
    BY <2>1, AtStepTyped DEF WellFormed, WfState, Status
  <2>3. EventFor("completed", defn[wf.idx]) \in Event
    BY <2>1, <1>0, AtStepTyped, RecordsTyped
  <2>4. CASE /\ pending' = pending \cup {EventFor("completed", defn[wf.idx])}
             /\ Finish("completed") /\ UNCHANGED <<plan, attempt>>
    BY <2>1, <2>2, <2>3, <2>4, <1>0 DEF StepFrame, turn, history, Handled, Finish, PC, Result
  <2>5. CASE pc' = "hook" /\ attempt' = 1 /\ plan' = defn /\ UNCHANGED <<pending, result>>
    BY <2>1, <2>2, <2>5, <1>0, AtStepTyped DEF StepFrame, turn, history, Handled, PC
  <2> QED BY <1>15, <2>4, <2>5 DEF Complete
<1>16. CASE WebhookDelivered
  <2>1. EventFor("completed", This) \in Event /\ KeyOf(This) \in Key
    BY <1>16, <1>0, OutsideTyped, RecordsTyped DEF WebhookDelivered
  <2> QED BY <1>16, <2>1, <1>0, OutsideTyped DEF WebhookDelivered, session, turn, Handled, Finish, PC, Result
<1>17. CASE WebhookFailed
  <2>1. pc = "hooking" /\ UNCHANGED <<data, depth, plan>> /\ StepFrame
    BY <1>17 DEF WebhookFailed
  <2>2. CASE attempt' = attempt + 1 /\ pc' = "hook" /\ UNCHANGED <<wf, pending, result>>
    BY <2>1, <2>2, <1>0, OutsideTyped DEF StepFrame, turn, history, Handled, PC
  <2>3. CASE /\ wf' = [wf EXCEPT !.status = "await_retry"]
             /\ pending' = pending \cup {EventFor("submit_failed", This)}
             /\ Finish("await_retry") /\ attempt' = attempt
    <3>1. WellFormed(wf') /\ wf'.run # 0
      BY <2>1, <2>3, OutsideTyped DEF WellFormed, WfState, Status
    <3>2. EventFor("submit_failed", This) \in Event
      BY <2>1, <1>0, OutsideTyped, RecordsTyped
    <3> QED BY <2>1, <2>3, <3>1, <3>2, <1>0 DEF StepFrame, turn, history, Handled, Finish, PC, Result
  <2> QED BY <1>17, <2>2, <2>3 DEF WebhookFailed
<1> QED BY <1>1, <1>2, <1>3, <1>4, <1>5, <1>6, <1>7, <1>8, <1>9, <1>10, <1>11, <1>12, <1>13,
           <1>14, <1>15, <1>16, <1>17 DEF Execute

LEMMA RoutingTyped ==
  ASSUME TypeInv, Route
  PROVE  TypeInv'
<1>1. PICK in \in Request :
         StartRun(in) \/ Chat(in) \/ CancelRun(in) \/ Reprompt(in) \/ Resume(in) \/ Continue(in)
  BY DEF Route
<1>2. /\ pc = "idle" /\ said' = in
      /\ UNCHANGED <<defn, saved, plan, attempt, unsure, pending, owed, published, calls, acks>>
  BY <1>1, RouteFrame
<1>3. /\ TypeOK /\ wf = saved.wf /\ data = saved.data /\ saved.wf \in WfState /\ WellFormed(wf)
      /\ wf \in WfState /\ data \in SUBSET Cells /\ depth \in Nat /\ result \in Result
      /\ runs \in 0..MaxRuns /\ defn \in Definitions
  BY <1>2 DEF TypeInv, TypeOK, WellFormed
<1> SUFFICES /\ WellFormed(wf') /\ data' \in SUBSET Cells /\ pc' \in {"step", "commit"}
             /\ start' \in BOOLEAN /\ depth' \in Nat /\ result' \in Result /\ runs' \in 0..MaxRuns
             /\ wf'.run = 0 => wf'.status = "none"
             /\ pc' = "step" => wf'.run # 0
  BY <1>2, <1>3 DEF TypeInv, TypeOK, WellFormed, Working, Outside, PC
<1> USE DEF BeginTurn, Finish
<1>4. CASE StartRun(in)
  <2>1. /\ wf' = [NoWf EXCEPT !.run = runs + 1, !.status = "in_progress"]
        /\ runs + 1 \in 1..MaxRuns
    BY <1>4, <1>3, ConstantsOK DEF StartRun
  <2>2. WellFormed(wf') /\ wf'.run = runs + 1
    <3>1. /\ runs + 1 \in 0..MaxRuns /\ "in_progress" \in Status
          /\ NoWf \in WfState /\ Len(NoWf.snaps) <= MaxSnapshots
      BY <2>1, NoWfTyped, ConstantsOK DEF WellFormed, Status
    <3>2. wf' \in WfState /\ wf'.snaps = NoWf.snaps /\ wf'.run = runs + 1
      BY <3>1, <2>1 DEF WfState
    <3> QED BY <3>1, <3>2 DEF WellFormed
  <2> QED BY <1>4, <1>3, <2>1, <2>2 DEF StartRun
<1>5. CASE Chat(in)
  BY <1>5, <1>3, NoWfTyped DEF Chat, Result
<1>6. CASE CancelRun(in)
  <2>1. wf' = [wf EXCEPT !.status = "cancelled"] /\ wf.run # 0
    BY <1>6, <1>2, <1>3 DEF CancelRun, Active, TypeInv
  <2>2. WellFormed(wf') /\ wf'.run = wf.run
    BY <2>1, <1>3 DEF WellFormed, WfState, Status
  <2> QED BY <1>6, <1>3, <2>1, <2>2 DEF CancelRun, TypeOK, Result
<1>7. CASE Reprompt(in)
  BY <1>7, <1>2, <1>3 DEF Reprompt, TypeOK, TypeInv, Result
<1>8. CASE Resume(in)
  <2>1. wf.run # 0 /\ UNCHANGED <<data, start, runs>>
    BY <1>8, <1>2, <1>3 DEF Resume, TypeInv
  <2>2. CASE Finish("error") /\ UNCHANGED <<wf, depth>>
    BY <2>1, <2>2, <1>2, <1>3 DEF TypeOK, TypeInv, Result
  <2>3. CASE wf.idx \in DOMAIN defn /\ Advance(defn, wf, data)
    <3>1. Lands(wf)
      BY <2>3, <1>3, AdvanceLands
    <3> QED BY <3>1, <2>1, <1>3 DEF Lands, TypeOK
  <2> QED BY <1>8, <2>2, <2>3 DEF Resume
<1>9. CASE Continue(in)
  BY <1>9, <1>2, <1>3 DEF Continue, TypeOK, TypeInv
<1> QED BY <1>1, <1>4, <1>5, <1>6, <1>7, <1>8, <1>9

(* A turn that ends leaves the session object as the committed row. *)
LEMMA IdleTyped ==
  ASSUME EndTurn, defn' \in Definitions,
         saved' \in [wf : WfState, data : SUBSET Cells], WellFormed(saved'.wf),
         saved'.wf.run = 0 => saved'.wf.status = "none",
         wf' = saved'.wf, data' = saved'.data,
         pending' \in SUBSET Event, runs' \in 0..MaxRuns, owed' \in SUBSET Event,
         published' \in SUBSET Event, calls' \in SUBSET Call, acks' \in SUBSET Key
  PROVE  TypeInv'
<1>1. /\ pc' = "idle" /\ start' = FALSE /\ said' = Silent /\ depth' = 0 /\ plan' = <<>>
      /\ attempt' = 0 /\ result' = "none" /\ unsure' = FALSE
  BY DEF EndTurn
<1>2. TypeOK'
  BY <1>1 DEF TypeOK, WellFormed, PC, Result
<1> QED BY <1>1, <1>2 DEF TypeInv, Working, Outside

LEMMA ImageTyped ==
  ASSUME TypeInv, saved' = Image, wf' = Image.wf, data' = Image.data
  PROVE  /\ wf' = saved'.wf /\ data' = saved'.data
         /\ saved' \in [wf : WfState, data : SUBSET Cells]
         /\ WellFormed(wf') /\ data' \in SUBSET Cells
         /\ wf'.run = 0 => wf'.status = "none"
<1>1. CASE Image = [wf |-> NoWf, data |-> {}]
  BY <1>1, NoWfTyped DEF WellFormed
<1>2. CASE Image = [wf |-> wf, data |-> data]
  BY <1>2 DEF TypeInv, TypeOK, WellFormed
<1> QED BY <1>1, <1>2 DEF Image

(* The invariant is inductive ... *)
LEMMA TypeInvStep == TypeInv /\ [Next]_vars => TypeInv'
<1> SUFFICES ASSUME TypeInv, [Next]_vars PROVE TypeInv'
  OBVIOUS
<1>0. saved \in [wf : WfState, data : SUBSET Cells] /\ saved.wf \in WfState /\ saved.data \in SUBSET Cells
      /\ WellFormed(wf) /\ WellFormed(saved.wf)
  BY DEF TypeInv, TypeOK, WellFormed
<1>1. CASE Route
  BY <1>1, RoutingTyped
<1>2. CASE Execute
  BY <1>2, ExecuteFrame, HandlersTyped
     DEF TypeInv, TypeOK, Handled, WellFormed, This, Working, Outside
<1>3. CASE StartFails
  BY <1>3, NoWfTyped DEF StartFails, Finish, StepFrame, turn, history, TypeInv, TypeOK, WellFormed, Working,
                         Outside, PC, Result
<1>4. /\ defn \in Definitions /\ pending \in SUBSET Event /\ runs \in 0..MaxRuns
      /\ owed \in SUBSET Event /\ published \in SUBSET Event /\ calls \in SUBSET Call
      /\ acks \in SUBSET Key
      /\ saved.wf.run = 0 => saved.wf.status = "none"
      /\ saved.wf.gate \in StepId \cup {NoStep}
  BY <1>0 DEF TypeInv, TypeOK, WfState
<1>5. CASE Commit
  <2>1. /\ wf' = saved'.wf /\ data' = saved'.data
        /\ saved' \in [wf : WfState, data : SUBSET Cells]
        /\ WellFormed(saved'.wf) /\ data' \in SUBSET Cells
        /\ saved'.wf.run = 0 => saved'.wf.status = "none"
        /\ saved'.wf.gate \in StepId \cup {NoStep}
    BY <1>5, ImageTyped DEF Commit, WellFormed, WfState
  <2>2. owed' \in SUBSET Event /\ UNCHANGED <<defn, runs, calls, acks>> /\ saved' = Image
    BY <1>4, <1>5 DEF Commit
  <2>3. CASE EndTurn /\ published' = published \cup pending /\ pending' = {}
    BY <1>4, <2>1, <2>2, <2>3, IdleTyped
  <2>4. CASE pc' = "flush" /\ UNCHANGED <<turn, depth, plan, attempt, result, pending, published>>
    BY <1>4, <2>1, <2>2, <2>4 DEF turn, TypeInv, TypeOK, WellFormed, Working, Outside, PC
  <2> QED BY <1>5, <2>3, <2>4 DEF Commit
<1>6. CASE FlushEvents
  <2>1. pc = "flush" /\ wf = saved.wf /\ data = saved.data
    BY <1>6 DEF FlushEvents, TypeInv
  <2>2. /\ EndTurn /\ published' \in SUBSET Event /\ pending' = {}
        /\ UNCHANGED <<defn, saved, wf, data, runs, owed, calls, acks>>
    BY <1>4, <1>6 DEF FlushEvents, session
  <2> QED BY <1>0, <1>4, <2>1, <2>2, IdleTyped
<1>7. CASE TurnAborted
  <2>1. /\ EndTurn /\ wf' = saved.wf /\ data' = saved.data /\ pending' = {}
        /\ UNCHANGED <<defn, saved, runs, owed, published, calls, acks>>
    BY <1>7 DEF TurnAborted, history
  <2> QED BY <1>0, <1>4, <2>1, IdleTyped
<1>8. CASE AbortedInCommit
  <2>1. /\ wf' = saved'.wf /\ data' = saved'.data
        /\ saved' \in [wf : WfState, data : SUBSET Cells] /\ WellFormed(saved'.wf)
        /\ saved'.wf.run = 0 => saved'.wf.status = "none"
    BY <1>8, ImageTyped DEF AbortedInCommit
  <2>2. /\ EndTurn /\ owed' \in SUBSET Event /\ pending' = {}
        /\ UNCHANGED <<defn, runs, published, calls, acks>>
    BY <1>4, <1>8 DEF AbortedInCommit
  <2> QED BY <1>4, <2>1, <2>2, IdleTyped
<1>9. CASE EditWorkflow
  BY <1>9 DEF EditWorkflow, session, turn, history, TypeInv, TypeOK, This
<1>10. CASE UNCHANGED vars
  BY <1>10 DEF vars, TypeInv, TypeOK, This
<1> QED BY <1>1, <1>2, <1>3, <1>4, <1>5, <1>6, <1>7, <1>8, <1>9, <1>10 DEF Next, Deliver

LEMMA InitTyped == Init => TypeInv
<1> SUFFICES ASSUME Init PROVE TypeInv
  OBVIOUS
<1>1. /\ saved \in [wf : WfState, data : SUBSET Cells] /\ saved.wf = NoWf
      /\ wf \in WfState /\ data \in SUBSET Cells
      /\ Len(wf.snaps) <= MaxSnapshots /\ Len(saved.wf.snaps) <= MaxSnapshots
  BY NoWfTyped DEF Init, WellFormed
<1>2. TypeOK
  <2>1. runs \in 0..MaxRuns /\ depth \in Nat /\ attempt \in Nat
    BY ConstantsOK DEF Init
  <2> QED BY <1>1, <2>1 DEF Init, TypeOK, PC, Result
<1> QED BY <1>1, <1>2, NoWfTyped DEF Init, TypeInv, Working, Outside

(* ... and so the state keeps its shape: whatever an administrator defines, a
   session never collects more than MaxSnapshots snapshots, and what a handler
   reads and queues belongs to a step that exists. *)
THEOREM TypeCorrect == Spec => []TypeOK
<1>1. TypeInv => TypeOK
  BY DEF TypeInv
<1> QED BY <1>1, InitTyped, TypeInvStep, PTL DEF Spec

-----------------------------------------------------------------------------
(* The confirmation gate. *)

(* Only the gate's own branch of process_step leads to the tool, and a step
   entered by another hears nothing. *)
LEMMA ExecuteMoves ==
  ASSUME Execute
  PROVE  /\ pc' = "step" => depth' = depth + 1
         /\ pc' = "tool" => EnterToolCall
<1> USE DEF AtStep, Finish, Advance, FollowFallback, Enter, Rollback
<1>1. CASE RefuseStep BY <1>1 DEF RefuseStep
<1>2. CASE Collect BY <1>2 DEF Collect
<1>3. CASE Validate BY <1>3 DEF Validate
<1>4. CASE Confirm BY <1>4 DEF Confirm
<1>5. CASE ShowGate BY <1>5 DEF ShowGate
<1>6. CASE DenyGate BY <1>6 DEF DenyGate
<1>7. CASE EnterToolCall BY <1>7 DEF EnterToolCall
<1>8. CASE CallTool BY <1>8 DEF CallTool
<1>9. CASE ToolSucceeds BY <1>9 DEF ToolSucceeds
<1>10. CASE ToolFails BY <1>10 DEF ToolFails
<1>11. CASE AskDecision BY <1>11 DEF AskDecision
<1>12. CASE DecisionAccepted BY <1>12 DEF DecisionAccepted
<1>13. CASE DecisionRejected BY <1>13 DEF DecisionRejected
<1>14. CASE PauseForReview BY <1>14 DEF PauseForReview
<1>15. CASE Complete BY <1>15 DEF Complete
<1>16. CASE SendWebhook BY <1>16 DEF SendWebhook
<1>17. CASE WebhookDelivered BY <1>17 DEF WebhookDelivered
<1>18. CASE WebhookFailed BY <1>18 DEF WebhookFailed
<1> QED BY <1>1, <1>2, <1>3, <1>4, <1>5, <1>6, <1>7, <1>8, <1>9, <1>10, <1>11, <1>12, <1>13,
           <1>14, <1>15, <1>16, <1>17, <1>18 DEF Execute

(* The strengthening: the first step of a turn works on the committed row, or
   on a fresh run without a gate; and what GateConfirmed asks of the call
   already holds while the tool is looked up. *)
FirstStep ==
  /\ pc = "idle" => depth = 0 /\ ~start
  /\ pc = "step" /\ depth = 0 => \/ start /\ wf.gate = NoStep
                                 \/ wf = saved.wf /\ data = saved.data
Confirmed ==
  pc = "tool" /\ This.gated =>
    /\ Affirms(said)
    /\ saved.wf.gate = This.id /\ saved.wf.run = wf.run
    /\ saved.data = data
GateInv == TypeInv /\ FirstStep /\ Confirmed

LEMMA RouteFirst ==
  ASSUME GateInv, Route
  PROVE  FirstStep' /\ Confirmed'
<1>1. PICK in \in Request :
         StartRun(in) \/ Chat(in) \/ CancelRun(in) \/ Reprompt(in) \/ Resume(in) \/ Continue(in)
  BY DEF Route
<1>2. /\ pc = "idle" /\ pc' \in {"step", "commit"} /\ saved' = saved
      /\ wf = saved.wf /\ data = saved.data /\ depth = 0
  BY <1>1, RouteFrame DEF GateInv, TypeInv, FirstStep
<1> SUFFICES ASSUME pc' = "step", depth' = 0
             PROVE  \/ start' /\ wf'.gate = NoStep
                    \/ wf' = wf /\ data' = data
  BY <1>2 DEF FirstStep, Confirmed
<1> USE DEF Finish
<1>3. CASE StartRun(in) BY <1>3, NoWfTyped DEF StartRun, NoWf
<1>4. CASE Chat(in) BY <1>4 DEF Chat
<1>5. CASE CancelRun(in) BY <1>5 DEF CancelRun
<1>6. CASE Reprompt(in) BY <1>6 DEF Reprompt
<1>7. CASE Resume(in) BY <1>7, <1>2 DEF Resume, Advance, Enter
<1>8. CASE Continue(in) BY <1>8 DEF Continue
<1> QED BY <1>1, <1>3, <1>4, <1>5, <1>6, <1>7, <1>8

(* A gate opens only on the first step of a turn, where the session object is
   the committed row: it is the gate that was shown. *)
LEMMA GateOpens ==
  ASSUME GateInv, EnterToolCall, pc' = "tool"
  PROVE  Confirmed'
<1> DEFINE step == defn[wf.idx]
<1>1. /\ pc = "step" /\ wf.idx \in DOMAIN defn /\ defn \in Definitions /\ step \in Step
      /\ wf \in WfState /\ WellFormed(wf) /\ data \in SUBSET Cells /\ depth \in Nat
  BY StepsTyped DEF EnterToolCall, AtStep, Refused, GateInv, TypeInv, TypeOK, WellFormed
<1>2. /\ GateOpen(step) /\ step.bound /\ plan' = defn /\ data' = data /\ saved' = saved /\ said' = said
      /\ wf' = IF step.gated THEN [Snap(wf, data) EXCEPT !.gate = NoStep] ELSE Snap(wf, data)
  BY DEF EnterToolCall, StepFrame, turn, Advance, Enter, Finish
<1>3. wf'.idx = wf.idx /\ wf'.run = wf.run
  BY <1>1, <1>2, SnapTyped DEF WellFormed, WfState
<1>4. This' = step
  BY <1>2, <1>3 DEF This
<1>5. ASSUME step.gated
      PROVE  /\ Affirms(said) /\ saved.wf.gate = step.id /\ saved.wf.run = wf.run /\ saved.data = data
  <2>1. wf.gate = step.id /\ Affirms(Heard)
    BY <1>2, <1>5 DEF GateOpen
  <2>2. depth = 0 /\ Affirms(said)
    BY <2>1 DEF Heard, Affirms, Silent
  <2>3. wf.gate # NoStep
    BY <1>1, <2>1, SentinelsDistinct DEF Step
  <2> QED BY <1>1, <2>1, <2>2, <2>3 DEF GateInv, FirstStep
<1> QED BY <1>2, <1>3, <1>4, <1>5 DEF Confirmed, Affirms

(* Every step keeps what the gate rests on. *)
LEMMA GateStep == GateInv /\ [Next]_vars => GateInv'
<1> SUFFICES ASSUME GateInv, [Next]_vars PROVE FirstStep' /\ Confirmed'
  BY TypeInvStep DEF GateInv
<1>1. CASE Route
  BY <1>1, RouteFirst
<1>2. CASE Execute
  <2>1. depth \in Nat /\ pc' # "idle"
    BY <1>2, ExecuteFrame DEF GateInv, TypeInv, TypeOK
  <2>2. FirstStep'
    BY <1>2, <2>1, ExecuteMoves DEF FirstStep
  <2> QED BY <1>2, <2>2, ExecuteMoves, GateOpens DEF Confirmed
<1>3. CASE StartFails
  BY <1>3 DEF StartFails, Finish, FirstStep, Confirmed
<1>4. CASE Commit
  BY <1>4 DEF Commit, EndTurn, FirstStep, Confirmed
<1>5. CASE FlushEvents \/ TurnAborted \/ AbortedInCommit
  BY <1>5 DEF FlushEvents, TurnAborted, AbortedInCommit, EndTurn, FirstStep, Confirmed
<1>6. CASE EditWorkflow
  BY <1>6 DEF EditWorkflow, session, turn, GateInv, FirstStep, Confirmed, This
<1>7. CASE UNCHANGED vars
  BY <1>7 DEF vars, GateInv, FirstStep, Confirmed, This
<1> QED BY <1>1, <1>2, <1>3, <1>4, <1>5, <1>6, <1>7 DEF Next, Deliver

(* A gated tool is called only on a yes to the gate that an earlier turn of
   the same run committed, with the data shown there: whatever the
   definitions, and although they change under the session (the
   requires_human_confirm branch of process_step). *)
THEOREM GateHolds == Spec => GateConfirmed
<1>1. Init => GateInv
  <2> SUFFICES ASSUME Init PROVE GateInv
    OBVIOUS
  <2>1. TypeInv
    BY InitTyped
  <2> QED BY <2>1 DEF Init, GateInv, FirstStep, Confirmed
<1>2. GateInv /\ [Next]_vars => GateInv'
  BY GateStep
<1>3. GateInv => (pc = "tool" /\ pc' = "calling" /\ This.gated =>
                    /\ Affirms(said)
                    /\ saved.wf.gate = This.id /\ saved.wf.run = wf.run
                    /\ saved.data = data)
  BY DEF GateInv, Confirmed
<1> QED BY <1>1, <1>2, <1>3, PTL DEF Spec, GateConfirmed

-----------------------------------------------------------------------------
(* The data of one run never reaches another. *)

(* What a session collects, and every snapshot a rollback may restore,
   belongs to its run. *)
Owned(w, d) ==
  w.run # 0 => /\ CellsOfRun(d, w.run)
               /\ \A i \in DOMAIN w.snaps : CellsOfRun(w.snaps[i].data, w.run)

(* The last k elements of a sequence are elements of it. *)
LEMMA TailElements ==
  ASSUME NEW S, NEW s \in Seq(S), NEW k \in Nat, Len(s) > k
  PROVE  \A i \in DOMAIN SubSeq(s, Len(s) - k + 1, Len(s)) :
           \E j \in DOMAIN s : SubSeq(s, Len(s) - k + 1, Len(s))[i] = s[j]
<1>1. Len(s) \in Nat /\ DOMAIN s = 1..Len(s)
  BY LenProperties
<1> DEFINE m == Len(s) - k + 1
<1>2. m \in Nat /\ 1 <= m /\ Len(s) - m + 1 = k
  BY <1>1
<1>3. \A i \in m..Len(s) : s[i] \in S
  BY <1>1, <1>2, ElementOfSeq
<1> HIDE DEF m
<1>4. /\ SubSeq(s, m, Len(s)) \in Seq(S)
      /\ Len(SubSeq(s, m, Len(s))) = IF m <= Len(s) THEN Len(s) - m + 1 ELSE 0
      /\ \A i \in 1..(Len(s) - m + 1) : SubSeq(s, m, Len(s))[i] = s[m + i - 1]
  BY <1>1, <1>2, <1>3, SubSeqProperties
<1>5. DOMAIN SubSeq(s, m, Len(s)) \subseteq 1..(Len(s) - m + 1)
  BY <1>1, <1>2, <1>4, LenProperties
<1>6. \A i \in 1..(Len(s) - m + 1) : m + i - 1 \in DOMAIN s
  BY <1>1, <1>2
<1>7. \A i \in DOMAIN SubSeq(s, m, Len(s)) : \E j \in DOMAIN s : SubSeq(s, m, Len(s))[i] = s[j]
  BY <1>4, <1>5, <1>6
<1> QED BY <1>7 DEF m

LEMMA SnapOwned ==
  ASSUME NEW w \in WfState, WellFormed(w), NEW d \in SUBSET Cells, Owned(w, d)
  PROVE  Owned(Snap(w, d), d)
<1> SUFFICES ASSUME w.run # 0 PROVE Owned(Snap(w, d), d)
  BY SnapTyped DEF Owned
<1> DEFINE e == [idx |-> w.idx, data |-> d]
           s == IF w.snaps = <<>> \/ w.snaps[Len(w.snaps)].idx # w.idx
                THEN Append(w.snaps, e) ELSE w.snaps
           t == IF Len(s) > MaxSnapshots
                THEN SubSeq(s, Len(s) - MaxSnapshots + 1, Len(s)) ELSE s
<1>1. w.snaps \in Seq(Snapshot) /\ e \in Snapshot
  BY DEF WfState, Snapshot
<1>2. s \in Seq(Snapshot) /\ Len(s) \in Nat /\ DOMAIN s = 1..Len(s)
  BY <1>1, AppendProperties, LenProperties
<1>3. \A i \in DOMAIN s : CellsOfRun(s[i].data, w.run)
  <2>1. \A i \in DOMAIN w.snaps : CellsOfRun(w.snaps[i].data, w.run)
    BY DEF Owned
  <2>2. CellsOfRun(e.data, w.run)
    BY DEF Owned
  <2> QED BY <1>1, <2>1, <2>2, AppendProperties, LenProperties
<1>4. \A i \in DOMAIN t : CellsOfRun(t[i].data, w.run)
  <2>1. CASE Len(s) <= MaxSnapshots
    BY <2>1, <1>2, <1>3, ConstantsOK
  <2>2. CASE Len(s) > MaxSnapshots
    <3>1. t = SubSeq(s, Len(s) - MaxSnapshots + 1, Len(s))
      BY <2>2
    <3> HIDE DEF s, t
    <3>2. MaxSnapshots \in Nat
      BY ConstantsOK
    <3>3. \A i \in DOMAIN SubSeq(s, Len(s) - MaxSnapshots + 1, Len(s)) :
            \E j \in DOMAIN s : SubSeq(s, Len(s) - MaxSnapshots + 1, Len(s))[i] = s[j]
      BY ONLY <3>2, <1>2, <2>2, TailElements
    <3> QED BY <3>1, <3>3, <1>3
  <2>3. Len(s) <= MaxSnapshots \/ Len(s) > MaxSnapshots
    BY <1>2, ConstantsOK
  <2> QED BY <2>1, <2>2, <2>3
<1>5. Snap(w, d) = [w EXCEPT !.snaps = t]
  BY DEF Snap
<1>6. Snap(w, d).snaps = t /\ Snap(w, d).run = w.run
  BY <1>5 DEF WfState
<1> QED BY <1>4, <1>6 DEF Owned

LEMMA RollbackOwned ==
  ASSUME NEW steps \in Definitions, NEW w \in WfState, WellFormed(w), Owned(w, data), w.run # 0,
         Rollback(steps, w)
  PROVE  Owned(wf', data')
<1>1. CASE wf' = w /\ data' = data
  BY <1>1
<1>2. ASSUME NEW i \in EditTargets(steps, w),
             wf' = [w EXCEPT !.idx = w.snaps[i].idx, !.status = "in_progress", !.gate = NoStep,
                             !.snaps = SubSeq(w.snaps, 1, i)],
             data' = w.snaps[i].data
      PROVE  Owned(wf', data')
  <2>1. w.snaps \in Seq(Snapshot) /\ i \in 1..Len(w.snaps) /\ DOMAIN w.snaps = 1..Len(w.snaps)
    BY LenProperties DEF EditTargets, WfState
  <2>2. wf'.run = w.run /\ wf'.snaps = SubSeq(w.snaps, 1, i)
    BY <1>2 DEF WfState
  <2>3. DOMAIN SubSeq(w.snaps, 1, i) = 1..i /\ \A j \in 1..i : SubSeq(w.snaps, 1, i)[j] = w.snaps[j]
    <3>1. \A j \in 1..i : w.snaps[j] \in Snapshot
      BY <2>1, ElementOfSeq, LenProperties
    <3> QED BY <3>1, <2>1, SubSeqProperties, LenProperties
  <2>4. \A j \in 1..Len(w.snaps) : CellsOfRun(w.snaps[j].data, w.run)
    BY <2>1 DEF Owned
  <2>5. 1..i \subseteq 1..Len(w.snaps)
    BY <2>1, LenProperties
  <2> QED BY <1>2, <2>1, <2>2, <2>3, <2>4, <2>5 DEF Owned
<1> QED BY <1>1, <1>2 DEF Rollback

(* Leaving the snapshots alone and writing only cells of the run. *)
LEMMA KeptOwned ==
  ASSUME NEW w, Owned(w, data), w.run # 0, wf'.run = w.run, wf'.snaps = w.snaps,
         CellsOfRun(data', w.run)
  PROVE  Owned(wf', data')
BY DEF Owned

LEMMA WrittenOwned ==
  ASSUME NEW d, NEW new, NEW fs, NEW r, CellsOfRun(d, r), CellsOfRun(new, r)
  PROVE  CellsOfRun(Overlay(d, new), r) /\ CellsOfRun(Without(d, fs), r)
BY DEF CellsOfRun, Overlay, Without

-----------------------------------------------------------------------------
LEMMA HandlersIsolate ==
  ASSUME TypeInv, Execute, Owned(wf, data)
  PROVE  Owned(wf', data')
<1> DEFINE w == Snap(wf, data)
<1>0. /\ pc \in Working /\ wf.run # 0 /\ wf \in WfState /\ WellFormed(wf) /\ data \in SUBSET Cells
      /\ depth \in Nat /\ result \in Result /\ defn \in Definitions /\ CellsOfRun(data, wf.run)
  BY ExecuteFrame DEF TypeInv, TypeOK, WellFormed, PC, Working, Owned
<1>1. /\ w \in WfState /\ WellFormed(w) /\ w.run = wf.run /\ w.idx = wf.idx
      /\ w.run # 0 /\ Owned(w, data) /\ CellsOfRun(data, w.run)
  BY <1>0, SnapTyped, SnapOwned DEF WellFormed
<1>2. CASE RefuseStep \/ CallTool \/ SendWebhook \/ WebhookDelivered
  BY <1>2 DEF RefuseStep, CallTool, SendWebhook, WebhookDelivered, session
<1>3. CASE Collect
  <2>1. wf.idx \in DOMAIN defn
    BY <1>3, AtStepTyped DEF Collect
  <2>2. CASE Advance(defn, w, data) /\ data' = data
    BY <1>0, <1>1, <2>1, <2>2, AdvanceLands, KeptOwned DEF Lands
  <2>3. CASE wf' = w /\ data' = data
    BY <1>1, <2>3
  <2>4. ASSUME NEW answer, NEW refused, NEW blanked,
               data' = Without(Overlay(data, Entered(defn[wf.idx], answer)), refused \cup blanked),
               Advance(defn, w, data') \/ wf' = w
        PROVE  Owned(wf', data')
    <3>1. CellsOfRun(Entered(defn[wf.idx], answer), wf.run)
      BY DEF Entered, CellsOfRun
    <3>2. CellsOfRun(data', wf.run)
      BY <1>0, <2>4, <3>1, WrittenOwned
    <3>3. wf'.run = w.run /\ wf'.snaps = w.snaps
      BY <1>0, <1>1, <2>1, <2>4, AdvanceLands DEF Lands
    <3> QED BY <1>1, <3>2, <3>3, KeptOwned
  <2> QED BY <1>3, <2>2, <2>3, <2>4 DEF Collect
<1>4. CASE Validate
  <2>1. wf.idx \in DOMAIN defn
    BY <1>4, AtStepTyped DEF Validate
  <2>2. CASE Advance(defn, w, data) /\ data' = data
    BY <1>0, <1>1, <2>1, <2>2, AdvanceLands, KeptOwned DEF Lands
  <2>3. CASE FollowFallback(defn, w, Fallbacks(defn, wf.idx)) /\ data' = data
    BY <1>0, <1>1, <2>3, FallbacksTyped, FallbackLands, KeptOwned DEF Lands
  <2>4. CASE Rollback(defn, w)
    BY <1>0, <1>1, <2>4, RollbackOwned
  <2>5. CASE wf' = w /\ data' = data
    BY <1>1, <2>5
  <2> QED BY <1>4, <2>2, <2>3, <2>4, <2>5 DEF Validate
<1>5. CASE Confirm
  <2>1. wf.idx \in DOMAIN defn
    BY <1>5, AtStepTyped DEF Confirm
  <2>2. CASE Advance(defn, w, data) /\ data' = data
    BY <1>0, <1>1, <2>1, <2>2, AdvanceLands, KeptOwned DEF Lands
  <2>3. CASE Rollback(defn, w)
    BY <1>0, <1>1, <2>3, RollbackOwned
  <2>4. CASE wf' = w /\ data' = data
    BY <1>1, <2>4
  <2> QED BY <1>5, <2>2, <2>3, <2>4 DEF Confirm
<1>6. CASE ShowGate
  <2>1. wf' = [w EXCEPT !.gate = defn[wf.idx].id] /\ data' = data
    BY <1>6 DEF ShowGate
  <2>2. wf'.run = w.run /\ wf'.snaps = w.snaps
    BY <1>1, <2>1 DEF WfState
  <2> QED BY <1>1, <2>1, <2>2, KeptOwned
<1>7. ASSUME DenyGate \/ EnterToolCall
      PROVE  Owned(wf', data')
  <2> DEFINE v == [w EXCEPT !.gate = NoStep]
  <2>1. /\ v \in WfState /\ WellFormed(v) /\ v.run = w.run /\ v.idx = wf.idx /\ v.snaps = w.snaps
        /\ Owned(v, data)
    BY <1>1 DEF WellFormed, WfState, Owned
  <2>2. wf.idx \in DOMAIN defn
    BY <1>7, AtStepTyped DEF DenyGate, EnterToolCall
  <2>3. CASE Rollback(defn, v)
    BY <1>0, <1>1, <2>1, <2>3, RollbackOwned
  <2>4. ASSUME NEW u \in {v, w}, Advance(defn, u, data) \/ wf' = u, data' = data
        PROVE  Owned(wf', data')
    <3>1. wf'.run = u.run /\ wf'.snaps = u.snaps
      BY <1>0, <1>1, <2>1, <2>2, <2>4, AdvanceLands DEF Lands
    <3> QED BY <1>1, <2>1, <2>4, <3>1, KeptOwned
  <2> QED BY <1>7, <2>3, <2>4 DEF DenyGate, EnterToolCall
<1>8. ASSUME ToolSucceeds \/ DecisionAccepted
      PROVE  Owned(wf', data')
  <2>1. wf.idx \in DOMAIN plan /\ plan \in Definitions
    BY <1>8, OutsideTyped DEF ToolSucceeds, DecisionAccepted, Outside
  <2>2. CellsOfRun(data', wf.run) /\ Advance(plan, wf, data')
    <3>1. \A v \in Value : \A f : CellsOfRun({[field |-> f, val |-> v, run |-> wf.run]}, wf.run)
      BY DEF CellsOfRun
    <3> QED BY <1>0, <1>8, <3>1, WrittenOwned DEF ToolSucceeds, DecisionAccepted
  <2> QED BY <1>0, <2>1, <2>2, AdvanceLands, KeptOwned DEF Lands
<1>9. CASE ToolFails
  <2>1. wf.idx \in DOMAIN plan /\ plan \in Definitions
    BY <1>9, OutsideTyped DEF ToolFails, Outside
  <2>2. CASE FollowFallback(plan, wf, Fallbacks(plan, wf.idx)) /\ data' = data
    BY <1>0, <2>1, <2>2, FallbacksTyped, FallbackLands, KeptOwned DEF Lands
  <2>3. CASE Advance(plan, wf, data) /\ data' = data
    BY <1>0, <2>1, <2>3, AdvanceLands, KeptOwned DEF Lands
  <2>4. CASE wf' = NoWf
    BY <2>4, NoWfTyped DEF Owned
  <2>5. CASE Rollback(plan, wf)
    BY <1>0, <2>1, <2>5, RollbackOwned
  <2>6. CASE UNCHANGED session
    BY <2>6 DEF session
  <2> QED BY <1>9, <2>2, <2>3, <2>4, <2>5, <2>6 DEF ToolFails
<1>10. CASE AskDecision
  BY <1>1, <1>10 DEF AskDecision
<1>11. CASE DecisionRejected
  <2>1. plan \in Definitions
    BY <1>11, OutsideTyped DEF DecisionRejected, Outside
  <2>2. CellsOfRun(data', wf.run) /\ FollowFallback(plan, wf, SafeFallbacks(plan, wf.idx))
    BY <1>0, <1>11, WrittenOwned DEF DecisionRejected
  <2> QED BY <1>0, <2>1, <2>2, FallbacksTyped, FallbackLands, KeptOwned DEF Lands
<1>12. CASE PauseForReview \/ Complete
  <2>1. PICK st : wf' = [w EXCEPT !.status = st] /\ data' = data
    BY <1>12 DEF PauseForReview, Complete
  <2>2. wf'.run = w.run /\ wf'.snaps = w.snaps
    BY <1>1, <2>1 DEF WfState
  <2> QED BY <1>1, <2>1, <2>2, KeptOwned
<1>13. CASE WebhookFailed
  <2>1. wf' = wf \/ wf' = [wf EXCEPT !.status = "await_retry"]
    BY <1>13 DEF WebhookFailed
  <2>2. wf'.run = wf.run /\ wf'.snaps = wf.snaps /\ data' = data
    BY <1>0, <1>13, <2>1 DEF WebhookFailed, WfState
  <2> QED BY <1>0, <2>2, KeptOwned
<1> QED BY <1>2, <1>3, <1>4, <1>5, <1>6, <1>7, <1>8, <1>9, <1>10, <1>11, <1>12, <1>13 DEF Execute

(* A run starts with nothing collected; otherwise routing keeps the data of
   the run it continues, or empties it. *)
LEMMA RoutingIsolates ==
  ASSUME TypeInv, Route, Owned(wf, data)
  PROVE  Owned(wf', data')
<1>1. PICK in \in Request :
         StartRun(in) \/ Chat(in) \/ CancelRun(in) \/ Reprompt(in) \/ Resume(in) \/ Continue(in)
  BY DEF Route
<1>2. wf \in WfState /\ WellFormed(wf) /\ depth \in Nat /\ result \in Result /\ defn \in Definitions
  BY DEF TypeInv, TypeOK, WellFormed
<1>3. CASE StartRun(in)
  <2>1. wf' = [NoWf EXCEPT !.run = runs + 1, !.status = "in_progress"] /\ data' = {}
    BY <1>3 DEF StartRun
  <2>2. wf'.snaps = <<>>
    BY <2>1 DEF NoWf
  <2>3. DOMAIN wf'.snaps = {}
    BY <2>2
  <2> QED BY <2>1, <2>3 DEF Owned, CellsOfRun
<1>4. CASE Chat(in)
  BY <1>4, NoWfTyped DEF Chat, Owned
<1>5. CASE CancelRun(in)
  <2>1. wf'.run = wf.run /\ wf'.snaps = wf.snaps /\ data' = {}
    BY <1>2, <1>5 DEF CancelRun, WfState
  <2> QED BY <2>1 DEF Owned, CellsOfRun
<1>6. CASE Reprompt(in) \/ Continue(in)
  BY <1>6 DEF Reprompt, Continue
<1>7. CASE Resume(in)
  <2>1. wf.run # 0 /\ data' = data
    BY <1>7 DEF Resume, BeginTurn, TypeInv
  <2>2. CASE wf' = wf
    BY <2>1, <2>2
  <2>3. CASE wf.idx \in DOMAIN defn /\ Advance(defn, wf, data)
    BY <1>2, <2>1, <2>3, AdvanceLands, KeptOwned DEF Lands, Owned
  <2> QED BY <1>7, <2>2, <2>3 DEF Resume
<1> QED BY <1>1, <1>3, <1>4, <1>5, <1>6, <1>7

IsolationInv ==
  /\ TypeInv
  /\ Owned(wf, data) /\ Owned(saved.wf, saved.data)
  /\ \A k \in calls : CellsOfRun(k.payload, k.run)

(* The data of one ticket never appears in another: not in the live state,
   not in a snapshot a rollback would restore, not in a payload sent out
   (_make_workflow_handler, _cancel_active_workflow, _perform_rollback). *)
THEOREM Isolation == Spec => []RunIsolation
<1>1. Init => IsolationInv
  <2> SUFFICES ASSUME Init PROVE IsolationInv
    OBVIOUS
  <2>1. Owned(NoWf, {})
    BY NoWfTyped DEF Owned
  <2> QED BY <2>1, InitTyped DEF Init, IsolationInv
<1>2. IsolationInv /\ [Next]_vars => IsolationInv'
  <2> SUFFICES ASSUME IsolationInv, [Next]_vars
               PROVE  /\ Owned(wf, data)' /\ Owned(saved.wf, saved.data)'
                      /\ \A k \in calls' : CellsOfRun(k.payload, k.run)
    BY TypeInvStep DEF IsolationInv
  <2>0. TypeInv /\ Owned(wf, data) /\ Owned(saved.wf, saved.data)
    BY DEF IsolationInv
  <2>1. CASE Route
    <3>1. saved' = saved /\ calls' = calls
      BY <2>1, RouteFrame DEF Route
    <3> QED BY <2>0, <2>1, <3>1, RoutingIsolates DEF IsolationInv
  <2>2. CASE Execute
    <3>1. saved' = saved
      BY <2>2, ExecuteFrame
    <3>2. calls' = calls \/ calls' = calls \cup {CallOf(This)}
      BY <2>2 DEF Execute, RefuseStep, Collect, Validate, Confirm, ShowGate, DenyGate, EnterToolCall,
                  CallTool, ToolSucceeds, ToolFails, AskDecision, DecisionAccepted, DecisionRejected,
                  PauseForReview, Complete, SendWebhook, WebhookDelivered, WebhookFailed,
                  StepFrame, history
    <3>3. wf.run # 0
      BY <2>0, <2>2, ExecuteFrame DEF TypeInv, TypeOK, PC, Working
    <3>4. CellsOfRun(CallOf(This).payload, CallOf(This).run)
      BY <2>0, <3>3 DEF CallOf, Owned
    <3> QED BY <2>0, <2>2, <3>1, <3>2, <3>4, HandlersIsolate DEF IsolationInv
  <2>3. CASE StartFails
    BY <2>0, <2>3, NoWfTyped DEF StartFails, StepFrame, history, IsolationInv, Owned
  <2>4. CASE Commit \/ AbortedInCommit
    <3>1. saved' = Image /\ wf' = Image.wf /\ data' = Image.data /\ calls' = calls
      BY <2>4 DEF Commit, AbortedInCommit
    <3>2. Owned(Image.wf, Image.data)
      BY <2>0, NoWfTyped DEF Image, Owned
    <3> QED BY <3>1, <3>2 DEF IsolationInv
  <2>5. CASE FlushEvents
    BY <2>5 DEF FlushEvents, session, IsolationInv
  <2>6. CASE TurnAborted
    BY <2>6 DEF TurnAborted, history, IsolationInv
  <2>7. CASE EditWorkflow
    BY <2>7 DEF EditWorkflow, session, history, IsolationInv
  <2>8. CASE UNCHANGED vars
    BY <2>8 DEF vars, IsolationInv
  <2> QED BY <2>1, <2>2, <2>3, <2>4, <2>5, <2>6, <2>7, <2>8 DEF Next, Deliver
<1>3. IsolationInv => RunIsolation
  BY DEF IsolationInv, RunIsolation, Owned
<1> QED BY <1>1, <1>2, <1>3, PTL DEF Spec

-----------------------------------------------------------------------------
(* Announcements, and the life of a ticket. *)

Completed(events) == {e \in events : e.kind = "completed"}
Hooked == pc \in {"hook", "hooking"} => wf.status = "completed"

-----------------------------------------------------------------------------
(* The event a handler may queue ends the turn's steps, and a completion is of  *)
(* the run at hand, marked as completed and taken by its endpoint, if it has one. *)
Announced(e) ==
  /\ pending' = {e} /\ pc' = "commit"
  /\ e.kind = "completed" =>
       /\ e.run = wf.run /\ wf'.run = wf.run /\ wf'.status = "completed"
       /\ e.webhook => [run |-> e.run, step |-> e.step] \in acks'

LEMMA HandlersAnnounce ==
  ASSUME TypeInv, Execute, pending = {}, Hooked
  PROVE  /\ pending' = {} \/ \E e : Announced(e)
         /\ Hooked' /\ acks \subseteq acks'
<1> USE DEF AtStep, Finish, StepFrame, history, session, Hooked
<1>0. wf \in WfState /\ data \in SUBSET Cells /\ WellFormed(wf)
  BY DEF TypeInv, TypeOK, WellFormed
<1>1. ASSUME RefuseStep \/ Collect \/ Validate \/ Confirm \/ ShowGate \/ DenyGate \/ EnterToolCall
             \/ CallTool \/ ToolSucceeds \/ AskDecision \/ DecisionAccepted \/ DecisionRejected
      PROVE  pending' = {} /\ pc' \notin {"hook", "hooking"} /\ acks' = acks
  <2> USE DEF Advance, FollowFallback, Enter, Rollback
  <2>1. CASE RefuseStep BY <2>1 DEF RefuseStep
  <2>2. CASE Collect BY <2>2 DEF Collect
  <2>3. CASE Validate BY <2>3 DEF Validate
  <2>4. CASE Confirm BY <2>4 DEF Confirm
  <2>5. CASE ShowGate BY <2>5 DEF ShowGate
  <2>6. CASE DenyGate BY <2>6 DEF DenyGate
  <2>7. CASE EnterToolCall BY <2>7 DEF EnterToolCall
  <2>8. CASE CallTool BY <2>8 DEF CallTool
  <2>9. CASE ToolSucceeds BY <2>9 DEF ToolSucceeds
  <2>10. CASE AskDecision BY <2>10 DEF AskDecision
  <2>11. CASE DecisionAccepted BY <2>11 DEF DecisionAccepted
  <2>12. CASE DecisionRejected BY <2>12 DEF DecisionRejected
  <2> QED BY <1>1, <2>1, <2>2, <2>3, <2>4, <2>5, <2>6, <2>7, <2>8, <2>9, <2>10, <2>11, <2>12
<1>2. CASE ToolFails
  <2>1. pc' \notin {"hook", "hooking"} /\ acks' = acks
    BY <1>2 DEF ToolFails, Advance, FollowFallback, Enter, Rollback
  <2>2. CASE pending' = pending
    BY <2>1, <2>2
  <2>3. CASE pending' = pending \cup {EventFor("escalated", This)} /\ pc' = "commit"
    <3>1. EventFor("escalated", This).kind # "completed"
      BY DEF EventFor
    <3>2. pending' = {EventFor("escalated", This)}
      BY <2>3
    <3>3. Announced(EventFor("escalated", This))
      BY <2>3, <3>1, <3>2 DEF Announced
    <3> QED BY <2>1, <3>3
  <2> QED BY <1>2, <2>2, <2>3 DEF ToolFails
<1>3. CASE PauseForReview
  <2> DEFINE e == EventFor("escalated", defn[wf.idx])
  <2>1. pending' = {e} /\ pc' = "commit" /\ acks' = acks
    BY <1>3 DEF PauseForReview
  <2>2. e.kind # "completed"
    BY DEF EventFor
  <2>3. Announced(e)
    BY <2>1, <2>2 DEF Announced
  <2> QED BY <2>1, <2>3
<1>4. CASE Complete
  <2>1. Snap(wf, data) \in WfState /\ Snap(wf, data).run = wf.run
    BY <1>0, SnapTyped DEF WellFormed
  <2>2. wf' = [Snap(wf, data) EXCEPT !.status = "completed"] /\ acks' = acks
    BY <1>4 DEF Complete
  <2>3. wf'.run = wf.run /\ wf'.status = "completed"
    BY <2>1, <2>2 DEF WfState
  <2>4. CASE pc' = "hook" /\ UNCHANGED pending
    BY <2>2, <2>3, <2>4
  <2>5. CASE ~Submits(defn[wf.idx]) /\ pc' = "commit"
             /\ pending' = pending \cup {EventFor("completed", defn[wf.idx])}
    <3> DEFINE e == EventFor("completed", defn[wf.idx])
    <3>1. e.run = wf.run /\ ~e.webhook /\ pending' = {e}
      BY <2>5 DEF EventFor, Submits
    <3>2. Announced(e)
      BY <2>3, <2>5, <3>1 DEF Announced
    <3> QED BY <2>2, <2>5, <3>2
  <2> QED BY <1>4, <2>4, <2>5 DEF Complete, Submits
<1>5. CASE SendWebhook
  BY <1>5 DEF SendWebhook
<1>6. CASE WebhookDelivered
  <2> DEFINE e == EventFor("completed", This)
  <2>1. pending' = {e} /\ pc' = "commit" /\ wf' = wf /\ acks' = acks \cup {KeyOf(This)} /\ pc = "hooking"
    BY <1>6 DEF WebhookDelivered
  <2>2. e.run = wf.run /\ [run |-> e.run, step |-> e.step] = KeyOf(This)
    BY DEF EventFor, KeyOf
  <2>3. Announced(e)
    BY <2>1, <2>2 DEF Announced
  <2> QED BY <2>1, <2>3
<1>7. CASE WebhookFailed
  <2>1. acks' = acks /\ pc = "hooking"
    BY <1>7 DEF WebhookFailed
  <2>2. CASE pc' = "hook" /\ UNCHANGED <<wf, pending, result>>
    BY <2>1, <2>2
  <2>3. CASE pc' = "commit" /\ pending' = pending \cup {EventFor("submit_failed", This)}
    <3> DEFINE e == EventFor("submit_failed", This)
    <3>1. e.kind # "completed" /\ pending' = {e}
      BY <2>3 DEF EventFor
    <3>2. Announced(e)
      BY <2>3, <3>1 DEF Announced
    <3> QED BY <2>1, <2>3, <3>2
  <2> QED BY <1>7, <2>2, <2>3 DEF WebhookFailed
<1> QED BY <1>1, <1>2, <1>3, <1>4, <1>5, <1>6, <1>7 DEF Execute

-----------------------------------------------------------------------------
(* The strengthening: a turn has queued nothing while it works, and what it     *)
(* queued when it comes to its commit is the announcement of its last step.     *)
AnnounceInv ==
  /\ TypeInv /\ Hooked
  /\ pc \notin {"commit", "flush"} => pending = {}
  /\ pc = "commit" => \A e \in Completed(pending) :
                        e.run = wf.run /\ wf.run # 0 /\ wf.status = "completed"
  /\ OneEventPerTurn /\ HonestCompletion

(* Nothing is queued, owed or announced before the first turn. *)
LEMMA AnnounceInit == Init => AnnounceInv
BY InitTyped DEF Init, AnnounceInv, Hooked, Completed, OneEventPerTurn, HonestCompletion

(* What is queued in a turn is at most one event, of the run the turn works on,
   and every way a turn is cut drops it. *)
LEMMA AnnounceStep == AnnounceInv /\ [Next]_vars => AnnounceInv'
<1> SUFFICES ASSUME AnnounceInv, [Next]_vars
             PROVE  /\ Hooked'
                    /\ pc' \notin {"commit", "flush"} => pending' = {}
                    /\ pc' = "commit" => \A e \in Completed(pending') :
                                           e.run = wf'.run /\ wf'.run # 0 /\ wf'.status = "completed"
                    /\ OneEventPerTurn' /\ HonestCompletion'
  BY TypeInvStep DEF AnnounceInv
<1> USE DEF AnnounceInv, Completed, OneEventPerTurn, HonestCompletion
<1>1. CASE Route
  <2>1. pc = "idle" /\ pc' \in {"step", "commit"} /\ UNCHANGED <<pending, owed, acks>>
    BY <1>1, RouteFrame DEF Route
  <2> QED BY <2>1 DEF Hooked
<1>2. CASE Execute
  <2>1. pc \in Working /\ wf.run # 0 /\ pending = {} /\ owed' = owed
    BY <1>2, ExecuteFrame DEF TypeInv, TypeOK, PC, Working
  <2>2. Hooked' /\ acks \subseteq acks' /\ (pending' = {} \/ \E e : Announced(e))
    BY <1>2, <2>1, HandlersAnnounce
  <2> QED BY <2>1, <2>2 DEF Announced
<1>3. CASE StartFails
  BY <1>3 DEF StartFails, Finish, StepFrame, history, Hooked
<1>4. CASE Commit
  <2>1. pc = "commit" /\ acks' = acks /\ owed' = owed \cup pending
    BY <1>4 DEF Commit
  <2>2. (pc' = "idle" /\ pending' = {}) \/ (pc' = "flush" /\ pending' = pending)
    BY <1>4 DEF Commit, EndTurn
  <2> QED BY <2>1, <2>2 DEF Hooked
<1>5. CASE FlushEvents \/ TurnAborted
  BY <1>5 DEF FlushEvents, TurnAborted, EndTurn, history, Hooked
<1>6. CASE AbortedInCommit
  BY <1>6 DEF AbortedInCommit, EndTurn, Hooked
<1>7. CASE EditWorkflow \/ UNCHANGED vars
  BY <1>7 DEF EditWorkflow, session, history, vars, Hooked
<1> QED BY <1>1, <1>2, <1>3, <1>4, <1>5, <1>6, <1>7 DEF Next, Deliver

(* A turn announces at most one thing, however many steps it runs through, and a    *)
(* completion only when the endpoint of its webhook has taken it, whatever retries,  *)
(* failures and cuts came before (_queue_event and the handlers that end in it,      *)
(* _deliver_complete_webhook).                                                      *)
THEOREM Honest == Spec => []AnnouncedHonestly
<1>1. AnnounceInv => AnnouncedHonestly
  BY DEF AnnounceInv, AnnouncedHonestly
<1> QED BY <1>1, AnnounceInit, AnnounceStep, PTL DEF Spec

-----------------------------------------------------------------------------
(* A handler keeps the run it works on, or drops the workflow. *)
LEMMA HandlersKeepRun ==
  ASSUME TypeInv, Execute
  PROVE  wf' = NoWf \/ wf'.run = wf.run
<1> DEFINE w == Snap(wf, data)
<1>0. /\ wf \in WfState /\ WellFormed(wf) /\ data \in SUBSET Cells
      /\ depth \in Nat /\ result \in Result /\ defn \in Definitions
  BY DEF TypeInv, TypeOK, WellFormed
<1>1. w \in WfState /\ WellFormed(w) /\ w.run = wf.run /\ w.idx = wf.idx
  BY <1>0, SnapTyped DEF WellFormed
<1> HIDE DEF w
<1>2. CASE RefuseStep \/ CallTool \/ SendWebhook \/ WebhookDelivered
  BY <1>2 DEF RefuseStep, CallTool, SendWebhook, WebhookDelivered, session
<1>3. ASSUME NEW steps \in Definitions, NEW v \in WfState, WellFormed(v), v.run = wf.run,
             \/ v.idx \in DOMAIN steps /\ \E d : Advance(steps, v, d)
             \/ \E ts \in SUBSET Nat : FollowFallback(steps, v, ts)
             \/ Rollback(steps, v) /\ depth' = depth
             \/ wf' = v
      PROVE  wf'.run = wf.run
  BY <1>0, <1>3, AdvanceLands, FallbackLands, RollbackLands DEF Lands
<1>4. CASE Collect
  <2>1. wf.idx \in DOMAIN defn
    BY <1>4, AtStepTyped DEF Collect
  <2>2. (\E d : Advance(defn, w, d)) \/ wf' = w
    BY <1>4 DEF Collect, w
  <2> QED BY <1>0, <1>1, <1>3, <2>1, <2>2
<1>5. CASE Validate
  <2>1. wf.idx \in DOMAIN defn /\ Fallbacks(defn, wf.idx) \in SUBSET Nat
    BY <1>0, <1>5, AtStepTyped, FallbacksTyped DEF Validate
  <2>2. \/ Advance(defn, w, data) \/ FollowFallback(defn, w, Fallbacks(defn, wf.idx))
        \/ (Rollback(defn, w) /\ depth' = depth) \/ wf' = w
    BY <1>5 DEF Validate, w
  <2> QED BY <1>0, <1>1, <1>3, <2>1, <2>2
<1>6. CASE Confirm
  <2>1. wf.idx \in DOMAIN defn
    BY <1>6, AtStepTyped DEF Confirm
  <2>2. Advance(defn, w, data) \/ (Rollback(defn, w) /\ depth' = depth) \/ wf' = w
    BY <1>6 DEF Confirm, w
  <2> QED BY <1>0, <1>1, <1>3, <2>1, <2>2
<1>7. ASSUME ShowGate \/ DenyGate \/ EnterToolCall
      PROVE  wf'.run = wf.run
  <2> DEFINE v == [w EXCEPT !.gate = NoStep]
             u == [w EXCEPT !.gate = defn[wf.idx].id]
  <2>1. wf.idx \in DOMAIN defn /\ defn[wf.idx] \in Step
    BY <1>7, AtStepTyped DEF ShowGate, DenyGate, EnterToolCall
  <2>2. v \in WfState /\ WellFormed(v) /\ v.run = wf.run /\ v.idx = wf.idx
    BY <1>1 DEF WellFormed, WfState
  <2>3. u.run = wf.run
    BY <1>1 DEF WfState
  <2>4. \/ wf' = u \/ (Rollback(defn, v) /\ depth' = depth)
        \/ Advance(defn, v, data) \/ Advance(defn, w, data) \/ wf' = v \/ wf' = w
    BY <1>7 DEF ShowGate, DenyGate, EnterToolCall, w
  <2> QED BY <1>0, <1>1, <1>3, <2>1, <2>2, <2>3, <2>4
<1>8. ASSUME ToolSucceeds \/ ToolFails \/ DecisionAccepted \/ DecisionRejected
      PROVE  wf' = NoWf \/ wf'.run = wf.run
  <2>1. plan \in Definitions /\ wf.idx \in DOMAIN plan
    BY <1>8, OutsideTyped DEF ToolSucceeds, ToolFails, DecisionAccepted, DecisionRejected, Outside
  <2>2. Fallbacks(plan, wf.idx) \in SUBSET Nat /\ SafeFallbacks(plan, wf.idx) \in SUBSET Nat
    BY <2>1, FallbacksTyped
  <2>3. \/ (\E d : Advance(plan, wf, d)) \/ (\E ts \in SUBSET Nat : FollowFallback(plan, wf, ts))
        \/ (Rollback(plan, wf) /\ depth' = depth) \/ wf' = wf \/ wf' = NoWf
    BY <1>8, <2>2 DEF ToolSucceeds, ToolFails, DecisionAccepted, DecisionRejected, session
  <2> QED BY <1>0, <1>3, <2>1, <2>3
<1>9. CASE AskDecision
  BY <1>1, <1>9 DEF AskDecision, w
<1>10. CASE PauseForReview \/ Complete
  <2>1. PICK st : wf' = [w EXCEPT !.status = st]
    BY <1>10 DEF PauseForReview, Complete, w
  <2> QED BY <1>1, <2>1 DEF WfState
<1>11. CASE WebhookFailed
  <2>1. wf' = wf \/ wf' = [wf EXCEPT !.status = "await_retry"]
    BY <1>11 DEF WebhookFailed
  <2> QED BY <1>0, <2>1 DEF WfState
<1> QED BY <1>2, <1>4, <1>5, <1>6, <1>7, <1>8, <1>9, <1>10, <1>11 DEF Execute

-----------------------------------------------------------------------------
(* The life of a ticket. *)

(* The strengthening: a turn works on the run the database shows as open, or,   *)
(* when there is none, on one begun last, of which nothing was committed.       *)
OwnRun(run) ==
  IF Active THEN run = saved.wf.run
  ELSE run = runs /\ \A e \in Completed(owed) : e.run # run

LifeInv ==
  /\ AnnounceInv /\ EventInv
  /\ saved.wf.run <= runs
  /\ \A e \in Completed(owed) : e.run <= runs
  /\ pc \notin {"idle", "flush"} /\ wf.run # 0 => OwnRun(wf.run)

(* The types of the run numbers, and that an open ticket has one. *)
LEMMA NumbersTyped ==
  ASSUME TypeInv
  PROVE  /\ runs \in Nat /\ saved.wf.run \in Nat /\ wf.run \in Nat
         /\ \A e \in Completed(owed) : e.run \in Nat
         /\ Active => saved.wf.run # 0
  BY ConstantsOK DEF TypeInv, TypeOK, WfState, Event, Completed, Active

(* No ticket has begun. *)
LEMMA LifeInit == Init => LifeInv
<1> SUFFICES ASSUME Init PROVE LifeInv
  OBVIOUS
<1>1. AnnounceInv /\ EventInv
  BY AnnounceInit DEF Init, EventInv, NoPhantomEvents
<1> QED BY <1>1, NoWfTyped DEF Init, LifeInv, Completed

(* What a message begins, or finds. *)
LEMMA RouteOwn ==
  ASSUME LifeInv, Route
  PROVE  /\ wf'.run # 0 => OwnRun(wf.run)'
         /\ \/ runs' = runs
            \/ ~Active /\ runs < MaxRuns /\ runs' = runs + 1
<1>1. PICK in \in Request :
         StartRun(in) \/ Chat(in) \/ CancelRun(in) \/ Reprompt(in) \/ Resume(in) \/ Continue(in)
  BY DEF Route
<1>2. TypeInv /\ pc = "idle" /\ UNCHANGED <<saved, owed>>
  BY <1>1, RouteFrame DEF LifeInv, AnnounceInv
<1>3. wf = saved.wf /\ wf \in WfState /\ WellFormed(wf) /\ depth \in Nat /\ result \in Result
      /\ defn \in Definitions
  BY <1>2 DEF TypeInv, TypeOK, WellFormed
<1>4. Active' = Active
  BY <1>2 DEF Active
<1>5. CASE StartRun(in)
  <2>1. ~Active /\ runs < MaxRuns /\ runs' = runs + 1 /\ wf' = [NoWf EXCEPT !.run = runs + 1, !.status = "in_progress"]
    BY <1>5 DEF StartRun
  <2>2. wf'.run = runs'
    BY <2>1 DEF NoWf
  <2>3. \A e \in Completed(owed) : e.run # runs'
    BY <1>2, <2>1, NumbersTyped DEF LifeInv
  <2> QED BY <1>2, <1>4, <2>1, <2>2, <2>3 DEF OwnRun, Completed
<1>6. CASE Chat(in)
  BY <1>6, NoWfTyped DEF Chat
<1>7. CASE CancelRun(in) \/ Reprompt(in) \/ Resume(in) \/ Continue(in)
  <2>1. Active /\ runs' = runs
    BY <1>7 DEF CancelRun, Reprompt, Resume, Continue, Active
  <2>2. wf'.run = wf.run
    <3>1. CASE CancelRun(in)
      BY <1>3, <3>1 DEF CancelRun, WfState
    <3>2. CASE Reprompt(in) \/ Continue(in)
      BY <3>2 DEF Reprompt, Continue
    <3>3. CASE Resume(in)
      <4>1. wf' = wf \/ (wf.idx \in DOMAIN defn /\ Advance(defn, wf, data))
        BY <3>3 DEF Resume
      <4> QED BY <1>3, <4>1, AdvanceLands DEF Lands
    <3> QED BY <1>7, <3>1, <3>2, <3>3
  <2> QED BY <1>2, <1>3, <1>4, <2>1, <2>2 DEF OwnRun
<1> QED BY <1>1, <1>5, <1>6, <1>7

(* What a commit makes of the ticket: the row keeps the run, or closes it. *)
LEMMA CommitOwn ==
  ASSUME LifeInv, pc = "commit"
  PROVE  /\ Image.wf = NoWf \/ Image.wf = wf
         /\ Image.wf.run <= runs
         /\ \A e \in Completed(pending) :
              e.run = wf.run /\ wf.run # 0 /\ wf.status = "completed" /\ e.run <= runs
         /\ wf.run # 0 => OwnRun(wf.run)
<1>1. Image.wf = NoWf \/ Image.wf = wf
  BY DEF Image
<1>2. TypeInv
  BY DEF LifeInv, AnnounceInv
<1>3. wf.run # 0 => OwnRun(wf.run)
  BY DEF LifeInv
<1>4. wf.run <= runs
  BY <1>2, <1>3, NumbersTyped DEF OwnRun, LifeInv
<1> QED BY <1>1, <1>2, <1>3, <1>4, NoWfTyped, NumbersTyped DEF LifeInv, AnnounceInv

(* A commit owes what the turn queued and the hand-over publishes what is owed. *)
LEMMA EventStep == EventInv /\ [Next]_vars => EventInv'
<1> SUFFICES ASSUME EventInv, [Next]_vars PROVE EventInv'
  OBVIOUS
<1> USE DEF EventInv, NoPhantomEvents
<1>1. CASE Route
  BY <1>1, RouteFrame DEF Route
<1>2. CASE Execute
  BY <1>2, ExecuteFrame
<1>3. CASE StartFails
  BY <1>3 DEF StartFails, Finish, StepFrame, history
<1>4. CASE Commit \/ FlushEvents \/ AbortedInCommit
  BY <1>4 DEF Commit, FlushEvents, AbortedInCommit, EndTurn
<1>5. CASE TurnAborted
  BY <1>5 DEF TurnAborted, EndTurn, history
<1>6. CASE EditWorkflow \/ UNCHANGED vars
  BY <1>6 DEF EditWorkflow, history, vars
<1> QED BY <1>1, <1>2, <1>3, <1>4, <1>5, <1>6 DEF Next, Deliver

(* Every step keeps the numbering: an open ticket is the last one begun, and not completed. *)
LEMMA LifeStep == LifeInv /\ [Next]_vars => LifeInv'
<1> SUFFICES ASSUME LifeInv, [Next]_vars
             PROVE  /\ saved'.wf.run <= runs'
                    /\ \A e \in Completed(owed') : e.run <= runs'
                    /\ pc' \notin {"idle", "flush"} /\ wf'.run # 0 => OwnRun(wf.run)'
  BY AnnounceStep, EventStep DEF LifeInv, Completed
<1>0. TypeInv /\ saved.wf.run <= runs /\ \A e \in Completed(owed) : e.run <= runs
  BY DEF LifeInv, AnnounceInv
<1>1. CASE Route
  <2>1. UNCHANGED <<saved, owed>>
    BY <1>1, RouteFrame DEF Route
  <2>2. runs' = runs \/ runs' = runs + 1
    BY <1>1, RouteOwn
  <2> QED BY <1>0, <1>1, <2>1, <2>2, RouteOwn, NumbersTyped
<1>2. CASE Execute
  <2>1. pc \notin {"idle", "flush"} /\ UNCHANGED <<saved, owed, runs>>
    BY <1>2, ExecuteFrame
  <2>2. wf' = NoWf \/ wf'.run = wf.run
    BY <1>0, <1>2, HandlersKeepRun
  <2> QED BY <1>0, <2>1, <2>2, NoWfTyped DEF LifeInv, OwnRun, Active
<1>3. CASE StartFails
  BY <1>0, <1>3, NoWfTyped DEF StartFails, StepFrame, history
<1>4. CASE Commit \/ AbortedInCommit
  <2>1. pc = "commit" /\ saved' = Image /\ owed' = owed \cup pending /\ runs' = runs
        /\ pc' \in {"idle", "flush"}
    BY <1>4 DEF Commit, AbortedInCommit, EndTurn
  <2> QED BY <1>0, <2>1, CommitOwn DEF Completed
<1>5. CASE FlushEvents \/ TurnAborted
  BY <1>0, <1>5 DEF FlushEvents, TurnAborted, EndTurn, history
<1>6. CASE EditWorkflow \/ UNCHANGED vars
  BY <1>0, <1>6 DEF EditWorkflow, session, history, vars, LifeInv, OwnRun, Active
<1> QED BY <1>1, <1>2, <1>3, <1>4, <1>5, <1>6 DEF Next, Deliver

(* Every step of a turn is a step of the ticket's life, or none. *)
LEMMA StepsAsPromised == LifeInv /\ [Next]_vars => [Life!Next]_(Life!vars)
<1> SUFFICES ASSUME LifeInv, [Next]_vars PROVE [Life!Next]_(Life!vars)
  OBVIOUS
<1> DEFINE opened == IF Active THEN saved.wf.run ELSE 0
           finished == {e.run : e \in {e \in owed : e.kind = "completed"}}
           heard == {e.run : e \in {e \in published : e.kind = "completed"}}
<1>0. TypeInv /\ published \subseteq owed
  BY DEF LifeInv, AnnounceInv, EventInv, NoPhantomEvents
<1>1. ASSUME UNCHANGED <<saved, owed, published, runs>>
      PROVE  UNCHANGED Life!vars
  BY <1>1 DEF Life!vars, Active
<1>2. CASE Route
  <2>1. UNCHANGED <<saved, owed, published>>
    BY <1>2, RouteFrame DEF Route
  <2>2. CASE ~Active /\ runs < MaxRuns /\ runs' = runs + 1
    <3>1. opened = 0 /\ opened' = opened /\ finished' = finished /\ heard' = heard
      BY <2>1, <2>2 DEF Active
    <3>2. Life!Begin
      BY <2>2, <3>1 DEF Life!Begin
    <3> QED BY <3>2 DEF Life!Next
  <2> QED BY <1>1, <1>2, <2>1, <2>2, RouteOwn
<1>3. CASE Execute
  BY <1>1, <1>3, ExecuteFrame
<1>4. CASE StartFails \/ TurnAborted \/ EditWorkflow \/ UNCHANGED vars
  BY <1>1, <1>4 DEF StartFails, StepFrame, TurnAborted, EditWorkflow, history, vars
<1>5. CASE FlushEvents
  <2>1. pending \subseteq owed /\ UNCHANGED <<saved, owed, runs>> /\ published' = published \cup pending
    BY <1>5 DEF FlushEvents, LifeInv, EventInv
  <2>2. opened' = opened /\ finished' = finished /\ heard \subseteq heard' /\ heard' \subseteq finished'
    BY <1>0, <2>1 DEF Active
  <2>3. Life!Turn
    BY <2>1, <2>2 DEF Life!Turn, Life!Stay
  <2> QED BY <2>3 DEF Life!Next
<1>6. CASE Commit \/ AbortedInCommit
  <2>1. /\ pc = "commit" /\ saved' = Image /\ owed' = owed \cup pending /\ runs' = runs
        /\ published' \in {published, published \cup pending}
    BY <1>6 DEF Commit, AbortedInCommit
  <2>2. heard \subseteq heard' /\ heard' \subseteq finished'
    BY <1>0, <2>1
  <2>3. Image.wf \in {NoWf, wf}
    BY <2>1, CommitOwn
  <2>4. \/ finished' = finished
        \/ /\ finished' = finished \cup {wf.run}
           /\ wf.run # 0 /\ wf.status = "completed"
    <3>1. CASE Completed(pending) = {}
      BY <2>1, <3>1 DEF Completed
    <3>2. CASE Completed(pending) # {}
      <4>1. PICK e \in Completed(pending) : TRUE
        BY <3>2
      <4>2. \A f \in Completed(pending) : f.run = wf.run /\ wf.run # 0 /\ wf.status = "completed"
        BY <2>1, CommitOwn
      <4>3. finished' = finished \cup {wf.run}
        BY <2>1, <4>1, <4>2 DEF Completed
      <4> QED BY <4>1, <4>2, <4>3
    <3> QED BY <3>1, <3>2
  <2>5. Active' <=> Image.wf = wf /\ wf.status \in {"in_progress", "paused_for_review", "await_retry"}
    BY <2>1, <2>3, NoWfTyped DEF Active
  <2>6. Active' => wf.run # 0 /\ saved'.wf = wf
    BY <2>1, <2>5, <1>0 DEF TypeInv
  <2>7. wf.run # 0 => OwnRun(wf.run)
    BY <2>1, CommitOwn
  <2>8. runs \in Nat /\ (Active => saved.wf.run # 0)
    BY <1>0, NumbersTyped
  <2>9. CASE Active
    <3>1. CASE Active'
      <4>1. opened' = opened /\ finished' = finished
        BY <2>4, <2>5, <2>6, <2>7, <2>9, <3>1 DEF OwnRun
      <4> QED BY <2>1, <2>2, <4>1 DEF Life!Next, Life!Turn, Life!Stay
    <3>2. CASE ~Active'
      <4>1. opened # 0 /\ opened' = 0
        BY <2>8, <2>9, <3>2
      <4>2. finished' = finished \/ finished' = finished \cup {opened}
        BY <2>4, <2>7, <2>9 DEF OwnRun
      <4> QED BY <2>1, <2>2, <4>1, <4>2 DEF Life!Next, Life!Turn, Life!Give, Life!Complete
    <3> QED BY <3>1, <3>2
  <2>10. CASE ~Active
    <3>0. opened = 0 /\ (wf.run # 0 => wf.run = runs /\ wf.run \notin finished)
      BY <2>7, <2>10 DEF OwnRun, Completed
    <3>1. CASE Active'
      <4>1. opened' = runs /\ finished' = finished /\ runs # 0 /\ runs \notin finished
        BY <2>4, <2>5, <2>6, <3>0, <3>1
      <4> QED BY <2>1, <2>2, <3>0, <4>1 DEF Life!Next, Life!Turn, Life!Open
    <3>2. CASE ~Active'
      <4>1. opened' = opened
        BY <2>10, <3>2
      <4>2. \/ finished' = finished
            \/ finished' = finished \cup {runs} /\ runs # 0 /\ runs \notin finished
        BY <2>4, <3>0
      <4> QED BY <2>1, <2>2, <3>0, <4>1, <4>2
              DEF Life!Next, Life!Turn, Life!Stay, Life!OpenAndComplete
    <3> QED BY <3>1, <3>2
  <2> QED BY <2>9, <2>10
<1> QED BY <1>2, <1>3, <1>4, <1>5, <1>6 DEF Next, Deliver

(* Seen from outside, a session's tickets live as TicketLife says, whatever     *)
(* definitions, messages, failures and cuts their turns meet                    *)
(* (AgentRuntime._save_session, _finalize_workflow_turn, pending_events).       *)
THEOREM Implements == Spec => LivesAsPromised
<1>1. Init => Life!Init
  BY NoWfTyped DEF Init, Life!Init, Active
<1> QED BY <1>1, LifeInit, LifeStep, StepsAsPromised, PTL DEF Spec, LivesAsPromised, Life!Spec

-----------------------------------------------------------------------------
(* What a turn may call out for. *)

(* The strengthening that every definition keeps although it changes under the session:
   the ticket the database shows as open was not completed, and a turn that works was
   sent what its ticket waits for. *)
WaitInv ==
  /\ LifeInv
  /\ Active => \A e \in Completed(owed) : e.run # saved.wf.run
  /\ pc \in Working => WaitedFor

(* Routing lets a turn work only on the message its ticket waits for. *)
LEMMA RouteWaits ==
  ASSUME Route
  PROVE  pc' \in Working => WaitedFor'
<1>1. PICK in \in Request :
         StartRun(in) \/ Chat(in) \/ CancelRun(in) \/ Reprompt(in) \/ Resume(in) \/ Continue(in)
  BY DEF Route
<1>2. said' = in /\ saved' = saved
  BY <1>1, RouteFrame
<1> USE DEF Finish, WaitedFor, Active, Working
<1>3. CASE StartRun(in) BY <1>2, <1>3 DEF StartRun
<1>4. CASE Chat(in) BY <1>4 DEF Chat
<1>5. CASE CancelRun(in) BY <1>5 DEF CancelRun
<1>6. CASE Reprompt(in) BY <1>6 DEF Reprompt
<1>7. CASE Resume(in) BY <1>2, <1>7 DEF Resume, Advance, Enter
<1>8. CASE Continue(in) BY <1>2, <1>8 DEF Continue, Unmoved
<1> QED BY <1>1, <1>3, <1>4, <1>5, <1>6, <1>7, <1>8

(* The commit of a completion closes its ticket; every other step keeps who is open. *)
LEMMA WaitStep == WaitInv /\ [Next]_vars => WaitInv'
<1> SUFFICES ASSUME WaitInv, [Next]_vars
             PROVE  /\ Active' => \A e \in Completed(owed') : e.run # saved'.wf.run
                    /\ pc' \in Working => WaitedFor'
  BY LifeStep DEF WaitInv, Completed
<1>0. TypeInv /\ LifeInv
  BY DEF WaitInv, LifeInv, AnnounceInv
<1>1. CASE Route
  <2>1. UNCHANGED <<saved, owed>>
    BY <1>1, RouteFrame DEF Route
  <2> QED BY <1>0, <1>1, <2>1, RouteWaits DEF WaitInv, Active
<1>2. CASE Execute
  <2>1. pc \in Working /\ UNCHANGED <<saved, owed, said>>
    BY <1>0, <1>2, ExecuteFrame DEF Working, TypeInv, TypeOK, PC
  <2> QED BY <2>1 DEF WaitInv, Active, WaitedFor
<1>3. CASE StartFails
  BY <1>3 DEF StartFails, Finish, StepFrame, history, WaitInv, Active, Working
<1>4. CASE Commit \/ AbortedInCommit
  <2>1. pc = "commit" /\ saved' = Image /\ owed' = owed \cup pending /\ pc' \notin Working
    BY <1>4 DEF Commit, AbortedInCommit, EndTurn, Working
  <2>2. SUFFICES ASSUME Active', NEW e \in Completed(owed) \cup Completed(pending)
                 PROVE  e.run # saved'.wf.run
    BY <2>1 DEF Completed
  <2>3. Image.wf = wf
    BY <1>0, <2>1, <2>2, CommitOwn, NoWfTyped DEF Active
  <2>4. wf.run # 0 /\ OwnRun(wf.run) /\ wf.status # "completed"
    BY <1>0, <2>1, <2>2, <2>3, CommitOwn DEF Active, TypeInv
  <2>5. Completed(pending) = {}
    BY <1>0, <2>1, <2>4, CommitOwn
  <2> QED BY <2>1, <2>2, <2>3, <2>4, <2>5 DEF OwnRun, WaitInv
<1>5. CASE FlushEvents \/ TurnAborted
  BY <1>5 DEF FlushEvents, TurnAborted, EndTurn, history, WaitInv, Active, Working
<1>6. CASE EditWorkflow \/ UNCHANGED vars
  BY <1>6 DEF EditWorkflow, session, turn, history, vars, WaitInv, Active, WaitedFor
<1> QED BY <1>1, <1>2, <1>3, <1>4, <1>5, <1>6 DEF Next, Deliver

(* Nothing is open before the first turn. *)
LEMMA WaitInit == Init => WaitInv
BY LifeInit DEF Init, WaitInv, Active, Working, NoWf

(* So whatever calls out in a turn may. *)
LEMMA OpenTicket ==
  ASSUME WaitInv, pc \in Working
  PROVE  WaitedFor /\ StillOpen
<1>1. TypeInv /\ wf.run # 0
  BY DEF WaitInv, LifeInv, AnnounceInv, TypeInv
<1>2. OwnRun(wf.run)
  BY <1>1 DEF WaitInv, LifeInv, Working
<1> QED BY <1>2 DEF OwnRun, WaitInv, StillOpen, Completed

(* Whatever an administrator does to the definition meanwhile, a turn calls out in a
   ticket that waits only after the message it waits for, and never for a ticket whose
   completion was committed (_continue_active_workflow, _finalize_workflow_turn). *)
THEOREM Awaited == Spec => [][CallsOut => WaitedFor /\ StillOpen]_vars
<1>1. WaitInv => (CallsOut => WaitedFor /\ StillOpen)
  BY OpenTicket DEF CallsOut, Working
<1> QED BY <1>1, WaitInit, WaitStep, PTL DEF Spec

(* While the definition stands, the gate a session holds is that of its step; a step
   whose external call is under way was read from it and has no gate; a turn that hears
   a no at a confirmation has not got past it; and a step entered after a decision that
   was not accepted calls nothing. *)
GateAt(w) ==
  w.gate # NoStep => /\ w.idx \in DOMAIN defn
                     /\ defn[w.idx].type = "tool_call" /\ defn[w.idx].gated /\ defn[w.idx].id = w.gate
                     /\ w.status # "paused_for_review"
CallsNothing(step) == step.type = "human_review" \/ (step.type = "complete" /\ ~step.webhook)

AskInv ==
  /\ WaitInv /\ GateInv
  /\ GateAt(wf) /\ GateAt(saved.wf)
  /\ pc \in Working /\ start => ~Active
  /\ pc \in Outside => plan = defn /\ wf.gate = NoStep
  /\ pc = "step" => wf.status \in {"in_progress", "await_retry"}
  /\ pc \in Working /\ AtConfirmation /\ Denies(said) => pc = "step" /\ depth = 0
  /\ unsure => \/ pc \in {"commit", "flush"}
               \/ pc = "step" /\ wf.idx \in DOMAIN defn /\ CallsNothing(defn[wf.idx])

(* Where a handler leaves the workflow: at its commit, or at a step entered afresh. *)
Moved ==
  /\ pc' \in {"step", "commit"} /\ wf'.gate = NoStep
  /\ pc' = "step" => wf'.status = "in_progress"

(* Advancing, falling back, rolling back and staying all move the workflow so. *)
LEMMA HelpersMove ==
  ASSUME NEW steps, NEW w \in WfState, w.gate = NoStep,
         \/ \E d : Advance(steps, w, d)
         \/ \E ts : FollowFallback(steps, w, ts)
         \/ Rollback(steps, w)
         \/ wf' = w /\ pc' = "commit"
  PROVE  Moved
<1> USE DEF Moved
<1>1. ASSUME NEW n, Enter(steps, w, n) PROVE Moved
  BY <1>1 DEF Enter, Finish, WfState
<1>2. CASE \E d : Advance(steps, w, d)
  BY <1>1, <1>2 DEF Advance, Finish, WfState
<1>3. CASE \E ts : FollowFallback(steps, w, ts)
  BY <1>1, <1>3 DEF FollowFallback, Finish, WfState
<1>4. CASE Rollback(steps, w)
  BY <1>4 DEF Rollback, Finish, WfState
<1>5. CASE wf' = w /\ pc' = "commit"
  BY <1>5
<1> QED BY <1>2, <1>3, <1>4, <1>5

(* What a step handler does with the gate. *)
Gated ==
  /\ GateAt(wf)'
  /\ pc' \in Outside => plan' = defn /\ wf'.gate = NoStep
  /\ pc' = "step" => wf'.status \in {"in_progress", "await_retry"}

(* Every handler keeps the gate with its step. *)
LEMMA HandlersGate ==
  ASSUME AskInv, Execute
  PROVE  Gated
<1> DEFINE w == Snap(wf, data)
<1>0. /\ wf \in WfState /\ data \in SUBSET Cells /\ GateAt(wf) /\ defn' = defn
  BY ExecuteFrame DEF AskInv, GateInv, TypeInv, TypeOK
<1>1. w \in WfState /\ w.run = wf.run /\ w.idx = wf.idx /\ w.gate = wf.gate /\ w.status = wf.status
  <2>1. WellFormed(wf)
    BY DEF AskInv, GateInv, TypeInv, TypeOK, WellFormed
  <2>2. w.gate = wf.gate /\ w.status = wf.status
    BY <1>0 DEF Snap, WfState
  <2> QED BY <1>0, <2>1, <2>2, SnapTyped DEF WellFormed
<1> HIDE DEF w
<1>2. Moved => Gated
  BY DEF Moved, Gated, GateAt, Outside
<1>3. CASE RefuseStep
  BY <1>0, <1>3 DEF RefuseStep, Finish, session, Gated, GateAt, Outside
<1>4. ASSUME Collect \/ Validate \/ Confirm
      PROVE  Moved
  <2>1. w.gate = NoStep
    BY <1>0, <1>1, <1>4 DEF Collect, Validate, Confirm, AtStep, GateAt
  <2>2. \/ \E d : Advance(defn, w, d)
        \/ \E ts : FollowFallback(defn, w, ts)
        \/ Rollback(defn, w)
        \/ wf' = w /\ pc' = "commit"
    BY <1>4 DEF Collect, Validate, Confirm, Finish, w
  <2> QED BY <1>1, <2>1, <2>2, HelpersMove
<1>5. CASE ShowGate
  <2>1. wf.idx \in DOMAIN defn /\ defn[wf.idx].type = "tool_call" /\ defn[wf.idx].gated
    BY <1>5 DEF ShowGate, AtStep, Refused, GateOpen
  <2>2. wf' = [w EXCEPT !.gate = defn[wf.idx].id] /\ pc' = "commit"
    BY <1>5 DEF ShowGate, Finish, w
  <2>3. wf.status # "paused_for_review"
    BY <1>5 DEF ShowGate, AtStep, AskInv
  <2>4. wf'.idx = wf.idx /\ wf'.gate = defn[wf.idx].id /\ wf'.status = wf.status
    BY <1>1, <2>2 DEF WfState
  <2> QED BY <1>0, <2>1, <2>2, <2>3, <2>4 DEF Gated, GateAt, Outside
<1>6. ASSUME DenyGate \/ EnterToolCall
      PROVE  Gated
  <2> DEFINE v == IF defn[wf.idx].gated THEN [w EXCEPT !.gate = NoStep] ELSE w
  <2>1. v.gate = NoStep /\ v \in WfState
    BY <1>0, <1>1 DEF GateAt, WfState
  <2>2. \/ Rollback(defn, v) \/ Advance(defn, v, data)
        \/ wf' = v /\ plan' = defn /\ pc' = "tool"
    BY <1>6 DEF DenyGate, EnterToolCall, w
  <2> HIDE DEF v
  <2>3. CASE Rollback(defn, v) \/ Advance(defn, v, data)
    BY <1>2, <2>1, <2>3, HelpersMove
  <2>4. CASE wf' = v /\ plan' = defn /\ pc' = "tool"
    BY <2>1, <2>4 DEF Gated, GateAt
  <2> QED BY <2>2, <2>3, <2>4
<1>7. CASE CallTool \/ SendWebhook \/ WebhookDelivered
  <2>1. wf' = wf /\ plan' = plan /\ pc' # "step" /\ pc \in Outside
    BY <1>7 DEF CallTool, SendWebhook, WebhookDelivered, session, Finish, Outside
  <2> QED BY <1>0, <2>1 DEF AskInv, Gated, GateAt
<1>8. ASSUME ToolSucceeds \/ ToolFails \/ DecisionAccepted \/ DecisionRejected
      PROVE  Moved
  <2>1. wf.gate = NoStep
    BY <1>8 DEF ToolSucceeds, ToolFails, DecisionAccepted, DecisionRejected, AskInv, Outside
  <2>2. \/ \E d : Advance(plan, wf, d)
        \/ \E ts : FollowFallback(plan, wf, ts)
        \/ Rollback(plan, wf)
        \/ wf' = wf /\ pc' = "commit"
        \/ wf' = NoWf /\ pc' = "commit"
    BY <1>8 DEF ToolSucceeds, ToolFails, DecisionAccepted, DecisionRejected, session, Finish
  <2> QED BY <1>0, <2>1, <2>2, HelpersMove, NoWfTyped DEF Moved
<1>9. CASE AskDecision \/ PauseForReview \/ Complete
  <2>1. w.gate = NoStep
    BY <1>0, <1>1, <1>9 DEF AskDecision, PauseForReview, Complete, AtStep, GateAt
  <2>2. \/ wf' = w
        \/ wf' = [w EXCEPT !.status = "paused_for_review"]
        \/ wf' = [w EXCEPT !.status = "completed"]
    BY <1>9 DEF AskDecision, PauseForReview, Complete, w
  <2>3. wf'.gate = NoStep
    BY <1>1, <2>1, <2>2 DEF WfState
  <2>4. pc' # "step" /\ (pc' \in Outside => plan' = defn)
    BY <1>9 DEF AskDecision, PauseForReview, Complete, Finish, Outside
  <2> QED BY <2>3, <2>4 DEF Gated, GateAt
<1>10. CASE WebhookFailed
  <2>1. wf.gate = NoStep /\ plan = defn /\ plan' = plan /\ pc' # "step"
    BY <1>10 DEF WebhookFailed, AskInv, Outside, Finish
  <2>2. wf' = wf \/ wf' = [wf EXCEPT !.status = "await_retry"]
    BY <1>10 DEF WebhookFailed
  <2>3. wf'.gate = NoStep
    BY <1>0, <2>1, <2>2 DEF WfState
  <2> QED BY <2>1, <2>3 DEF Gated, GateAt
<1> QED BY <1>2, <1>3, <1>4, <1>5, <1>6, <1>7, <1>8, <1>9, <1>10 DEF Execute

(* A no at a confirmation leads back, in the first step of its turn. *)
LEMMA NoLeadsBack ==
  ASSUME AskInv, Execute, AtConfirmation, Denies(said)
  PROVE  pc' = "commit"
<1>1. /\ pc = "step" /\ depth = 0 /\ Heard = said /\ ~start
      /\ ~Affirms(said)
  BY ExecuteFrame DEF AskInv, GateInv, TypeInv, TypeOK, PC, Working, AtConfirmation, Active, Heard, Affirms, Denies
<1>2. wf = saved.wf
  BY <1>1 DEF AskInv, GateInv, FirstStep
<1>3. \/ wf.idx \notin DOMAIN defn
      \/ defn[wf.idx].type = "tool_call" /\ defn[wf.idx].gated /\ defn[wf.idx].id = wf.gate
      \/ defn[wf.idx].type = "confirm"
  BY <1>2 DEF AtConfirmation, AskInv, GateAt
<1>4. \/ RefuseStep \/ Confirm \/ ShowGate \/ DenyGate \/ EnterToolCall
  BY <1>1, <1>3 DEF Execute, Collect, Validate, CallTool, ToolSucceeds, ToolFails, AskDecision,
     DecisionAccepted, DecisionRejected, PauseForReview, Complete, SendWebhook, WebhookDelivered,
     WebhookFailed, AtStep, Refused
<1>5. CASE RefuseStep
  BY <1>5 DEF RefuseStep, Finish
<1>6. CASE Confirm
  BY <1>1, <1>6 DEF Confirm, Rollback, Finish
<1>7. CASE ShowGate
  BY <1>7 DEF ShowGate, Finish
<1>8. CASE DenyGate
  BY <1>8 DEF DenyGate, Rollback, Finish
<1>9. CASE EnterToolCall
  BY <1>1, <1>3, <1>9 DEF EnterToolCall, AtStep, Refused, GateOpen
<1> QED BY <1>4, <1>5, <1>6, <1>7, <1>8, <1>9

(* A step entered after a decision that was not accepted ends the turn. *)
LEMMA UnsureEnds ==
  ASSUME AskInv, Execute, unsure
  PROVE  pc' = "commit"
<1>1. pc = "step" /\ wf.idx \in DOMAIN defn /\ CallsNothing(defn[wf.idx])
  BY ExecuteFrame DEF AskInv
<1>2. RefuseStep \/ PauseForReview \/ Complete
  BY <1>1 DEF CallsNothing, Execute, Collect, Validate, Confirm, ShowGate, DenyGate, EnterToolCall,
     CallTool, ToolSucceeds, ToolFails, AskDecision, DecisionAccepted, DecisionRejected,
     SendWebhook, WebhookDelivered, WebhookFailed, AtStep
<1>3. CASE RefuseStep
  BY <1>3 DEF RefuseStep, Finish
<1>4. CASE PauseForReview
  BY <1>4 DEF PauseForReview, Finish
<1>5. CASE Complete
  BY <1>1, <1>5 DEF Complete, Submits, AtStep, CallsNothing, Finish
<1> QED BY <1>2, <1>3, <1>4, <1>5

(* A decision that was not accepted leads to the commit or to a step that calls nothing. *)
LEMMA RejectedIsSafe ==
  ASSUME AskInv, DecisionRejected
  PROVE  pc' = "commit" \/ (pc' = "step" /\ wf'.idx \in DOMAIN defn /\ CallsNothing(defn[wf'.idx]))
<1>1. plan = defn /\ wf \in WfState
  BY DEF AskInv, GateInv, TypeInv, TypeOK, DecisionRejected, Outside
<1>2. \/ pc' = "commit"
      \/ \E n \in SafeFallbacks(defn, wf.idx) : Enter(defn, wf, n)
  BY <1>1 DEF DecisionRejected, FollowFallback, Finish
<1>3. ASSUME NEW n \in SafeFallbacks(defn, wf.idx), Enter(defn, wf, n), pc' # "commit"
      PROVE  pc' = "step" /\ wf'.idx \in DOMAIN defn /\ CallsNothing(defn[wf'.idx])
  <2>1. pc' = "step" /\ wf'.idx = n /\ Automatic(defn[n])
    BY <1>1, <1>3 DEF Enter, Finish, WfState
  <2>2. n \in DOMAIN defn /\ SafeFallback(defn[n])
    BY <1>3 DEF SafeFallbacks, Fallbacks, IndexOf, First
  <2> QED BY <2>1, <2>2 DEF SafeFallback, Automatic, DisplayOnly, Editable, CallsNothing
<1> QED BY <1>2, <1>3

(* Nothing else makes a turn unsure, or sure again. *)
LEMMA UnsureFrame ==
  ASSUME Execute, ~DecisionRejected
  PROVE  unsure' = unsure
BY DEF Execute, RefuseStep, Collect, Validate, Confirm, ShowGate, DenyGate, EnterToolCall, CallTool,
   ToolSucceeds, ToolFails, AskDecision, DecisionAccepted, PauseForReview, Complete, SendWebhook,
   WebhookDelivered, WebhookFailed, StepFrame, turn

(* What routing makes of a committed gate. *)
LEMMA RouteAsks ==
  ASSUME AskInv, Route
  PROVE  /\ GateAt(wf)' /\ unsure' = unsure
         /\ pc' \in Working => /\ wf'.status \in {"in_progress", "await_retry"}
                               /\ start' => ~Active
                               /\ AtConfirmation => depth' = 0
<1>1. PICK in \in Request :
         StartRun(in) \/ Chat(in) \/ CancelRun(in) \/ Reprompt(in) \/ Resume(in) \/ Continue(in)
  BY DEF Route
<1>2. /\ pc = "idle" /\ UNCHANGED <<defn, saved, unsure>> /\ wf = saved.wf /\ GateAt(wf) /\ wf \in WfState
      /\ depth = 0 /\ ~start
  BY <1>1, RouteFrame DEF AskInv, GateInv, FirstStep, TypeInv, TypeOK
<1> USE DEF Finish, Active, Working, AtConfirmation
<1>3. CASE StartRun(in)
  BY <1>2, <1>3, NoWfTyped DEF StartRun, GateAt, NoWf
<1>4. CASE Chat(in)
  BY <1>2, <1>4, NoWfTyped DEF Chat, GateAt
<1>5. CASE CancelRun(in)
  <2>1. wf' = [wf EXCEPT !.status = "cancelled"] /\ pc' = "commit"
    BY <1>5 DEF CancelRun
  <2>2. wf'.gate = wf.gate /\ wf'.idx = wf.idx /\ wf'.status = "cancelled"
    BY <1>2, <2>1 DEF WfState
  <2> QED BY <1>2, <2>1, <2>2 DEF GateAt
<1>6. CASE Reprompt(in)
  BY <1>2, <1>6 DEF Reprompt, GateAt
<1>7. CASE Resume(in)
  <2>1. wf.gate = NoStep /\ saved.wf.status = "paused_for_review" /\ start' = start
    BY <1>2, <1>7 DEF Resume, GateAt
  <2>2. CASE pc' = "commit" /\ wf' = wf
    BY <1>2, <2>1, <2>2 DEF GateAt
  <2>3. CASE Advance(defn, wf, data)
    <3>1. Moved
      BY <1>2, <2>1, <2>3, HelpersMove
    <3> QED BY <1>2, <2>1, <3>1 DEF Moved, GateAt
  <2> QED BY <1>7, <2>2, <2>3 DEF Resume
<1>8. CASE Continue(in)
  BY <1>2, <1>8 DEF Continue, GateAt
<1> QED BY <1>1, <1>3, <1>4, <1>5, <1>6, <1>7, <1>8

LEMMA AskInit == Init => AskInv
<1> SUFFICES ASSUME Init PROVE AskInv
  OBVIOUS
<1>1. GateInv
  <2>1. TypeInv
    BY InitTyped
  <2> QED BY <2>1 DEF Init, GateInv, FirstStep, Confirmed
<1> QED BY <1>1, WaitInit, NoWfTyped DEF Init, AskInv, GateAt, Working, Outside

(* Every step keeps the strengthening as long as no edit comes in between. *)
LEMMA AskStep == ~Edits /\ AskInv /\ [Next]_vars => AskInv'
<1> SUFFICES ASSUME ~Edits, AskInv, [Next]_vars
             PROVE  /\ GateAt(wf)' /\ GateAt(saved.wf)'
                    /\ (pc \in Working /\ start => ~Active)'
                    /\ (pc \in Outside => plan = defn /\ wf.gate = NoStep)'
                    /\ (pc = "step" => wf.status \in {"in_progress", "await_retry"})'
                    /\ (pc \in Working /\ AtConfirmation /\ Denies(said) => pc = "step" /\ depth = 0)'
                    /\ (unsure => \/ pc \in {"commit", "flush"}
                                  \/ pc = "step" /\ wf.idx \in DOMAIN defn /\ CallsNothing(defn[wf.idx]))'
  BY WaitStep, GateStep DEF AskInv
<1>0. wf \in WfState /\ TypeInv /\ pc \in PC
  BY DEF AskInv, GateInv, TypeInv, TypeOK
<1>1. CASE Route
  <2>1. pc = "idle" /\ pc' \in {"step", "commit"} /\ UNCHANGED <<defn, saved>>
    BY <1>1, RouteFrame DEF Route
  <2>2. ~unsure
    BY <2>1 DEF AskInv
  <2> QED BY <1>1, <2>1, <2>2, RouteAsks DEF AskInv, GateAt, AtConfirmation, Active, Working, Outside
<1>2. CASE Execute
  <2>1. pc \in Working /\ pc' \notin {"idle", "flush"} /\ UNCHANGED <<defn, saved, start, said>>
    BY <1>0, <1>2, ExecuteFrame DEF Working, PC
  <2>2. Gated
    BY <1>2, HandlersGate
  <2>3. GateAt(saved.wf)' /\ (pc \in Working /\ start => ~Active)'
    BY <2>1 DEF AskInv, GateAt, Active
  <2>4. (pc \in Working /\ AtConfirmation /\ Denies(said) => pc = "step" /\ depth = 0)'
    BY <1>2, <2>1, NoLeadsBack DEF AtConfirmation, Denies, Working
  <2>5. (unsure => \/ pc \in {"commit", "flush"}
                   \/ pc = "step" /\ wf.idx \in DOMAIN defn /\ CallsNothing(defn[wf.idx]))'
    BY <1>2, <2>1, UnsureEnds, UnsureFrame, RejectedIsSafe
  <2>6. /\ GateAt(wf)'
        /\ (pc \in Outside => plan = defn /\ wf.gate = NoStep)'
        /\ (pc = "step" => wf.status \in {"in_progress", "await_retry"})'
    BY <2>1, <2>2 DEF Gated, Outside
  <2> QED BY <2>3, <2>4, <2>5, <2>6
<1>3. CASE StartFails
  <2>1. wf' = NoWf /\ pc' = "commit" /\ UNCHANGED <<defn, saved>>
    BY <1>3 DEF StartFails, Finish, StepFrame
  <2> QED BY <2>1, NoWfTyped DEF AskInv, GateAt, Working, Outside
<1>4. CASE Commit \/ AbortedInCommit
  <2>1. /\ wf' = Image.wf /\ saved' = Image /\ defn' = defn
        /\ pc' = "flush" \/ (pc' = "idle" /\ ~unsure')
    BY <1>4 DEF Commit, AbortedInCommit, EndTurn
  <2>2. Image.wf = wf \/ Image.wf = NoWf
    BY DEF Image
  <2>3. GateAt(wf)' /\ GateAt(saved.wf)'
    BY <2>1, <2>2, NoWfTyped DEF AskInv, GateAt
  <2> QED BY <2>1, <2>3 DEF Working, Outside
<1>5. CASE FlushEvents \/ TurnAborted
  <2>1. (wf' = wf \/ wf' = saved.wf) /\ UNCHANGED <<saved, defn>> /\ pc' = "idle" /\ ~unsure'
    BY <1>5 DEF FlushEvents, TurnAborted, EndTurn, session
  <2> QED BY <2>1 DEF AskInv, GateAt, Working, Outside
<1>6. CASE EditWorkflow
  BY <1>6 DEF EditWorkflow
<1>7. CASE UNCHANGED vars
  BY <1>7 DEF vars, AskInv, GateAt, Active, AtConfirmation
<1> QED BY <1>1, <1>2, <1>3, <1>4, <1>5, <1>6, <1>7 DEF Next, Deliver

(* While the definition stands, a turn calls out only for what was asked: never after a
   no to a confirmation or a gate, never past a decision that was not accepted, only on
   the message a wait is for, and never for a finished ticket; of every definition,
   every number of automatic steps and every run. *)
THEOREM Asked == ASSUME ~Edits PROVE Spec => OnlyWhatWasAsked
<1>1. AskInv => (CallsOut => NotDenied /\ ~unsure /\ WaitedFor /\ StillOpen)
  <2> SUFFICES ASSUME AskInv, CallsOut PROVE NotDenied /\ ~unsure /\ WaitedFor /\ StillOpen
    OBVIOUS
  <2>1. pc \in Working /\ pc \in Outside /\ pc # "step"
    BY DEF CallsOut, Working, Outside
  <2> QED BY <2>1, OpenTicket DEF AskInv, NotDenied, Outside
<1>2. Init => AskInv
  BY AskInit
<1>3. AskInv /\ [Next]_vars => AskInv'
  BY AskStep
<1> QED BY <1>1, <1>2, <1>3, PTL DEF Spec, OnlyWhatWasAsked
=============================================================================
