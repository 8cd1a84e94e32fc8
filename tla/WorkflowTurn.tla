---------------------------- MODULE WorkflowTurn ----------------------------
(***************************************************************************)
(* One conversation session driven through a workflow: AgentRuntime's turn *)
(* (route the message, run the executor, commit, dispatch events) around   *)
(* WorkflowExecutor's step handlers.                                       *)
(*                                                                         *)
(* The session lock of request_guard makes the turns of a session          *)
(* sequential, so one turn is in flight at a time.  It works on the        *)
(* session object (wf, data) of its own database session and writes it in  *)
(* one commit (saved); every await in between (a tool, the webhook, the    *)
(* decision provider) is a point where the turn can be cancelled by the    *)
(* pipeline timeout or a disconnect, or lost with the process.             *)
(***************************************************************************)
EXTENDS WorkflowDefs

CONSTANTS Definitions,    \* the step sequences an administrator may save
          Edits,          \* TRUE when the definition may change under a live session
          MaxDepth,       \* MAX_AUTO_ADVANCE_DEPTH
          MaxSnapshots,   \* snapshots kept for rollback (5 in the code)
          MaxRetries,     \* WEBHOOK_MAX_RETRIES
          MaxRuns         \* bound on the workflow runs of the session

ASSUME ConstantsOK ==
  /\ Definitions \subseteq Seq(Step)
  /\ Edits \in BOOLEAN
  /\ MaxDepth \in Nat /\ MaxRetries \in Nat /\ MaxRuns \in Nat
  /\ MaxSnapshots \in Nat \ {0}

(* DecisionConfig requires a result key. *)
ASSUME DecisionsWrite ==
  \A steps \in Definitions : \A i \in DOMAIN steps :
    steps[i].type = "decision" /\ steps[i].bound => steps[i].out \in Field

VARIABLES
  defn,       \* the workflow_steps rows as they are in the database now
  saved,      \* the committed session row: [wf, data]
  wf, data,   \* workflow_state and collected_data of the turn's session object
  pc,         \* where the turn is; "idle" between turns
  start,      \* this turn started the workflow (it ends in the conversational tail)
  said,       \* the request of this turn
  depth,      \* _depth of the current process_step
  plan,       \* the steps that process_step read
  attempt,    \* webhook attempt under way
  result,     \* WorkflowStepResult.status, or what the runtime answers itself
  unsure,     \* a decision of this turn was not accepted
  pending,    \* events queued by the executor, not dispatched yet
  runs,       \* idempotency keys generated so far
  owed,       \* history: events whose transition was committed
  published,  \* history: events handed to the dispatcher
  calls,      \* history: external calls, by idempotency key (run and step) and payload
  acks        \* history: webhook deliveries acknowledged, by idempotency key

session == <<wf, data>>
turn    == <<start, said, unsure>>
history == <<owed, published, calls, acks>>
vars == <<defn, saved, wf, data, pc, start, said, depth, plan, attempt, result, unsure,
          pending, runs, owed, published, calls, acks>>

Runs == 1..MaxRuns
Cells == Cell(Runs)
Status == {"none", "in_progress", "paused_for_review", "await_retry", "completed", "cancelled"}
Snapshot == [idx : Nat, data : SUBSET Cells]
WfState == [run : 0..MaxRuns, idx : Nat, status : Status, gate : StepId \cup {NoStep},
            snaps : Seq(Snapshot)]
NoWf == [run |-> 0, idx |-> 1, status |-> "none", gate |-> NoStep, snaps |-> <<>>]
Event == [kind : {"completed", "escalated", "submit_failed"}, run : 0..MaxRuns, step : StepId,
          webhook : BOOLEAN]
Call == [run : 0..MaxRuns, step : StepId, payload : SUBSET Cells]
Key == [run : 0..MaxRuns, step : StepId]
PC == {"idle", "step", "tool", "calling", "decide", "hook", "hooking", "commit", "flush"}
Result == {"none", "reply", "reprompt", "waiting_input", "completed", "cancelled", "escalated",
           "await_retry", "error"}

Init ==
  /\ defn \in Definitions
  /\ saved = [wf |-> NoWf, data |-> {}]
  /\ wf = NoWf /\ data = {}
  /\ pc = "idle" /\ start = FALSE /\ said = Silent /\ depth = 0 /\ plan = <<>>
  /\ attempt = 0 /\ result = "none" /\ unsure = FALSE
  /\ pending = {} /\ runs = 0
  /\ owed = {} /\ published = {} /\ calls = {} /\ acks = {}

-----------------------------------------------------------------------------
(* Building blocks of the handlers. *)

Heard == IF depth = 0 THEN said ELSE Silent   \* only the first step of a turn hears the user
This == plan[wf.idx]                          \* the step whose external call is under way

Finish(res) == pc' = "commit" /\ result' = res

(* process_step: remember the data on first entry, keep the last MaxSnapshots. *)
Snap(w, d) ==
  LET s == IF w.snaps = <<>> \/ w.snaps[Len(w.snaps)].idx # w.idx
           THEN Append(w.snaps, [idx |-> w.idx, data |-> d]) ELSE w.snaps
  IN  [w EXCEPT !.snaps = IF Len(s) > MaxSnapshots
                          THEN SubSeq(s, Len(s) - MaxSnapshots + 1, Len(s)) ELSE s]

(* Mutant: the depth is not counted. *)
EnterUncounted(steps, w, n) ==
  /\ wf' = [w EXCEPT !.idx = n, !.status = "in_progress"]
  /\ \/ Automatic(steps[n]) /\ pc' = "step" /\ depth' = depth /\ result' = result
     \/ ~Automatic(steps[n]) /\ Finish("waiting_input") /\ depth' = depth

(* _enter_step *)
Enter(steps, w, n) ==
  /\ wf' = [w EXCEPT !.idx = n, !.status = "in_progress"]
  /\ \/ Automatic(steps[n]) /\ pc' = "step" /\ depth' = depth + 1 /\ result' = result
     \/ ~Automatic(steps[n]) /\ Finish("waiting_input") /\ depth' = depth

(* _advance *)
Advance(steps, w, d) ==
  LET next == Targets(steps, w.idx, d)
  IN  \/ next = {} /\ wf' = w /\ Finish("error") /\ depth' = depth
      \/ \E n \in next :
           \/ n \in DOMAIN steps /\ Enter(steps, w, n)
           \/ /\ n \notin DOMAIN steps
              /\ wf' = [w EXCEPT !.idx = n, !.status = "completed"]
              /\ Finish("completed") /\ depth' = depth

(* Valid answers become cells of the current run. *)
Entered(step, answer) ==
  {[field |-> a.field, val |-> a.val, run |-> wf.run] : a \in Valid(step, answer)}

(* _follow_fallback, to the one step among targets, if there is one *)
FollowFallback(steps, w, targets) ==
  \/ targets = {} /\ wf' = w /\ Finish("error") /\ depth' = depth
  \/ \E n \in targets : Enter(steps, w, n)

(* _perform_rollback: back to the last form the user can edit, with the data
   it was entered with. *)
EditTargets(steps, w) ==
  {i \in DOMAIN w.snaps : /\ w.snaps[i].idx # w.idx
                          /\ w.snaps[i].idx \in DOMAIN steps
                          /\ Editable(steps[w.snaps[i].idx])}
Rollback(steps, w) ==
  LET back == EditTargets(steps, w)
  IN  \/ back = {} /\ wf' = w /\ data' = data /\ Finish("error")
      \/ \E i \in back :
           /\ \A j \in back : j <= i
           /\ wf' = [w EXCEPT !.idx = w.snaps[i].idx, !.status = "in_progress", !.gate = NoStep,
                              !.snaps = SubSeq(w.snaps, 1, i)]
           /\ data' = w.snaps[i].data
           /\ Finish("waiting_input")

EventFor(kind, step) == [kind |-> kind, run |-> wf.run, step |-> step.id, webhook |-> Submits(step)]
KeyOf(step) == [run |-> wf.run, step |-> step.id]
CallOf(step) == [run |-> wf.run, step |-> step.id, payload |-> data]

EndTurn ==
  /\ pc' = "idle" /\ start' = FALSE /\ said' = Silent /\ depth' = 0 /\ plan' = <<>>
  /\ attempt' = 0 /\ result' = "none" /\ unsure' = FALSE

-----------------------------------------------------------------------------
(* Routing a message (AgentRuntime._invoke_conversational). *)

Active == saved.wf.status \in {"in_progress", "paused_for_review", "await_retry"}

BeginTurn(in) == pc = "idle" /\ said' = in

RoutingFrame == UNCHANGED <<defn, saved, plan, attempt, unsure, pending, owed, published, calls, acks>>

(* Mutant: a new run keeps what the session has collected. *)
StartRunDirty(in) ==
  /\ BeginTurn(in) /\ ~Active /\ ~in.form
  /\ runs < MaxRuns
  /\ runs' = runs + 1
  /\ wf' = [NoWf EXCEPT !.run = runs + 1, !.status = "in_progress"]
  /\ data' = data
  /\ pc' = "step" /\ start' = TRUE /\ depth' = 0 /\ result' = result
  /\ RoutingFrame

(* No workflow: the model starts one through its start_workflow tool.  The
   text the first step hears is the tool's "reason" argument. *)
StartRun(in) ==
  /\ BeginTurn(in) /\ ~Active /\ ~in.form
  /\ runs < MaxRuns
  /\ runs' = runs + 1
  /\ wf' = [NoWf EXCEPT !.run = runs + 1, !.status = "in_progress"]
  /\ data' = {}
  /\ pc' = "step" /\ start' = TRUE /\ depth' = 0 /\ result' = result
  /\ RoutingFrame

(* No workflow and none started: a finished one is cleared and the turn saved. *)
Chat(in) ==
  /\ BeginTurn(in) /\ ~Active
  /\ wf' = NoWf /\ start' = TRUE
  /\ Finish("reply")
  /\ UNCHANGED <<data, depth, runs>> /\ RoutingFrame

(* _cancel_active_workflow *)
CancelRun(in) ==
  /\ BeginTurn(in) /\ Active /\ TRUE \in ExitVerdicts(in)
  /\ wf' = [wf EXCEPT !.status = "cancelled"] /\ data' = {}
  /\ Finish("cancelled")
  /\ UNCHANGED <<start, depth, runs>> /\ RoutingFrame

(* A paused workflow answers anything but "resume", a failed submission
   anything but "retry", with a canned text. *)
Unmoved(in) ==
  \/ saved.wf.status = "paused_for_review" /\ in.msg # "resume"
  \/ saved.wf.status = "await_retry" /\ in.msg # "retry"

Reprompt(in) ==
  /\ BeginTurn(in) /\ Active /\ FALSE \in ExitVerdicts(in) /\ Unmoved(in)
  /\ Finish("reprompt")
  /\ UNCHANGED <<wf, data, start, depth, runs>> /\ RoutingFrame

(* resume_after_review *)
Resume(in) ==
  /\ BeginTurn(in) /\ saved.wf.status = "paused_for_review" /\ FALSE \in ExitVerdicts(in)
  /\ in.msg = "resume"
  /\ \/ wf.idx \notin DOMAIN defn /\ Finish("error") /\ UNCHANGED <<wf, depth>>
     \/ wf.idx \in DOMAIN defn /\ Advance(defn, wf, data)
  /\ UNCHANGED <<data, start, runs>> /\ RoutingFrame

Continue(in) ==
  /\ BeginTurn(in) /\ saved.wf.status \in {"in_progress", "await_retry"}
  /\ FALSE \in ExitVerdicts(in) /\ ~Unmoved(in)
  /\ pc' = "step"
  /\ UNCHANGED <<wf, data, start, depth, result, runs>> /\ RoutingFrame

-----------------------------------------------------------------------------
(* process_step and its handlers.  Each reads the steps afresh. *)

StepFrame == UNCHANGED <<defn, saved, turn, runs, history>>

Refused == depth > MaxDepth \/ defn = <<>> \/ wf.idx \notin DOMAIN defn

RefuseStep ==
  /\ pc = "step" /\ Refused
  /\ Finish(IF depth > MaxDepth \/ defn = <<>> THEN "error" ELSE "completed")
  /\ UNCHANGED <<session, depth, plan, attempt, pending>> /\ StepFrame

AtStep(type) == pc = "step" /\ ~Refused /\ defn[wf.idx].type = type

(* _handle_collect.  answer: the fields read from the form or the text;
   refused: the valid ones the model refuses; blanked: the optional ones the
   form leaves empty, or the extraction gives as null.  What is extracted may
   name no field at all.  The step is left when nothing is wrong or missing. *)
Collect ==
  /\ AtStep("collect")
  /\ LET step == defn[wf.idx]
         w == Snap(wf, data)
     IN \/ /\ step.fields = {}
           /\ Advance(defn, w, data) /\ data' = data
        \/ /\ step.fields # {}      \* nothing said, extraction failed or found nothing
           /\ ~Heard.form
           /\ wf' = w /\ data' = data /\ depth' = depth /\ Finish("waiting_input")
        \/ /\ step.fields # {} /\ Heard # Silent
           /\ \E answer \in Answers(step) :
              \E refused \in Refusals(step, answer), blanked \in SUBSET (step.fields \ step.required) :
                 /\ data' = Without(Overlay(data, Entered(step, answer)), refused \cup blanked)
                 /\ LET done == /\ Valid(step, answer) = answer /\ refused = {}
                                /\ step.required \subseteq Filled(data')
                    IN \/ done /\ Advance(defn, w, data')
                       \/ ~done /\ wf' = w /\ depth' = depth /\ Finish("waiting_input")
  /\ UNCHANGED <<plan, attempt, pending>> /\ StepFrame

(* _handle_validate *)
Validate ==
  /\ AtStep("validate")
  /\ LET step == defn[wf.idx]
         w == Snap(wf, data)
     IN \/ /\ ~Invalid(step, data)
           /\ Advance(defn, w, data) /\ data' = data
        \/ /\ Invalid(step, data) /\ step.fallback # NoStep
           /\ FollowFallback(defn, w, Fallbacks(defn, wf.idx)) /\ data' = data
        \/ /\ Invalid(step, data) /\ step.fallback = NoStep /\ step.onFailure = "rollback"
           /\ Rollback(defn, w) /\ depth' = depth
        \/ /\ Invalid(step, data) /\ step.fallback = NoStep /\ step.onFailure # "rollback"
           /\ wf' = w /\ data' = data /\ depth' = depth /\ Finish("waiting_input")
  /\ UNCHANGED <<plan, attempt, pending>> /\ StepFrame

(* _handle_confirm *)
Confirm ==
  /\ AtStep("confirm")
  /\ LET w == Snap(wf, data)
     IN \/ Affirms(Heard) /\ Advance(defn, w, data) /\ data' = data
        \/ Denies(Heard) /\ Rollback(defn, w) /\ depth' = depth
        \/ /\ ~Affirms(Heard) /\ ~Denies(Heard)
           /\ wf' = w /\ data' = data /\ depth' = depth /\ Finish("waiting_input")
  /\ UNCHANGED <<plan, attempt, pending>> /\ StepFrame

(* Mutant: a yes opens the gate, whether or not it was shown. *)
GateOpenOnYes(step) == step.gated => Affirms(Heard)

(* The confirmation gate of a tool_call step: shown on first entry, opened
   only by a yes to this very gate, left by a no. *)
GateOpen(step) == step.gated => wf.gate = step.id /\ Affirms(Heard)

ShowGate ==
  /\ AtStep("tool_call")
  /\ LET step == defn[wf.idx]
     IN /\ ~GateOpen(step)
        /\ ~(wf.gate = step.id /\ Denies(Heard))
        /\ wf' = [Snap(wf, data) EXCEPT !.gate = step.id]
  /\ Finish("waiting_input")
  /\ UNCHANGED <<data, depth, plan, attempt, pending>> /\ StepFrame

DenyGate ==
  /\ AtStep("tool_call")
  /\ LET step == defn[wf.idx]
     IN /\ step.gated /\ wf.gate = step.id /\ Denies(Heard)
        /\ Rollback(defn, [Snap(wf, data) EXCEPT !.gate = NoStep])
  /\ UNCHANGED <<depth, plan, attempt, pending>> /\ StepFrame

(* _handle_tool_call up to its first await: the tool's row is looked up. *)
EnterToolCall ==
  /\ AtStep("tool_call")
  /\ LET step == defn[wf.idx]
         w == IF step.gated THEN [Snap(wf, data) EXCEPT !.gate = NoStep] ELSE Snap(wf, data)
     IN /\ GateOpen(step)
        /\ \/ ~step.bound /\ Advance(defn, w, data) /\ plan' = plan
           \/ /\ step.bound
              /\ wf' = w /\ plan' = defn
              /\ pc' = "tool" /\ UNCHANGED <<depth, result>>
  /\ UNCHANGED <<data, attempt, pending>> /\ StepFrame

(* ToolGateway.invoke sends the request; a retry inside it is the same call. *)
CallTool ==
  /\ pc = "tool"
  /\ calls' = calls \cup {CallOf(This)}
  /\ pc' = "calling"
  /\ UNCHANGED <<defn, saved, session, turn, depth, plan, attempt, result, pending, runs, owed,
                 published, acks>>

ToolSucceeds ==
  /\ pc = "calling"
  /\ \E v \in Value :
       data' = IF This.out = NoField THEN data
               ELSE Overlay(data, {[field |-> This.out, val |-> v, run |-> wf.run]})
  /\ Advance(plan, wf, data')
  /\ UNCHANGED <<plan, attempt, pending>> /\ StepFrame

(* ToolInvocationError: the tool is gone or disabled, or every attempt failed. *)
ToolFails ==
  /\ pc \in {"tool", "calling"}
  /\ \/ /\ This.fallback # NoStep
        /\ FollowFallback(plan, wf, Fallbacks(plan, wf.idx))
        /\ UNCHANGED <<data, pending>>
     \/ /\ This.fallback = NoStep /\ This.onFailure = "skip"
        /\ Advance(plan, wf, data)
        /\ UNCHANGED <<data, pending>>
     \/ /\ This.fallback = NoStep /\ This.onFailure = "escalate"
        /\ pending' = pending \cup {EventFor("escalated", This)}
        /\ wf' = NoWf /\ data' = {} /\ depth' = depth
        /\ Finish("escalated")
     \/ /\ This.fallback = NoStep /\ This.onFailure = "rollback"
        /\ Rollback(plan, wf)
        /\ UNCHANGED <<depth, pending>>
     \/ /\ This.fallback = NoStep /\ This.onFailure = "retry"
        /\ Finish("error")
        /\ UNCHANGED <<session, depth, pending>>
  /\ UNCHANGED <<plan, attempt>> /\ StepFrame

(* _handle_decision works on a copy of the data, from which a previous result
   is dropped before the provider is asked; the session gets it afterwards. *)
AskDecision ==
  /\ AtStep("decision")
  /\ LET step == defn[wf.idx]
     IN \/ /\ ~step.bound
           /\ wf' = Snap(wf, data) /\ plan' = plan
           /\ Finish("error")
        \/ /\ step.bound
           /\ wf' = Snap(wf, data) /\ plan' = defn
           /\ pc' = "decide" /\ result' = result
  /\ UNCHANGED <<data, depth, attempt, pending>> /\ StepFrame

DecisionAccepted ==
  /\ pc = "decide"
  /\ \E v \in Value :
       data' = Overlay(data, {[field |-> This.out, val |-> v, run |-> wf.run]})
  /\ Advance(plan, wf, data')
  /\ UNCHANGED <<plan, attempt, pending>> /\ StepFrame

(* Below the thresholds, no match, or the provider is unavailable. *)
DecisionRejected ==
  /\ pc = "decide"
  /\ unsure' = TRUE /\ data' = Without(data, {This.out})
  /\ FollowFallback(plan, wf, SafeFallbacks(plan, wf.idx))
  /\ UNCHANGED <<defn, saved, start, said, plan, attempt, pending, runs, history>>

(* Mutant: the event is sent when it is queued. *)
PauseForReviewEmits ==
  /\ AtStep("human_review")
  /\ wf' = [Snap(wf, data) EXCEPT !.status = "paused_for_review"]
  /\ published' = published \cup {EventFor("escalated", defn[wf.idx])}
  /\ Finish("escalated")
  /\ UNCHANGED <<defn, saved, turn, data, depth, plan, attempt, pending, runs, owed, calls, acks>>

(* _handle_human_review *)
PauseForReview ==
  /\ AtStep("human_review")
  /\ wf' = [Snap(wf, data) EXCEPT !.status = "paused_for_review"]
  /\ pending' = pending \cup {EventFor("escalated", defn[wf.idx])}
  /\ Finish("escalated")
  /\ UNCHANGED <<data, depth, plan, attempt>> /\ StepFrame

(* _handle_complete and _deliver_complete_webhook *)
Complete ==
  /\ AtStep("complete")
  /\ wf' = [Snap(wf, data) EXCEPT !.status = "completed"]
  /\ \/ /\ ~Submits(defn[wf.idx])
        /\ pending' = pending \cup {EventFor("completed", defn[wf.idx])}
        /\ Finish("completed") /\ UNCHANGED <<plan, attempt>>
     \/ /\ Submits(defn[wf.idx])
        /\ pc' = "hook" /\ attempt' = 1 /\ plan' = defn
        /\ UNCHANGED <<pending, result>>
  /\ UNCHANGED <<data, depth>> /\ StepFrame

SendWebhook ==
  /\ pc = "hook"
  /\ calls' = calls \cup {CallOf(This)}
  /\ pc' = "hooking"
  /\ UNCHANGED <<defn, saved, session, turn, depth, plan, attempt, result, pending, runs, owed,
                 published, acks>>

WebhookDelivered ==
  /\ pc = "hooking"
  /\ acks' = acks \cup {KeyOf(This)}
  /\ pending' = pending \cup {EventFor("completed", This)}
  /\ Finish("completed")
  /\ UNCHANGED <<defn, saved, session, turn, depth, plan, attempt, runs, owed, published, calls>>

(* Mutant: an exhausted submission is announced as completed. *)
WebhookFailedSilently ==
  /\ pc = "hooking"
  /\ \/ /\ attempt <= MaxRetries
        /\ attempt' = attempt + 1 /\ pc' = "hook"
        /\ UNCHANGED <<wf, pending, result>>
     \/ /\ attempt > MaxRetries
        /\ wf' = [wf EXCEPT !.status = "await_retry"]
        /\ pending' = pending \cup {EventFor("completed", This)}
        /\ Finish("await_retry") /\ attempt' = attempt
  /\ UNCHANGED <<data, depth, plan>> /\ StepFrame

WebhookFailed ==
  /\ pc = "hooking"
  /\ \/ /\ attempt <= MaxRetries
        /\ attempt' = attempt + 1 /\ pc' = "hook"
        /\ UNCHANGED <<wf, pending, result>>
     \/ /\ attempt > MaxRetries
        /\ wf' = [wf EXCEPT !.status = "await_retry"]
        /\ pending' = pending \cup {EventFor("submit_failed", This)}
        /\ Finish("await_retry") /\ attempt' = attempt
  /\ UNCHANGED <<data, depth, plan>> /\ StepFrame

-----------------------------------------------------------------------------
(* The end of a turn. *)

(* The start handler catches whatever process_step raises: no workflow, and
   the executor's queued events are never taken over. *)
StartFails ==
  /\ start /\ pc \in {"step", "tool", "calling", "decide", "hook", "hooking"}
  /\ wf' = NoWf /\ pending' = {}
  /\ Finish("error")
  /\ UNCHANGED <<data, depth, plan, attempt>> /\ StepFrame

(* _finalize_workflow_turn clears a finished workflow, the conversational tail leaves it. *)
Image == IF result = "completed" /\ ~start THEN [wf |-> NoWf, data |-> {}]
         ELSE [wf |-> wf, data |-> data]

(* _save_session commits.  The conversational tail dispatches in the same
   breath, a workflow turn after awaiting the audit flush. *)
Commit ==
  /\ pc = "commit"
  /\ saved' = Image /\ wf' = Image.wf /\ data' = Image.data
  /\ owed' = owed \cup pending
  /\ \/ /\ start
        /\ published' = published \cup pending /\ pending' = {}
        /\ EndTurn
     \/ /\ ~start
        /\ pc' = "flush"
        /\ UNCHANGED <<turn, depth, plan, attempt, result, pending, published>>
  /\ UNCHANGED <<defn, runs, calls, acks>>

FlushEvents ==
  /\ pc = "flush"
  /\ published' = published \cup pending /\ pending' = {}
  /\ EndTurn
  /\ UNCHANGED <<defn, saved, session, runs, owed, calls, acks>>

(* The pipeline timeout, a disconnect or a crash: roll back, forget the events. *)
TurnAborted ==
  /\ pc # "idle"
  /\ wf' = saved.wf /\ data' = saved.data /\ pending' = {}
  /\ EndTurn
  /\ UNCHANGED <<defn, saved, runs, history>>

(* ... while the commit is awaited: the database may have carried it out. *)
AbortedInCommit ==
  /\ pc = "commit"
  /\ saved' = Image /\ wf' = Image.wf /\ data' = Image.data
  /\ owed' = owed \cup pending /\ pending' = {}
  /\ EndTurn
  /\ UNCHANGED <<defn, runs, published, calls, acks>>

(* An administrator saves another version of the steps (api/workflows.py). *)
EditWorkflow ==
  /\ Edits
  /\ defn' \in Definitions \ {defn}
  /\ UNCHANGED <<saved, session, pc, turn, depth, plan, attempt, result, pending, runs, history>>

Route == \E in \in Request :
  StartRun(in) \/ Chat(in) \/ CancelRun(in) \/ Reprompt(in) \/ Resume(in) \/ Continue(in)

Execute ==
  \/ RefuseStep \/ Collect \/ Validate \/ Confirm \/ ShowGate \/ DenyGate \/ EnterToolCall
  \/ CallTool \/ ToolSucceeds \/ ToolFails \/ AskDecision \/ DecisionAccepted \/ DecisionRejected
  \/ PauseForReview \/ Complete \/ SendWebhook \/ WebhookDelivered \/ WebhookFailed

Deliver == Commit \/ FlushEvents

Next == Route \/ Execute \/ StartFails \/ Deliver \/ TurnAborted \/ AbortedInCommit \/ EditWorkflow

Spec == Init /\ [][Next]_vars
FairSpec == Spec /\ WF_vars(Execute) /\ WF_vars(Deliver)
-----------------------------------------------------------------------------
(* Properties. *)

CellsOfRun(d, r) == \A c \in d : c.run = r

TypeOK ==
  /\ defn \in Definitions
  /\ Len(wf.snaps) <= MaxSnapshots /\ Len(saved.wf.snaps) <= MaxSnapshots
  /\ saved \in [wf : WfState, data : SUBSET Cells]
  /\ wf \in WfState /\ data \in SUBSET Cells
  /\ pc \in PC /\ start \in BOOLEAN /\ said \in Request \cup {Silent}
  /\ depth \in Nat /\ plan \in Definitions \cup {<<>>} /\ attempt \in Nat
  /\ result \in Result /\ unsure \in BOOLEAN
  /\ pending \in SUBSET Event /\ runs \in 0..MaxRuns
  /\ owed \in SUBSET Event /\ published \in SUBSET Event
  /\ calls \in SUBSET Call /\ acks \in SUBSET Key

(* A turn that is about to call out: a tool request or a webhook attempt. *)
CallsOut == pc \in {"tool", "hook"} /\ pc' \in {"calling", "hooking"}

(* A gated tool runs only in a turn whose message is an explicit yes, when the
   gate of this very step was committed by an earlier turn of the same run, and
   with the data the user was shown then (the requires_human_confirm branch of
   process_step). *)
GateConfirmed ==
  [][pc = "tool" /\ pc' = "calling" /\ This.gated =>
       /\ Affirms(said)
       /\ saved.wf.gate = This.id /\ saved.wf.run = wf.run
       /\ saved.data = data]_vars

(* What a turn may call out for, in four parts.                                          *)
(* "Never replay an external action simply because confirmation was denied"              *)
(* (_perform_rollback): nothing on a no to a confirmation, of either kind.                *)
AtConfirmation ==
  /\ saved.wf.status = "in_progress"
  /\ \/ saved.wf.gate # NoStep
     \/ saved.wf.idx \in DOMAIN defn /\ defn[saved.wf.idx].type = "confirm"
NotDenied == AtConfirmation => ~Denies(said)

(* While a submission waits for a retry or a case for review, only the message it waits *)
(* for lets anything out (_continue_active_workflow).                                     *)
WaitedFor ==
  /\ saved.wf.status = "await_retry" => said.msg = "retry"
  /\ saved.wf.status = "paused_for_review" => said.msg = "resume"

(* The end of a ticket is final: nothing for a run whose completion is committed,        *)
(* whichever turn it ended in (_finalize_workflow_turn, and the safety net of             *)
(* _invoke_conversational).                                                               *)
StillOpen == \A e \in owed : e.run = wf.run => e.kind # "completed"

(* A turn calls out only for what was asked: not after a denial, not on a decision that   *)
(* was not accepted (_follow_fallback with decision=True), not before the message a wait   *)
(* is for, and never again for a finished ticket.                                         *)
OnlyWhatWasAsked ==
  [][CallsOut => NotDenied /\ ~unsure /\ WaitedFor /\ StillOpen]_vars

(* No phantom events: what subscribers are told was committed first
   (WorkflowExecutor.pending_events). *)
NoPhantomEvents == published \subseteq owed

(* Of all the steps a turn runs through, at most one leads out of the
   workflow's normal course and announces it. *)
OneEventPerTurn == \A e, f \in pending : e = f

(* Data of one ticket never appears in another: not in the live state, not in
   a snapshot a rollback would restore, not in a payload. *)
RunIsolation ==
  /\ wf.run # 0 => /\ CellsOfRun(data, wf.run)
                   /\ \A i \in DOMAIN wf.snaps : CellsOfRun(wf.snaps[i].data, wf.run)
  /\ \A k \in calls : CellsOfRun(k.payload, k.run)

(* workflow.completed for a step with a webhook means the endpoint took it. *)
HonestCompletion ==
  \A e \in pending \cup owed :
    e.kind = "completed" /\ e.webhook => [run |-> e.run, step |-> e.step] \in acks

(* What is announced is one thing, and it is true: the handlers of one turn queue at      *)
(* most one event (_queue_event), and a completion only when the endpoint of its webhook   *)
(* has taken it (_deliver_complete_webhook).                                              *)
AnnouncedHonestly == OneEventPerTurn /\ HonestCompletion

(* Every turn ends without the help of the pipeline timeout: the depth guard
   stops a chain of automatic steps, however the definition is wired. *)
TurnEnds == pc # "idle" ~> pc = "idle"

-----------------------------------------------------------------------------
(* The abstract specification and the mapping to it. *)
Life == INSTANCE TicketLife WITH
          last <- runs,
          open <- IF Active THEN saved.wf.run ELSE 0,
          done <- {e.run : e \in {e \in owed : e.kind = "completed"}},
          told <- {e.run : e \in {e \in published : e.kind = "completed"}}

(* Seen through the database and the subscribers, the tickets of a session live as       *)
(* TicketLife says: one is begun when none is open, is completed once and closed by it,   *)
(* is never open again, and is announced as completed only when it is                    *)
(* (AgentRuntime._save_session, _finalize_workflow_turn, WorkflowExecutor.pending_events). *)
LivesAsPromised == Life!Spec
=============================================================================
