---------------------------- MODULE WorkflowDefs ----------------------------
(***************************************************************************)
(* Workflow definitions as the executor reads them: a definition is the    *)
(* sequence of WorkflowStep rows ordered by "order", and the operators     *)
(* below are the executor's questions about one: which steps run without   *)
(* the user, where a step leads, and what a message says.                  *)
(*                                                                         *)
(* Collected data is a set of cells, one per field that holds a value.     *)
(* A cell carries the workflow run it was entered in, so that a value that *)
(* leaked from an earlier ticket can be told from the ticket's own.        *)
(***************************************************************************)
EXTENDS Naturals, Sequences, FiniteSets

CONSTANTS StepId,    \* WorkflowStep.id
          Field,     \* names of collected fields
          Value,     \* values a field can hold
          NoStep,    \* no step: fallback_step_id or pending gate unset
          NoField,   \* a step that writes no field
          Always     \* the condition of a default rule (condition = null)

ASSUME SentinelsDistinct == NoStep \notin StepId /\ NoField \notin Field /\ Always \notin Field

StepType == {"collect", "validate", "tool_call", "decision", "confirm", "human_review", "complete"}
OnFailure == {"retry", "skip", "rollback", "escalate"}

Rule == [on : Field \cup {Always}, is : Value, goto : StepId]

Step == [id        : StepId,
         type      : StepType,
         fields    : SUBSET Field,     \* collect: its fields; validate: the fields it requires
         required  : SUBSET Field,     \* collect: the required ones among its fields
         rejects   : SUBSET Value,     \* values its format rules refuse
         semantic  : BOOLEAN,          \* collect: llm_validate
         gated     : BOOLEAN,          \* tool_call: requires_human_confirm
         bound     : BOOLEAN,          \* tool_call: tool_id set; decision: valid tool_config
         out       : Field \cup {NoField},
         onFailure : OnFailure,
         fallback  : StepId \cup {NoStep},
         rules     : Seq(Rule),
         webhook   : BOOLEAN,          \* complete: webhook_enabled
         url       : BOOLEAN]          \* complete: webhook_url set

-----------------------------------------------------------------------------
Cell(Run) == [field : Field, val : Value, run : Run]

Filled(d) == {c.field : c \in d}
Without(d, fs) == {c \in d : c.field \notin fs}
Overlay(d, new) == Without(d, Filled(new)) \cup new

First(S) == {i \in S : \A j \in S : i <= j}   \* the least element, as a set: empty for no element

(* _resolve_step_target: the index of the step a route names, if it still exists. *)
IndexOf(steps, id) == First({i \in DOMAIN steps : steps[i].id = id})

(* evaluate_rules: the first rule that matches; a rule without a condition always does. *)
Fires(rule, d) == rule.on = Always \/ \E c \in d : c.field = rule.on /\ c.val = rule.is
Branch(step, d) == First({r \in DOMAIN step.rules : Fires(step.rules[r], d)})

(* Where _advance goes from step i: the matching rule's target, else the
   next step; nothing when the rule points at a step that is gone. *)
Targets(steps, i, d) ==
  LET hit == Branch(steps[i], d)
  IN  IF hit = {} THEN {i + 1}
      ELSE UNION {IndexOf(steps, steps[i].rules[r].goto) : r \in hit}

(* Steps _enter_step runs at once, without waiting for the user. *)
DisplayOnly(step) == step.type = "collect" /\ step.fields = {}
Automatic(step) ==
  step.type \in {"validate", "tool_call", "decision", "complete", "human_review"} \/ DisplayOnly(step)

Editable(step) == step.type = "collect" /\ step.fields # {}

(* A complete step that submits somewhere. *)
Submits(step) == step.webhook /\ step.url

(* Where a rejected decision may fall back to: an enabled webhook is refused, wherever it goes. *)
SafeFallback(step) ==
  \/ Editable(step)
  \/ step.type = "human_review"
  \/ step.type = "complete" /\ ~step.webhook

(* Where a failing step falls back to. *)
Fallbacks(steps, i) == IndexOf(steps, steps[i].fallback)
SafeFallbacks(steps, i) == {n \in Fallbacks(steps, i) : SafeFallback(steps[n])}

(* validate: a required field is missing or a value fails its pattern. *)
Invalid(step, d) ==
  \/ ~(step.fields \subseteq Filled(d))
  \/ \E c \in d : c.field \in step.fields /\ c.val \in step.rejects

(* What a form or an extraction from free text may say of the step's fields. *)
Answers(step) ==
  {a \in SUBSET [field : step.fields, val : Value] : \A x, y \in a : x.field = y.field => x = y}

(* validate_field: the answers that respect the format rules. *)
Valid(step, answer) == {a \in answer : a.val \notin step.rejects}

(* _llm_validate_field: a language model may refuse any of the valid ones. *)
Refusals(step, answer) == SUBSET (IF step.semantic THEN {a.field : a \in Valid(step, answer)} ELSE {})

-----------------------------------------------------------------------------
(* A request is a message, classified by the keyword tests the code makes,
   with or without structured form data.  "cancel" stands for a text with an
   exit keyword; _confirmation_intent takes it for a refusal, too. *)
Msg == {"yes", "no", "cancel", "retry", "resume", "text"}
Request == [msg : Msg, form : BOOLEAN]
Silent == [msg |-> "", form |-> FALSE]      \* process_step(session, "", None)

(* Mutant: the affirmative words searched inside the text ("not ok"). *)
AffirmsSomewhere(in) == in.msg \in {"yes", "no"}

Affirms(in) == in.msg = "yes"
Denies(in) == in.msg \in {"no", "cancel"}

(* _should_exit_active_workflow: what it may answer.  A form never exits, an
   exit keyword always does; of the rest, whatever does not look like a field
   value ("yes!" does not) is left to a language model. *)
ExitVerdicts(in) ==
  IF in.form THEN {FALSE} ELSE IF in.msg = "cancel" THEN {TRUE} ELSE BOOLEAN
=============================================================================
