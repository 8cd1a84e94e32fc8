--------------------------- MODULE MCWorkflowTurn ---------------------------
(* Small instances of WorkflowTurn: the shapes of workflow the templates and
   the tests use, over one or two fields. *)
EXTENDS WorkflowTurn

Blank == [id |-> "end", type |-> "complete", fields |-> {}, required |-> {}, rejects |-> {},
          semantic |-> FALSE, gated |-> FALSE, bound |-> TRUE, out |-> NoField,
          onFailure |-> "retry", fallback |-> NoStep, rules |-> <<>>,
          webhook |-> FALSE, url |-> FALSE]

Form(id, fs) == [Blank EXCEPT !.id = id, !.type = "collect", !.fields = fs, !.required = fs]
Check(id) == [Blank EXCEPT !.id = id, !.type = "validate", !.fields = {"f"}, !.rejects = {"v2"}]
Ask(id) == [Blank EXCEPT !.id = id, !.type = "confirm"]
Tool(id, onFailure) == [Blank EXCEPT !.id = id, !.type = "tool_call", !.onFailure = onFailure]
Gated(id, onFailure) == [Tool(id, onFailure) EXCEPT !.gated = TRUE]
Judge(id, fallback) == [Blank EXCEPT !.id = id, !.type = "decision", !.out = "g", !.fallback = fallback]
Review(id) == [Blank EXCEPT !.id = id, !.type = "human_review"]
Submit(id) == [Blank EXCEPT !.id = id, !.webhook = TRUE, !.url = TRUE]
To(field, val, goto) == [on |-> field, is |-> val, goto |-> goto]

(* The booking and repair templates: form, confirmation, submission. *)
Booking == <<Form("a", {"f"}), Ask("b"), Submit("z")>>
(* A gated write between form and submission. *)
Order == <<Form("a", {"f"}), Gated("b", "retry"), Submit("z")>>
(* A confirmation that leads straight to a gated write. *)
DoubleCheck == <<Form("a", {"f"}), Ask("b"), Gated("c", "rollback"), Blank>>
(* A decision branches; unsure cases pause for review. *)
Triage == <<Form("a", {"f"}),
            [Judge("b", "r") EXCEPT !.rules = <<To("g", "v1", "t"), To(Always, "v1", "r")>>],
            Tool("t", "escalate"), [Review("r") EXCEPT !.rules = <<To(Always, "v1", "z")>>],
            Submit("z")>>
(* Its fallback was pointed at a tool: publication refuses it, old rows may have it. *)
BadTriage == <<Form("a", {"f"}), Judge("b", "t"), Tool("t", "skip"), Blank>>
(* Validation that rolls back, a display-only step, an unbound tool, a tool with a fallback. *)
Checked == <<[Form("a", {"f"}) EXCEPT !.semantic = TRUE], [Check("b") EXCEPT !.onFailure = "rollback"],
             [Form("c", {}) EXCEPT !.type = "collect"], [Tool("d", "retry") EXCEPT !.bound = FALSE],
             [Tool("t", "retry") EXCEPT !.fallback = "r", !.out = "g"], Review("r")>>
(* A loop of automatic steps, and routes whose target is gone. *)
Loop == <<[Form("a", {"f"}) EXCEPT !.rules = <<To("f", "v2", "gone")>>],
          [Tool("b", "skip") EXCEPT !.fallback = "gone"],
          [Check("c") EXCEPT !.rejects = {"v1"}, !.fallback = "b"]>>
(* A validation that only complains, an optional field, a misconfigured decision. *)
Loose == <<[Form("a", {"f", "g"}) EXCEPT !.required = {"f"}], Check("b"),
           [Judge("c", "a") EXCEPT !.bound = FALSE]>>

(* A decision that fails towards a submission which is enabled, but goes nowhere. *)
Unaddressed == <<Form("a", {"f"}), Judge("b", "z"), [Submit("z") EXCEPT !.url = FALSE]>>

(* A form submitted at once: the run may start and complete in one turn. *)
Quick == <<Form("a", {"f"}), Submit("z")>>

Shapes == {Booking, Order, DoubleCheck, Triage, BadTriage, Checked, Loop, Loose, Unaddressed, Quick}

(* One ticket after another, which ends by submission, escalation, cancellation or
   a failed start, while an administrator inserts and deletes a lookup before the
   gated write, one step at a time. *)
Inserted == <<Form("a", {"f"}), Tool("t", "escalate"), Gated("b", "retry"), Submit("z")>>
Versions == {Order, Inserted}
=============================================================================
