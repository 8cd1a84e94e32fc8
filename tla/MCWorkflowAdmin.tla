--------------------------- MODULE MCWorkflowAdmin ---------------------------
(***************************************************************************)
(* Steps "a", "b", one whose name reads like the order of "b", and one     *)
(* whose name reads like the id of the first step; routes by name, by      *)
(* order and by number, among them one to "b" that is clear only while     *)
(* the step called like its order is not there, and one that is missing.   *)
(***************************************************************************)
EXTENDS WorkflowAdmin, TLC

To(ref) == [default |-> TRUE, goto |-> ref]
If(ref) == [default |-> FALSE, goto |-> ref]

Plain(name, order, type) ==
  [id |-> "", name |-> name, order |-> order, type |-> type, fields |-> {}, mapped |-> {},
   tool |-> "", gated |-> FALSE, hooked |-> FALSE, reads |-> {}, key |-> "", fallback |-> "",
   rules |-> <<>>]
Ask(name, order) == [Plain(name, order, "collect") EXCEPT !.fields = {"x"}]
Call(name, order) == [Plain(name, order, "tool_call") EXCEPT !.tool = "mine"]
Decide(name, order) ==
  [Plain(name, order, "decision") EXCEPT !.reads = {"x"}, !.key = "route", !.fallback = "a"]

MCBody ==
  { Ask("a", 0),
    [Plain("a", 0, "collect") EXCEPT !.rules = <<If(Number(1))>>],
    [Plain("b", 1, "validate") EXCEPT !.fallback = "a"],
    [Plain("b", 1, "validate") EXCEPT !.rules = <<If(Named("0")), To(Named("1"))>>],
    [Plain("b", 1, "validate") EXCEPT !.rules = <<If(Number(0)), To(Number(1))>>],
    [Plain("b", 1, "validate") EXCEPT !.rules = <<To(Number(1))>>],
    [Ask("b", 1) EXCEPT !.fields = {"route"}, !.rules = <<To(Named("s1"))>>],
    Decide("b", 1),
    [Decide("1", 2) EXCEPT !.fallback = "b"],
    [Call("1", 2) EXCEPT !.rules = <<To(Named("b"))>>],
    [Call("1", 2) EXCEPT !.gated = TRUE, !.rules = <<To(Named("s1"))>>],
    [Call("1", 2) EXCEPT !.tool = "theirs"],
    Plain("c", 2, "complete"),
    Plain("s1", 2, "human_review"),
    [Plain("a", 0, "complete") EXCEPT !.hooked = TRUE] }

MCIds == <<"s1", "s2", "s3", "s4", "s5", "s6">>

Symmetric == Permutations(Admin)
=============================================================================
