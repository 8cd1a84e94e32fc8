------------------------------ MODULE StepGraph ------------------------------
(***************************************************************************)
(* A workflow definition read twice: by the validator that admits it       *)
(* (api/workflows.py) and by the executor that runs it                     *)
(* (workflow_executor.py).  A definition is a set of steps; a route names  *)
(* its target by id, by name or by order, and names may look like orders.  *)
(* The route of a rule is JSON: a text, or an integer, which the validator *)
(* reads by its str and the executor as an order only.                     *)
(***************************************************************************)
EXTENDS Naturals, Sequences, FiniteSets

CONSTANTS MaxDepth,    \* MAX_AUTO_ADVANCE_DEPTH
          Text(_)      \* str of an order

Earliest(steps) == {s \in steps : \A t \in steps : s.order <= t.order}
Successor(steps, s) == Earliest({t \in steps : t.order > s.order})

(* What a route may be: str of it, and whether it is an integer.  A failure route is a text. *)
Reference == [text : STRING, int : BOOLEAN]
Named(text) == [text |-> text, int |-> FALSE]
Number(n) == [text |-> Text(n), int |-> TRUE]

-----------------------------------------------------------------------------
(* The validator.  A step not stored yet has the id "".  A route that is 0 counts as missing. *)
References(steps) ==
  ({s.name : s \in steps} \cup {Text(s.order) : s \in steps} \cup {s.id : s \in steps}) \ {""}

Distinct(steps) == \A s, t \in steps : s.name = t.name \/ s.order = t.order => s = t

Shaped(s) ==
  /\ s.type = "tool_call" => s.tool # ""
  /\ s.type = "complete" => s.rules = <<>> /\ s.fallback = ""
  /\ s.type = "decision" => s.fallback # ""
  /\ s.fallback # "" => s.type \in {"decision", "tool_call", "validate"}

Routed(steps, s) ==
  /\ s.fallback \in References(steps) \cup {""}
  /\ \A i \in DOMAIN s.rules : /\ s.rules[i].goto # Number(0)
                               /\ s.rules[i].goto.text \in References(steps)
                               /\ s.rules[i].default => i = Len(s.rules)

Inputs(steps) == UNION {s.fields \cup s.mapped : s \in steps}

(* A decision reads what some step provides and writes what none does. *)
OwnResult(steps, s) ==
  s.type = "decision" =>
    /\ s.reads \subseteq Inputs(steps)
    /\ s.key \notin Inputs(steps)
    /\ \A t \in steps \ {s} : t.type = "decision" => t.key # s.key

(* The table of the cycle check: ids before names before orders, the first of each. *)
ById(steps) == [k \in {s.id : s \in steps} \ {""} |-> Earliest({s \in steps : s.id = k})]
ByName(steps) == [k \in {s.name : s \in steps} |-> Earliest({s \in steps : s.name = k})]
ByOrder(steps) == [k \in {Text(s.order) : s \in steps} |-> Earliest({s \in steps : Text(s.order) = k})]

Overlay(f, g) == [k \in DOMAIN f \cup DOMAIN g |-> IF k \in DOMAIN f THEN f[k] ELSE g[k]]
Table(steps) == Overlay(ById(steps), Overlay(ByName(steps), ByOrder(steps)))

SafeStop(s) ==
  \/ s.type = "human_review"
  \/ s.type = "collect" /\ s.fields # {}
  \/ s.type = "complete" /\ ~s.hooked

SafelyFails(steps, s) == s.type = "decision" => \A t \in Table(steps)[s.fallback] : SafeStop(t)

WellRouted(steps) ==
  /\ Distinct(steps)
  /\ \A s \in steps : Shaped(s) /\ Routed(steps, s) /\ OwnResult(steps, s) /\ SafelyFails(steps, s)

(* The steps that go on without the user. *)
GoesOn(s) ==
  \/ s.type \in {"validate", "tool_call", "decision"} /\ ~(s.type = "tool_call" /\ s.gated)
  \/ s.type = "collect" /\ s.fields = {}

HasDefault(s) == \E i \in DOMAIN s.rules : s.rules[i].default

Edges(steps, s) ==
  (UNION {Table(steps)[s.rules[i].goto.text] : i \in DOMAIN s.rules})
    \cup (IF HasDefault(s) THEN {} ELSE Successor(steps, s))
    \cup (IF s.fallback = "" THEN {} ELSE Table(steps)[s.fallback])

(* any(visit(target) ...): the search from one step after the other, until one of them *)
(* closes a cycle.                                                                      *)
AnyOf(visit, items, visited) ==
  LET seen[T \in SUBSET items] ==
        IF T = {} THEN [cyclic |-> FALSE, visited |-> visited]
        ELSE LET t == CHOOSE t \in T : TRUE
                 before == seen[T \ {t}]
             IN  IF before.cyclic THEN before ELSE visit[before.visited][t]
  IN  seen[items]

(* Mutant: a step is left on the path when the search returns from it. *)
StaysOnPath(s, free, visited) == s \notin free \/ s \in visited

OnPath(s, free, visited) == s \notin free

(* visit: a depth-first search; free are the steps that are not being visited. *)
Visit(graph) ==
  LET nodes == DOMAIN graph
      visit[free \in SUBSET nodes] ==
        [visited \in SUBSET nodes |-> [s \in nodes |->
           IF OnPath(s, free, visited) THEN [cyclic |-> TRUE, visited |-> visited]
           ELSE IF s \in visited THEN [cyclic |-> FALSE, visited |-> visited]
           ELSE LET below == AnyOf(visit[free \ {s}], graph[s], visited)
                IN  IF below.cyclic THEN below ELSE [below EXCEPT !.visited = @ \cup {s}]]]
  IN  visit

Automatic(steps) == {s \in steps : GoesOn(s)}
Graph(steps) == [s \in Automatic(steps) |-> Edges(steps, s) \cap Automatic(steps)]

AutomaticCycle(steps) ==
  LET nodes == Automatic(steps)
  IN  AnyOf(Visit(Graph(steps))[nodes], nodes, {}).cyclic

(* _validate_workflow_steps: a definition without a single error. *)
Accepts(steps) == WellRouted(steps) /\ ~AutomaticCycle(steps)

-----------------------------------------------------------------------------
(* The executor. *)
Resolve(steps, ref) ==
  LET byId == {s \in steps : ~ref.int /\ s.id = ref.text}
      byName == {s \in steps : ~ref.int /\ s.name = ref.text}
      byOrder == {s \in steps : Text(s.order) = ref.text}
  IN  Earliest(IF byId # {} THEN byId ELSE IF byName # {} THEN byName ELSE byOrder)

(* evaluate_rules takes the first rule that matches: none after a default one. *)
MayFire(s) == {i \in DOMAIN s.rules : \A j \in 1..i - 1 : ~s.rules[j].default}

(* The routes a step may take, whatever the data and however its call or check ends. *)
Routes(s) ==
  {s.rules[i].goto : i \in MayFire(s)}
    \cup (IF s.type \in {"decision", "tool_call", "validate"} THEN {Named(text) : text \in {s.fallback} \ {""}} ELSE {})

Onward(steps, s) ==
  IF s.type = "complete" THEN {}
  ELSE (UNION {Resolve(steps, ref) : ref \in Routes(s)})
         \cup (IF \E i \in MayFire(s) : s.rules[i].default THEN {} ELSE Successor(steps, s))

(* _enter_step: the steps that are run as soon as they are entered. *)
RunsAtOnce(s) ==
  \/ s.type \in {"validate", "tool_call", "decision", "complete", "human_review"}
  \/ s.type = "collect" /\ s.fields = {}

(* Of these, the ones that end the turn: by a gate, a review or the end. *)
EndsTurn(s) == s.type \in {"complete", "human_review"} \/ (s.type = "tool_call" /\ s.gated)

(* The steps process_step may be called for at each _depth of one turn: the turn's own *)
(* step at depth 0, whatever it is.                                                    *)
AtDepth(steps, most) ==
  LET at[d \in 0..most] ==
        IF d = 0 THEN steps
        ELSE {t \in UNION {Onward(steps, s) : s \in {s \in at[d - 1] : d = 1 \/ ~EndsTurn(s)}} :
                RunsAtOnce(t)}
  IN  at[most]

Endless(steps) == AtDepth(steps, Cardinality(steps) + 1) # {}

(* No step is called like the integer a route is, so that validator and executor mean *)
(* the same step by it.                                                                *)
Clear(steps, ref) == ref.int => \A s \in steps : ref.text \notin {s.id, s.name}
AllClear(steps) == \A s \in steps : \A i \in DOMAIN s.rules : Clear(steps, s.rules[i].goto)

(* What the executor needs of a definition: every clear route leads somewhere, a failed *)
(* decision to a stop that touches nothing outside, no decision overwrites what a step  *)
(* collects, every call has its tool; and, where all routes are clear, no turn of a     *)
(* definition of at most MaxDepth steps meets the depth guard.                          *)
Sound(steps) ==
  /\ \A s, t \in steps : s # t => s.order # t.order
  /\ \A s \in steps :
       /\ \A ref \in Routes(s) : Clear(steps, ref) => Resolve(steps, ref) # {}
       /\ s.type = "decision" => /\ s.fallback # ""
                                 /\ \A t \in Resolve(steps, Named(s.fallback)) : SafeStop(t)
                                 /\ \A t \in steps : s.key \notin t.fields
       /\ s.type = "tool_call" => s.tool # ""
  /\ AllClear(steps) /\ Cardinality(steps) <= MaxDepth => AtDepth(steps, MaxDepth + 1) = {}
=============================================================================
