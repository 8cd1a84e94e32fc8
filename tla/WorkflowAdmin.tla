---------------------------- MODULE WorkflowAdmin ----------------------------
(***************************************************************************)
(* The administration of one workflow (api/workflows.py).  A request reads *)
(* the definition, validates what it would become and, after another       *)
(* database call, commits: between the two the requests of other           *)
(* administrators run, and nothing locks the definition.  An update writes *)
(* only the columns that differ from what it read.                         *)
(***************************************************************************)
EXTENDS StepGraph

CONSTANTS Admin,        \* administrators with a request each
          Body,         \* the steps a request may send (StepCreate); they have no id yet
          Ids,          \* the ids of step rows, in the order they are given out
          OwnTools,     \* tools of the tenant
          MaxSteps,     \* bound on the steps of a definition
          MaxRequests   \* bound on the requests made after the creation

(* A step with its columns; names and orders are those of the bodies. *)
StepType == {"collect", "validate", "tool_call", "decision", "confirm", "human_review", "complete"}
Step(ids) ==
  [id : ids, name : {b.name : b \in Body}, order : {b.order : b \in Body}, type : StepType,
   fields : SUBSET STRING, mapped : SUBSET STRING, tool : STRING, gated : BOOLEAN, hooked : BOOLEAN,
   reads : SUBSET STRING, key : STRING, fallback : STRING,
   rules : Seq([default : BOOLEAN, goto : Reference])]

(* Ids differ, and none reads like an order.  No step is named "None", which is how the *)
(* validator reads the id a step has not got yet when it looks a failure route up.      *)
ASSUME AdminAssumption ==
  /\ MaxSteps \in Nat /\ MaxRequests \in Nat /\ MaxDepth \in Nat
  /\ Ids \in Seq(STRING \ {""})
  /\ \A m, n \in DOMAIN Ids : Ids[m] = Ids[n] => m = n
  /\ MaxSteps + MaxRequests <= Len(Ids)
  /\ IsFiniteSet(Body) /\ Body \subseteq Step({""})
  /\ \A b \in Body : /\ b.name \notin {"", "None"} /\ b.order \in Nat
                      /\ \A n \in DOMAIN Ids : Ids[n] # Text(b.order)

VARIABLES alive,        \* the workflow row exists
          rows,         \* its step rows
          version,      \* Workflow.version
          published,    \* WorkflowVersion rows: number -> snapshot
          pending,      \* what each administrator's request has read, before its commit
          made,         \* step ids given out
          requests,     \* requests made
          skewed,       \* a step was written on a definition read before another's write
          behind        \* the version number was written from one read before another's write

adminVars == <<alive, rows, version, published, pending, made, requests, skewed, behind>>

Saved(b, id) == [b EXCEPT !.id = id]
Idle == [op |-> "none"]
NoRow == [id |-> ""]

AdminInit ==
  /\ alive = FALSE /\ rows = {} /\ version = 1 /\ published = <<>> /\ made = 0
  /\ pending = [a \in Admin |-> Idle] /\ requests = 0
  /\ skewed = FALSE /\ behind = FALSE

(* _validate_tool_ownership *)
Owned(steps) == \A s \in steps : s.tool \in OwnTools \cup {""}

(* A name may be the id of a step; nobody guesses one before it is given out. *)
Guessed(b) == \E n \in DOMAIN Ids : n > made /\ b.name = Ids[n]

(* create_workflow: the steps have no ids yet when they are validated. *)
Create ==
  /\ ~alive /\ requests = 0
  /\ \E bodies \in SUBSET Body :
       /\ Cardinality(bodies) <= MaxSteps
       /\ \A b \in bodies : ~Guessed(b)
       /\ Accepts(bodies)
       /\ Owned(bodies)
       /\ rows' = {Saved(b, Ids[Cardinality({c \in bodies : c.order <= b.order})]) : b \in bodies}
       /\ made' = Cardinality(bodies)
  /\ alive' = TRUE
  /\ UNCHANGED <<version, published, pending, requests, skewed, behind>>

-----------------------------------------------------------------------------
(* The first half of a request: what it read and means to do. *)
Reads(a, op, row) ==
  /\ alive
  /\ pending[a] = Idle
  /\ requests < MaxRequests
  /\ pending' = [pending EXCEPT ![a] = [op |-> op, row |-> row, read |-> rows, num |-> version]]
  /\ requests' = requests + 1
  /\ UNCHANGED <<alive, rows, version, published, made, skewed, behind>>

AddStep(a) ==
  \E b \in Body :
    /\ Cardinality(rows) < MaxSteps
    /\ ~Guessed(b)
    /\ Accepts(rows \cup {b})
    /\ Owned({b})
    /\ Reads(a, "add", b)

UpdateStep(a) ==
  \E s \in rows, b \in Body :
    /\ ~Guessed(b)
    /\ Accepts((rows \ {s}) \cup {Saved(b, s.id)})
    /\ Owned({b})
    /\ Reads(a, "update", Saved(b, s.id))

(* Mutant: taking a step away needs no validation. *)
DeleteUnchecked(a) == \E s \in rows : Reads(a, "delete", s)

DeleteStep(a) ==
  \E s \in rows :
    /\ Accepts(rows \ {s})
    /\ Reads(a, "delete", s)

Publish(a) ==
  /\ rows # {}
  /\ Accepts(rows)
  /\ Owned(rows)
  /\ Reads(a, "publish", NoRow)

UpdateWorkflow(a) == Reads(a, "put", NoRow)
DeleteWorkflow(a) == Reads(a, "drop", NoRow)

-----------------------------------------------------------------------------
(* The second half: the commit. *)
Finishes(a, op) == pending[a].op = op /\ pending' = [pending EXCEPT ![a] = Idle]
Stale(a) == skewed' = (skewed \/ pending[a].read # rows)

(* Foreign keys are not enforced on SQLite: a step of a deleted workflow is stored. *)
CommitAdd(a) ==
  /\ Finishes(a, "add")
  /\ \/ /\ rows' = rows \cup {Saved(pending[a].row, Ids[made + 1])}
        /\ made' = made + 1
     \/ ~alive /\ UNCHANGED <<rows, made>>
  /\ Stale(a)
  /\ UNCHANGED <<alive, version, published, requests, behind>>

(* The columns that differ from the row it read; no row is left to update: an error. *)
Merged(row, old, new) == [f \in DOMAIN row |-> IF new[f] = old[f] THEN row[f] ELSE new[f]]

CommitUpdate(a) ==
  LET new == pending[a].row
      old == CHOOSE s \in pending[a].read : s.id = new.id
  IN  /\ Finishes(a, "update")
      /\ rows' = {IF s.id = new.id THEN Merged(s, old, new) ELSE s : s \in rows}
      /\ Stale(a)
      /\ UNCHANGED <<alive, version, published, made, requests, behind>>

CommitDelete(a) ==
  /\ Finishes(a, "delete")
  /\ rows' = {s \in rows : s.id # pending[a].row.id}
  /\ Stale(a)
  /\ UNCHANGED <<alive, version, published, made, requests, behind>>

Numbered(a) == behind' = (behind \/ pending[a].num # version)

(* A number that is taken, or a workflow that is gone, rolls the whole of it back. *)
CommitPublish(a) ==
  LET n == pending[a].num
  IN  /\ Finishes(a, "publish")
      /\ IF alive /\ n \notin DOMAIN published
         THEN /\ published' = Overlay(published, [k \in {n} |-> pending[a].read])
              /\ version' = n + 1
              /\ Numbered(a)
         ELSE UNCHANGED <<published, version, behind>>
      /\ UNCHANGED <<alive, rows, made, requests, skewed>>

CommitPut(a) ==
  /\ Finishes(a, "put")
  /\ IF alive THEN version' = pending[a].num + 1 /\ Numbered(a)
              ELSE UNCHANGED <<version, behind>>
  /\ UNCHANGED <<alive, rows, published, made, requests, skewed>>

CommitDrop(a) ==
  /\ Finishes(a, "drop")
  /\ alive' = FALSE
  /\ rows' = {s \in rows : \A t \in pending[a].read : t.id # s.id}
  /\ UNCHANGED <<version, published, made, requests, skewed, behind>>

AdminNext ==
  \/ Create
  \/ \E a \in Admin : \/ AddStep(a) \/ UpdateStep(a) \/ DeleteStep(a)
                      \/ Publish(a) \/ UpdateWorkflow(a) \/ DeleteWorkflow(a)
                      \/ CommitAdd(a) \/ CommitUpdate(a) \/ CommitDelete(a)
                      \/ CommitPublish(a) \/ CommitPut(a) \/ CommitDrop(a)

AdminSpec == AdminInit /\ [][AdminNext]_adminVars

-----------------------------------------------------------------------------
AdminTypeOK ==
  /\ alive \in BOOLEAN /\ skewed \in BOOLEAN /\ behind \in BOOLEAN
  /\ \A s \in rows : s.id \in {Ids[n] : n \in 1..made}
  /\ \A s, t \in rows : s.id = t.id => s = t
  /\ version \in Nat \ {0} /\ DOMAIN published \subseteq Nat \ {0}
  /\ made \in Nat /\ requests \in 0..MaxRequests
  /\ \A a \in Admin : pending[a].op \in {"none", "add", "update", "delete", "publish", "put", "drop"}

(* Edits that do not overlap keep the live definition one the executor can run: however *)
(* steps are added, changed and taken away, what the validator admits is what the       *)
(* executor needs, as far as its routes are clear.                                      *)
LiveSound == alive /\ ~skewed => Sound(rows)

(* A published snapshot is one the executor can run, as far as its routes are clear, *)
(* whatever races left in the rows.                                                  *)
PublishedSound == \A n \in DOMAIN published : Sound(published[n])

(* The cycle check refuses a definition exactly when a turn of it would never stop for  *)
(* the user: no endless chain gets in, and no retry loop through the user is kept out.  *)
(* It is said of definitions whose integer routes are clear: where a step is called     *)
(* like one, the check follows that step and the executor the step of that order.       *)
CycleCheckExact ==
  \A b \in Body :
    LET steps == rows \cup {b}
    IN  WellRouted(steps) /\ AllClear(steps) => (AutomaticCycle(steps) <=> Endless(steps))

(* The next publication finds its number free, unless a request wrote the counter from  *)
(* a value another one had already moved on.                                            *)
NumberIsFree == alive /\ ~behind => version \notin DOMAIN published

(* What stands in the three tables: rows in their shape, a live definition and published *)
(* ones the executor can run, and a counter that names the next publication              *)
(* (add_step, update_step, delete_step, publish_workflow, update_workflow).               *)
DefinitionsSound == AdminTypeOK /\ LiveSound /\ PublishedSound /\ NumberIsFree
=============================================================================
